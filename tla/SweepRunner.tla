------------------------------ MODULE SweepRunner -----------------------------
(***************************************************************************)
(* The open-loop sweeps of system identification (run_sweeps.py): the node *)
(* takes the controller's place, answers the gate at every ego_odom and    *)
(* runs a phase machine per sweep run, each after a reset of its own.      *)
(***************************************************************************)
EXTENDS WorldFeed, FiniteSets

CONSTANTS
  SettleTicks,  \* SETTLE_TICKS
  HoldTicks,    \* hold_ticks of every run
  Runs,         \* number of runs
  ReachV0       \* whether the runs have an initial speed to reach

ASSUME SweepAssumption ==
  /\ SettleTicks \in Nat /\ HoldTicks \in Nat /\ Runs \in Nat
  /\ ReachV0 \subseteq BOOLEAN

VARIABLES
  spc,        \* where the driver is
  run,        \* number of the run
  state,      \* _run: phase, phase_start_k and rows, or NoRun
  stampFrom,  \* _episode_stamp, -1 for None
  seen,       \* _episode_seen
  warned,     \* _timeouts
  sheet,      \* the rows of the CSV, with the number of their run
  status      \* exit status, -1 while running

sweepVars == <<spc, run, state, stampFrom, seen, warned, sheet, status>>

NoRun == [phase |-> "none", start |-> -1, rows |-> <<>>]

SweepTypeOK ==
  /\ spc \in {"service", "response", "run", "exit"}
  /\ run \in 1 .. Runs + 1
  /\ state.phase \in {"none", "settle", "reach", "hold", "done"}
  /\ state.start \in Int
  /\ stampFrom \in Int /\ seen \in BOOLEAN /\ warned \in Nat
  /\ status \in {-1, 0, 2}

SweepInit ==
  /\ spc = "service" /\ run = 1 /\ state = NoRun
  /\ stampFrom = -1 /\ seen = FALSE /\ warned = 0
  /\ sheet = <<>> /\ status = -1

-------------------------------------------------------------------------------
(* The phase machine: _control and _enter.  "driven" is whether the speed has *)
(* reached v0 (reach) or fallen below stop_speed (hold).                       *)

Enter(s, phase, k) == [s EXCEPT !.phase = phase, !.start = k]

(* The state after tick k and the phase its row is given. *)
Control(s, k, driven) ==
  LET start   == IF s.start < 0 THEN k ELSE s.start
      begun   == [s EXCEPT !.start = start]
      held    == IF s.phase = "reach" THEN 0 ELSE k - start
      holding == IF s.phase = "reach" THEN Enter(s, "hold", k) ELSE begun
      over    == held >= HoldTicks \/ (held > 5 /\ driven)
  IN  CASE s.phase = "settle" ->
             [to |-> IF k - start < SettleTicks THEN begun
                     ELSE Enter(s, IF TRUE \in ReachV0 THEN "reach" ELSE "hold", k),
              row |-> "settle"]
        [] s.phase = "reach" /\ ~ driven -> [to |-> begun, row |-> "reach"]
        [] s.phase = "done" -> [to |-> s, row |-> "done"]
        [] OTHER -> IF over THEN [to |-> [holding EXCEPT !.phase = "done"], row |-> "done"]
                    ELSE [to |-> holding, row |-> "hold"]

-------------------------------------------------------------------------------
(* The node's callbacks, handled while the driver spins. *)

Awake == spc \in {"response", "run"}

OnEvent ==
  /\ Awake /\ Handle("reset_event") /\ UNCHANGED commanded
  /\ stampFrom' = Head(queue["reset_event"]).k
  /\ seen' = FALSE
  /\ UNCHANGED <<spc, run, state, warned, sheet, status>>

OnTimeout ==
  /\ Awake /\ Handle("tick_timeout") /\ UNCHANGED commanded
  /\ warned' = warned + 1
  /\ UNCHANGED <<spc, run, state, stampFrom, seen, sheet, status>>

(* _on_ego_odom: one row per tick of the run, and a command for every tick. *)
OnEgoOdom ==
  /\ Awake /\ Handle("ego_odom")
  /\ LET msg == Head(queue["ego_odom"])
         now_seen == seen \/ (stampFrom >= 0 /\ msg.k >= stampFrom)
     IN  /\ seen' = now_seen
         /\ commanded' = IF msg.k > commanded THEN msg.k ELSE commanded
         /\ IF state # NoRun /\ now_seen
            THEN \E driven \in BOOLEAN :
                   LET next == Control(state, msg.k, driven)
                   IN  state' = [next.to EXCEPT !.rows =
                         Append(@, [k |-> msg.k, of |-> msg.of, phase |-> next.row])]
            ELSE UNCHANGED state
  /\ UNCHANGED <<spc, run, stampFrom, warned, sheet, status>>

-------------------------------------------------------------------------------
(* The driver: reset, execute and main. *)

StartOf == [NoRun EXCEPT !.phase = "settle"]

(* Mutant: the run is set up before its reset is called. *)
SweepCallEarly ==
  /\ spc = "service" /\ run <= Runs /\ up = "serving"
  /\ seen' = FALSE
  /\ Call(run)
  /\ spc' = "response" /\ state' = StartOf
  /\ UNCHANGED <<run, stampFrom, warned, sheet, status>>

SweepCall ==
  /\ spc = "service" /\ run <= Runs /\ up = "serving"
  /\ seen' = FALSE
  /\ Call(run)
  /\ spc' = "response"
  /\ UNCHANGED <<run, state, stampFrom, warned, sheet, status>>

(* The next run: the rows of this one are kept, its state is gone. *)
NextRun(rows) ==
  /\ sheet' = Append(sheet, rows)
  /\ state' = NoRun
  /\ run' = run + 1
  /\ spc' = "service"

(* reset returns False, execute no rows: no service, a refusal, no answer. *)
SweepRefused ==
  /\ \/ spc = "service" /\ run <= Runs /\ up # "serving"
     \/ spc = "response" /\ ~ (answer.call = run /\ answer.ok)
  /\ NextRun(<<>>)
  /\ Forget
  /\ UNCHANGED <<stampFrom, seen, warned, status>>

SweepResetOk ==
  /\ spc = "response" /\ answer.call = run /\ answer.ok
  /\ state' = StartOf
  /\ spc' = "run"
  /\ Forget
  /\ UNCHANGED <<run, stampFrom, seen, warned, sheet, status>>

(* The run is done, or has taken too long on the wall clock. *)
SweepEnd ==
  /\ spc = "run"
  /\ NextRun(state.rows)
  /\ UNCHANGED <<feedVars, stampFrom, seen, warned, status>>

(* main: any lockstep timeout that was heard of makes the exit status 2. *)
SweepFinish ==
  /\ spc = "service" /\ run > Runs
  /\ spc' = "exit"
  /\ status' = IF warned > 0 THEN 2 ELSE 0
  /\ UNCHANGED <<feedVars, run, state, stampFrom, seen, warned, sheet>>

SweepWork == SweepCall \/ SweepRefused \/ SweepResetOk \/ SweepEnd \/ SweepFinish

SweepNext == SweepWork \/ OnEvent \/ OnTimeout \/ OnEgoOdom

-------------------------------------------------------------------------------
(* The rows fit_models.py differentiates (runs_from_rows takes the rows of phase *)
(* hold, and acceleration assumes one tick between two of them) are consecutive  *)
(* ticks of one episode, after the settling, and no episode serves two runs: the *)
(* car was at the start of the straight and at rest when the run began.          *)
GoodRun(rows) ==
  /\ \A i \in 1 .. Len(rows) - 1 : rows[i + 1].k = rows[i].k + 1
  /\ \A i, j \in DOMAIN rows : rows[i].of = rows[j].of
  /\ \A i \in DOMAIN rows : rows[i].phase = "hold" =>
       /\ i > SettleTicks
       /\ Cardinality({j \in 1 .. i : rows[j].phase = "hold"}) <= HoldTicks

CleanSweep ==
  timeouts = 0 =>
    /\ \A r \in DOMAIN sheet : GoodRun(sheet[r])
    /\ GoodRun(state.rows)
    /\ \A q, r \in DOMAIN sheet : \A i \in DOMAIN sheet[q], j \in DOMAIN sheet[r] :
         sheet[q][i].of = sheet[r][j].of => q = r

===============================================================================
