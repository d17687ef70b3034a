----------------------------- MODULE RouteHarness -----------------------------
(***************************************************************************)
(* The evaluation harness: run_routes.py launches one stack per town and   *)
(* drives its routes through RouteRunnerNode (route_runner.py), one reset  *)
(* and one row of results.csv per route.  The node handles callbacks only  *)
(* while it spins; every wait has a wall-clock bound.                      *)
(***************************************************************************)
EXTENDS WorldFeed, FiniteSets

CONSTANT Routes   \* the town of every route, in file order

ASSUME RoutesAssumption == Routes \in Seq(STRING)

VARIABLES
  hpc,      \* where run_routes is
  group,    \* index of the town being driven
  route,    \* index of the route within its town
  calls,    \* reset calls made
  wanted,   \* episode_id of the last ok response
  known,    \* _episode_id
  since,    \* _episode_k
  trace,    \* _trace: where the recorded messages came from
  rows,     \* the rows of results.csv
  perfect,  \* whether every row so far says "completed"
  code,     \* exit status, -1 while running
  torn      \* history: a Ctrl-C came where nothing stops the stack for it

harnessVars == <<hpc, group, route, calls, wanted, known, since, trace, rows, perfect, code,
                torn>>

(* The n-th smallest of the indices in S. *)
Nth(S, n) == CHOOSE i \in S : Cardinality({j \in S : j <= i}) = n

InOrder(S) == [n \in 1 .. Cardinality(S) |-> Nth(S, n)]

(* group_by_town: the towns in the order of their first route, and the routes *)
(* of a town in file order.                                                    *)
FirstRoutes == {i \in DOMAIN Routes : \A j \in 1 .. i - 1 : Routes[j] # Routes[i]}

Towns == [n \in DOMAIN InOrder(FirstRoutes) |-> Routes[InOrder(FirstRoutes)[n]]]

RoutesOf(town) == InOrder({i \in DOMAIN Routes : Routes[i] = town})

Current == RoutesOf(Towns[group])[route]

HarnessTypeOK ==
  /\ hpc \in {"town", "startup", "route", "service", "response", "event", "drive",
              "stop", "stopping", "exit"}
  /\ group \in Nat /\ route \in Nat /\ calls \in Nat
  /\ wanted \in Nat /\ known \in Int /\ since \in Int
  /\ trace \subseteq Nat \X Nat
  /\ Len(rows) <= Len(Routes)
  /\ code \in {-1, 0, 1, 130} /\ perfect \in BOOLEAN /\ torn \in BOOLEAN

HarnessInit ==
  /\ hpc = "town" /\ group = 1 /\ route = 1 /\ calls = 0 /\ wanted = 0
  /\ known = -1 /\ since = -1 /\ trace = {}
  /\ rows = <<>> /\ perfect = TRUE /\ code = -1 /\ torn = FALSE

-------------------------------------------------------------------------------
(* RouteRunnerNode's callbacks, handled while it spins. *)

Spinning == hpc \in {"response", "event", "drive"}

(* _on_reset_event: ids only grow, anything not newer is ignored. *)
OnResetEvent ==
  /\ Spinning /\ Handle("reset_event") /\ UNCHANGED commanded
  /\ LET msg == Head(queue["reset_event"])
     IN  IF msg.episode > known
         THEN known' = msg.episode /\ since' = msg.k /\ trace' = {}
         ELSE UNCHANGED <<known, since, trace>>
  /\ UNCHANGED <<hpc, group, route, calls, wanted, rows, perfect, code, torn>>

(* _on_ego_odom, and _on_control_debug, _on_reference_line, _on_tick_timeout    *)
(* like it: what is stamped before the episode is dropped, the rest recorded.   *)
OnStamped ==
  /\ Spinning /\ Handle("ego_odom") /\ UNCHANGED commanded
  /\ LET msg == Head(queue["ego_odom"])
     IN  trace' = IF msg.k < since THEN trace ELSE trace \cup {msg.of}
  /\ UNCHANGED <<hpc, group, route, calls, wanted, known, since, rows, perfect, code,
                 torn>>

-------------------------------------------------------------------------------
(* run_routes.py main and _drive_town. *)

Goto(label) == hpc' = label

(* One row per route.  "alien" keeps of the recorded trace what the properties *)
(* need: the launches and episodes, other than its own, that it is made of.    *)
Report(status) ==
  /\ rows' = Append(rows,
       [route |-> Current, launch |-> launch,
        alien |-> IF status = "not_driven" THEN {}
                  ELSE trace \ {<<launch, wanted>>}])
  /\ perfect' = (perfect /\ status = "completed")
  /\ route' = route + 1
  /\ Goto("route")

Launch ==
  /\ hpc = "town" /\ group <= Len(Towns)
  /\ up' = "booting" /\ launch' = launch + 1
  /\ now' = 0 /\ episode' = 0 /\ gate' = "loop" /\ commanded' = -1
  /\ pending' = 0 /\ told' = FALSE
  /\ Goto("startup")
  /\ UNCHANGED <<answer, queue, timeouts, group, route, calls, wanted, known, since,
                 trace, rows, perfect, code, torn>>

(* All towns are driven: the table, and 0 only if every route was completed. *)
Finish ==
  /\ hpc = "town" /\ group > Len(Towns)
  /\ code' = IF rows # <<>> /\ perfect THEN 0 ELSE 1
  /\ Goto("exit")
  /\ UNCHANGED <<feedVars, group, route, calls, wanted, known, since, trace,
                 rows, perfect, torn>>

(* time.sleep(stack_startup_s) is over, whether or not the stack is up. *)
StartupOver ==
  /\ hpc = "startup"
  /\ Goto("route")
  /\ UNCHANGED <<feedVars, group, route, calls, wanted, known, since, trace,
                 rows, perfect, code, torn>>

(* Mutant: the first route that meets a dead stack ends the town. *)
StackDiedBreaks ==
  /\ hpc = "route" /\ route <= Len(RoutesOf(Towns[group])) /\ up = "down"
  /\ Goto("stop")
  /\ UNCHANGED <<feedVars, group, route, calls, wanted, known, since, trace, rows,
                 perfect, code, torn>>

(* Mutant: the same route is reported again and again. *)
StackDiedAgain ==
  /\ hpc = "route" /\ route <= Len(RoutesOf(Towns[group])) /\ up = "down"
  /\ rows' = Append(rows, [route |-> Current, launch |-> launch, alien |-> {}])
  /\ UNCHANGED <<hpc, feedVars, group, route, calls, wanted, known, since, trace,
                 perfect, code, torn>>

StackDied ==
  /\ hpc = "route" /\ route <= Len(RoutesOf(Towns[group])) /\ up = "down"
  /\ Report("not_driven")
  /\ UNCHANGED <<feedVars, group, calls, wanted, known, since, trace, code, torn>>

(* drive, then reset_to: wait for the service (without spinning), ... *)
StartRoute ==
  /\ hpc = "route" /\ route <= Len(RoutesOf(Towns[group])) /\ up # "down"
  /\ Goto("service")
  /\ UNCHANGED <<feedVars, group, route, calls, wanted, known, since, trace,
                 rows, perfect, code, torn>>

(* ... which answers no more once world_manager has gone, ... *)
ServiceUnavailable ==
  /\ hpc = "service" /\ up # "serving"
  /\ Report("not_driven")
  /\ UNCHANGED <<feedVars, group, calls, wanted, known, since, trace, code, torn>>

(* ... call it, ... *)
CallReset ==
  /\ hpc = "service" /\ up = "serving"
  /\ calls' = calls + 1
  /\ Call(calls + 1)
  /\ Goto("response")
  /\ UNCHANGED <<group, route, wanted, known, since, trace, rows, perfect, code, torn>>

(* ... wait for the answer, which may not come in time or be a refusal, ... *)
ResetRefused ==
  /\ hpc = "response"
  /\ ~ (answer.call = calls /\ answer.ok)
  /\ Report("not_driven")
  /\ Forget
  /\ UNCHANGED <<group, calls, wanted, known, since, trace, code, torn>>

ResetOk ==
  /\ hpc = "response" /\ answer.call = calls /\ answer.ok
  /\ wanted' = answer.episode
  /\ Goto("event")
  /\ Forget
  /\ UNCHANGED <<group, route, calls, known, since, trace, rows, perfect, code, torn>>

(* Mutant: the waypoints go out as soon as the service has answered. *)
EventSkipped ==
  /\ hpc = "event"
  /\ Goto("drive")
  /\ UNCHANGED <<feedVars, group, route, calls, wanted, known, since, trace,
                 rows, perfect, code, torn>>

(* ... and for the event of that episode; the waypoints are published. *)
EventSeen ==
  /\ hpc = "event" /\ known >= wanted
  /\ Goto("drive")
  /\ UNCHANGED <<feedVars, group, route, calls, wanted, known, since, trace,
                 rows, perfect, code, torn>>

EventMissed ==
  /\ hpc = "event" /\ known < wanted
  /\ Report("not_driven")
  /\ UNCHANGED <<feedVars, group, calls, wanted, known, since, trace, code, torn>>

(* Mutant: the wall clock is only looked at once odometry has arrived. *)
EndDriveWithOdom ==
  /\ hpc = "drive" /\ trace # {}
  /\ \E s \in {"completed", "given_up"} : Report(s)
  /\ UNCHANGED <<feedVars, group, calls, wanted, known, since, trace, code, torn>>

(* The loop of drive ends, _fill and _write_trace follow: given up at the wall *)
(* timeout at any moment, or, as blocked or sim_timeout or completed, by what  *)
(* the recorded odometry says.                                                 *)
EndDrive ==
  /\ hpc = "drive"
  /\ \E s \in {"completed", "given_up"} :
       /\ s = "completed" => trace # {}
       /\ Report(s)
  /\ UNCHANGED <<feedVars, group, calls, wanted, known, since, trace, code, torn>>

EndTown ==
  /\ hpc = "route" /\ route > Len(RoutesOf(Towns[group]))
  /\ Goto("stop")
  /\ UNCHANGED <<feedVars, group, route, calls, wanted, known, since, trace,
                 rows, perfect, code, torn>>

(* StackProcess.stop: SIGINT if the launch still runs; after an interrupt the *)
(* program ends, otherwise the next town is next.                              *)
NextTown ==
  /\ group' = group + 1 /\ route' = 1
  /\ IF code = 130 THEN Goto("exit") ELSE Goto("town")

(* Mutant: SIGINT is sent and nobody waits for the launch. *)
SignalOnly ==
  /\ hpc = "stop" /\ up # "down"
  /\ up' = "dying"
  /\ NextTown
  /\ UNCHANGED <<launch, now, episode, gate, commanded, pending, told, answer, queue,
                 timeouts, calls, wanted, known, since, trace, rows, perfect, code, torn>>

SignalStack ==
  /\ hpc = "stop" /\ up # "down"
  /\ up' = "dying"
  /\ Goto("stopping")
  /\ UNCHANGED <<launch, now, episode, gate, commanded, pending, told, answer, queue,
                 timeouts, group, route, calls, wanted, known, since, trace, rows,
                 perfect, code, torn>>

StackGone ==
  /\ hpc \in {"stop", "stopping"} /\ up = "down"
  /\ NextTown
  /\ UNCHANGED <<feedVars, calls, wanted, known, since, trace, rows, perfect,
                 code, torn>>

(* Mutant: the grace period is over and nobody kills the launch. *)
KillNobody ==
  /\ hpc = "stopping" /\ up # "down"
  /\ NextTown
  /\ UNCHANGED <<feedVars, calls, wanted, known, since, trace, rows, perfect,
                 code, torn>>

(* The grace period is over: SIGKILL to the process group. *)
KillStack ==
  /\ hpc = "stopping" /\ up # "down"
  /\ up' = "down"
  /\ NextTown
  /\ UNCHANGED <<launch, now, episode, gate, commanded, pending, told, answer, queue,
                 timeouts, calls, wanted, known, since, trace, rows, perfect, code, torn>>

(* Ctrl-C.  The stack runs in its own session and does not see it; the finally *)
(* of _drive_town stops it, but the startup sleep is before the try and a stop *)
(* that is interrupted is not resumed.                                         *)
Interrupt ==
  /\ hpc \notin {"town", "exit"} /\ code = -1
  /\ code' = 130 /\ torn' = (hpc \in {"startup", "stopping"})
  /\ IF torn' THEN Goto("exit") ELSE Goto("stop")
  /\ UNCHANGED <<feedVars, group, route, calls, wanted, known, since, trace,
                 rows, perfect>>

HarnessWork ==
  \/ Launch \/ Finish \/ StartupOver \/ StackDied \/ StartRoute \/ ServiceUnavailable
  \/ CallReset \/ ResetRefused \/ ResetOk \/ EventSeen \/ EventMissed \/ EndDrive
  \/ EndTown \/ SignalStack \/ StackGone \/ KillStack

HarnessNext ==
  \/ HarnessWork \/ Interrupt
  \/ OnResetEvent \/ OnStamped

-------------------------------------------------------------------------------
(* A row holds nothing but what its own episode recorded: every message of an *)
(* earlier episode is a replay that is dropped (route_runner.py:206-208).      *)
RowOfItsEpisode == \A i \in DOMAIN rows : rows[i].alien = {}

(* That holds of the first stack a harness drives, whatever is late, refused or *)
(* applied after its caller gave up.                                            *)
FirstTownRows == \A i \in DOMAIN rows : rows[i].launch = 1 => rows[i].alien = {}

(* A program that ran to its end has reported every route, once, whatever became *)
(* of the stack on the way, and by its own town's launch.                        *)
EveryRouteReported ==
  hpc = "exit" /\ code # 130 =>
    /\ {rows[i].route : i \in DOMAIN rows} = DOMAIN Routes
    /\ Len(rows) = Len(Routes)
    /\ \A i, j \in DOMAIN rows :
         rows[i].launch = rows[j].launch <=> Routes[rows[i].route] = Routes[rows[j].route]

(* A harness never launches a stack over one that still lives                *)
(* (route_runner.py:445, "One ros2 launch per town").                         *)
OneStackAtMost == [][launch' # launch => up = "down"]_<<feedVars, harnessVars>>

(* When it has ended no stack is left, unless it was interrupted in the startup *)
(* sleep or in the middle of a stop.                                            *)
NoStackLeft ==
  hpc = "exit" => up = "down" \/ torn

===============================================================================
