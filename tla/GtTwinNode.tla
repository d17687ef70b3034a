------------------------------ MODULE GtTwinNode -------------------------------
(***************************************************************************)
(* gt_twin_node.py with gt_perception_node.py and gt_traffic_light_node.py: *)
(* on planning ticks, wait for the pose and one ground-truth input of the   *)
(* tick, publish once, fall back on a TickTimeout, forget at a ResetEvent.  *)
(* The two nodes differ in what they publish, not in when; "gt" is          *)
(* gt_agents for the one and gt_traffic_lights for the other.               *)
(***************************************************************************)
EXTENDS NodeInbox, TickStamp

CONSTANT BufferTicks   \* BUFFER_TICKS

VARIABLES
  barrier,    \* TickBarrier over the two inputs
  buffers,    \* _buffers: the messages by tick, a set per input
  twinStart,  \* _episode_start_k
  twinLast,   \* _last_published_k
  raster,     \* the lane graph the perception twin has rasterised, 0 for none
  outputs     \* the outputs of the twin, in order

twinVars == <<barrier, buffers, twinStart, twinLast, raster, outputs>>

TwinInputs == {"pose", "gt"}

B == INSTANCE TickBarrier WITH Inputs <- TwinInputs

EmptyBuffers == [i \in TwinInputs |-> {}]

TwinTypeOK ==
  /\ barrier \in B!Barrier(Nat)
  /\ \A i \in TwinInputs : \A m \in buffers[i] : m.k \in Nat /\ m.valid \in BOOLEAN
  /\ twinStart \in Nat /\ twinLast \in Int /\ raster \in Nat
  /\ \A i \in DOMAIN outputs :
       /\ outputs[i].k \in Nat
       /\ outputs[i].what \in {"no_pose", "invalid_pose", "no_gt", "full"}
       /\ outputs[i].grid \in 0 .. raster

TwinInit ==
  /\ barrier = B!BarrierReset
  /\ buffers = EmptyBuffers
  /\ twinStart = 0 /\ twinLast = -1 /\ raster = 0
  /\ outputs = <<>>

(* What _run makes of the buffered messages of tick k. *)
OutputOf(k, bufs) ==
  IF \A m \in bufs["pose"] : m.k # k THEN "no_pose"
  ELSE IF \E m \in bufs["pose"] : m.k = k /\ ~ m.valid THEN "invalid_pose"
  ELSE IF \A m \in bufs["gt"] : m.k # k THEN "no_gt" ELSE "full"

(* With a valid pose the occupancy grid shows the lane graph that was rasterised. *)
GridOf(what) == IF what \in {"no_gt", "full"} THEN raster ELSE 0

(* _run: at most one output per tick, and never one for an earlier tick. *)
Run(k, bufs) ==
  IF k <= twinLast THEN UNCHANGED <<twinLast, outputs>>
  ELSE /\ twinLast' = k
       /\ LET what == OutputOf(k, bufs)
          IN  outputs' = Append(outputs,
                [k |-> k, start |-> twinStart, what |-> what, grid |-> GridOf(what)])

NoRun == UNCHANGED <<twinLast, outputs>>

(* Messages of an earlier episode and of control ticks are not for it. *)
NotForTwin(k) == k < twinStart \/ ~ IsPlanningTick(k)

(* Mutant: inputs degraded in one episode stay so in the next. *)
TwinOnResetEventDegraded ==
  /\ TakeFrom("reset_event")
  /\ twinStart' = Head(inbox["reset_event"]).k
  /\ twinLast' = twinStart' - 1
  /\ barrier' = [B!BarrierReset EXCEPT !.degraded = barrier.degraded]
  /\ buffers' = EmptyBuffers
  /\ UNCHANGED <<raster, outputs>>

(* _on_reset_event *)
TwinOnResetEvent ==
  /\ TakeFrom("reset_event")
  /\ twinStart' = Head(inbox["reset_event"]).k
  /\ twinLast' = twinStart' - 1
  /\ barrier' = B!BarrierReset
  /\ buffers' = EmptyBuffers
  /\ UNCHANGED <<raster, outputs>>

(* Mutant: the message that completes the barrier does not run the twin. *)
TwinOnInputLater(i) ==
  LET m == Head(inbox[i])
  IN  /\ TakeFrom(i)
      /\ IF NotForTwin(m.k) THEN UNCHANGED <<barrier, buffers, twinLast, outputs>>
         ELSE /\ barrier' = B!Arrive(barrier, i, m.k)
              /\ buffers' = [buffers EXCEPT ![i] = @ \cup {m}]
              /\ IF B!IsComplete(barrier, m.k) THEN Run(m.k, buffers) ELSE NoRun
      /\ UNCHANGED <<twinStart, raster>>

(* _on_input: remember the message, run when the barrier is complete. *)
TwinOnInput(i) ==
  LET m == Head(inbox[i])
      bufs == [buffers EXCEPT ![i] =
                 {o \in @ : o.k >= m.k - BufferTicks /\ o.k # m.k} \cup {m}]
      b == B!Arrive(barrier, i, m.k)
  IN  /\ TakeFrom(i)
      /\ \/ /\ NotForTwin(m.k)
            /\ UNCHANGED <<barrier, buffers, twinLast, outputs>>
         \/ /\ ~ NotForTwin(m.k)
            /\ barrier' = b
            /\ buffers' = bufs
            /\ IF B!IsComplete(b, m.k) THEN Run(m.k, bufs) ELSE NoRun
      /\ UNCHANGED <<twinStart, raster>>

(* _on_tick_timeout: what is missing is not waited for until the next reset. *)
TwinOnTickTimeout ==
  LET k == Head(inbox["tick_timeout"]).k
  IN  /\ TakeFrom("tick_timeout")
      /\ \/ /\ NotForTwin(k)
            /\ UNCHANGED <<barrier, twinLast, outputs>>
         \/ /\ ~ NotForTwin(k)
            /\ barrier' = B!Degrade(barrier, B!Missing(barrier, k))
            /\ Run(k, buffers)
      /\ UNCHANGED <<buffers, twinStart, raster>>

(* _on_lane_graph of the perception twin: outside the barrier and the reset. *)
TwinOnLaneGraph(version) ==
  /\ raster < version
  /\ raster' = version
  /\ UNCHANGED <<inbox, barrier, buffers, twinStart, twinLast, outputs>>

TwinNext ==
  TwinOnResetEvent \/ TwinOnTickTimeout \/ \E i \in TwinInputs : TwinOnInput(i)
===============================================================================
