----------------------------- MODULE GtPoseNode ------------------------------
(***************************************************************************)
(* gt_pose_node.cc: turns the ground-truth odometry and vehicle state of a *)
(* tick into the pose of that tick.  It runs once both inputs of the tick  *)
(* have arrived (the barrier), or when TickTimeout says they will not.     *)
(* The callbacks run one at a time on a single-threaded executor.          *)
(***************************************************************************)
EXTENDS Topics, Integers

PoseInputs == {"ego_odom", "vehicle_state"}

INSTANCE TickBarrier WITH Inputs <- PoseInputs

BufferTicks == 4     \* kBufferTicks

VARIABLES
  poseStart,       \* episode_start_k_
  lastPublished,   \* last_published_k_
  barrier,         \* barrier_
  buffer           \* the ticks held in odoms_ and vehicle_states_

poseVars == <<poseStart, lastPublished, barrier, buffer>>

PoseTypeOK ==
  /\ poseStart \in Nat
  /\ lastPublished \in Int
  /\ barrier \in Barrier(Nat)
  /\ buffer \in [PoseInputs -> SUBSET Nat]

NothingBuffered == [i \in PoseInputs |-> {}]

PoseInit ==
  /\ poseStart = 0
  /\ lastPublished = -1
  /\ barrier = BarrierReset
  /\ buffer = NothingBuffered

PoseSub(topic) == <<topic, "gt_pose">>

(* The pose published for tick k: invalid (the last pose restamped) without the *)
(* tick's odometry; with its own steering angle when both messages are there.   *)
PoseOf(k, buf) == [tick     |-> k,
                   valid    |-> k \in buf["ego_odom"],
                   steering |-> \A i \in PoseInputs : k \in buf[i]]

(* Run(k), with the buffers and subscriptions as its caller left them: each *)
(* tick is published once.                                                  *)
Run(k, buf, q) ==
  \/ /\ k <= lastPublished
     /\ queue' = q
     /\ UNCHANGED lastPublished
  \/ /\ k > lastPublished
     /\ lastPublished' = k
     /\ queue' = Send(q, "pose", PoseOf(k, buf))

(* Mutant: the degraded flags of the last episode survive the reset. *)
PoseOnResetEventKeepsDegraded ==
  LET reset == PoseSub("reset_event")
      k == Head(queue[reset]).tick
  IN  /\ Ready(reset)
      /\ poseStart' = k
      /\ lastPublished' = k - 1
      /\ barrier' = [BarrierReset EXCEPT !.degraded = barrier.degraded]
      /\ buffer' = NothingBuffered
      /\ queue' = Take(reset)

(* Mutant: the first tick of the episode counts as published already. *)
PoseOnResetEventSkipsFirst ==
  LET reset == PoseSub("reset_event")
      k == Head(queue[reset]).tick
  IN  /\ Ready(reset)
      /\ poseStart' = k
      /\ lastPublished' = k
      /\ barrier' = BarrierReset
      /\ buffer' = NothingBuffered
      /\ queue' = Take(reset)

(* OnResetEvent: the start of an episode drops everything. *)
PoseOnResetEvent ==
  LET reset == PoseSub("reset_event")
      k == Head(queue[reset]).tick
  IN  /\ Ready(reset)
      /\ poseStart' = k
      /\ lastPublished' = k - 1
      /\ barrier' = BarrierReset
      /\ buffer' = NothingBuffered
      /\ queue' = Take(reset)

(* OnOdom and OnVehicleState: file the message, run if the tick is complete. *)
OnInput(i) ==
  LET k    == Head(queue[PoseSub(i)]).tick
      rest == Take(PoseSub(i))
      kept == {j \in buffer[i] \cup {k} : j >= k - BufferTicks}
  IN  /\ Ready(PoseSub(i))
      /\ \/ /\ k < poseStart
            /\ queue' = rest
            /\ UNCHANGED poseVars
         \/ /\ k >= poseStart
            /\ buffer' = [buffer EXCEPT ![i] = kept]
            /\ barrier' = Arrive(barrier, i, k)
            /\ IF IsComplete(Arrive(barrier, i, k), k)
               THEN Run(k, [buffer EXCEPT ![i] = kept], rest)
               ELSE queue' = rest /\ UNCHANGED lastPublished
            /\ UNCHANGED poseStart

(* OnTickTimeout: give up on what is missing until the next reset, and run. *)
PoseOnTickTimeout ==
  LET timeout == PoseSub("tick_timeout")
      k    == Head(queue[timeout]).tick
      rest == Take(timeout)
  IN  /\ Ready(timeout)
      /\ \/ /\ k < poseStart
            /\ queue' = rest
            /\ UNCHANGED poseVars
         \/ /\ k >= poseStart
            /\ barrier' = Degrade(barrier, Missing(barrier, k))
            /\ Run(k, buffer, rest)
            /\ UNCHANGED <<poseStart, buffer>>

PoseNext ==
  \/ PoseOnResetEvent
  \/ \E i \in PoseInputs : OnInput(i)
  \/ PoseOnTickTimeout
==============================================================================
