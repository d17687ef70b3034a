----------------------------- MODULE StackProofs ------------------------------
(***************************************************************************)
(* What holds of the lockstep for every set of nodes and every number of   *)
(* ticks and timeouts: type correctness and that the gate passes a tick as *)
(* ok only with the command of that tick, whatever order the topics have;  *)
(* and, if a ResetEvent overtakes no data (ResetFirst), that the stack     *)
(* implements TickGate, that every command follows the line and the route  *)
(* of its episode, that controller and planner agree on that line, and     *)
(* that gt_pose_node falls back only where a TickTimeout explains it.  The *)
(* last four take fewer resets than a node can have ResetEvents queued, so *)
(* that no event is lost.                                                  *)
(***************************************************************************)
EXTENDS Stack, TopicsLemmas, SequenceTheorems, FiniteSetTheorems

(* QueueType restates the queue conjunct of TypeOK for any queue. *)
LEMMA QueueTypeIsQueueTypeOK == QueueTypeOK <=> QueueType(queue)
BY DEF QueueTypeOK, QueueType

(* Initially every subscription is empty, except the latched lane graph's. *)
LEMMA InitType == Init => TypeOK
<1> SUFFICES ASSUME Init PROVE TypeOK
  OBVIOUS
<1>1. WorldTypeOK
  BY DEF Init, WorldInit, WorldTypeOK
<1>2. PoseTypeOK
  BY DEF Init, PoseInit, PoseTypeOK, Barrier, BarrierReset, NothingBuffered, NoTick
<1>3. CtrlTypeOK
  BY DEF Init, CtrlInit, CtrlTypeOK, NoLine, Lines
<1>4. PlanTypeOK
  <2>1. hasGraph \in BOOLEAN
    BY DEF Init, PlanInit
  <2>2. planEpisode \in Int /\ planStart \in Nat /\ offLineTicks \in Nat
    BY DEF Init, PlanInit
  <2>3. waypoints \in Routes /\ planLine \in Routes
    BY DEF Init, PlanInit, NoRoute, Routes
  <2> QED  BY <2>1, <2>2, <2>3 DEF PlanTypeOK
<1>5. RunnerTypeOK
  BY DEF Init, RunnerInit, RunnerTypeOK
<1>6. QueueTypeOK
  <2>1. QueueType(NoMessages)
    BY DEF QueueType, NoMessages
  <2>2. [tick |-> 0] \in Payload("lane_graph")
    BY PayloadOf DEF StampMsg
  <2> QED  BY <2>1, <2>2, SendType, QueueTypeIsQueueTypeOK DEF Init
<1> QED  BY <1>1, <1>2, <1>3, <1>4, <1>5, <1>6 DEF TypeOK

(* Every step of world_manager publishes and takes messages of their topics. *)
LEMMA WorldStepQueue == TypeOK /\ WorldStep => QueueType(queue')
<1> SUFFICES ASSUME TypeOK, WorldStep PROVE QueueType(queue')
  OBVIOUS
<1>1. QueueType(queue) /\ QueueTypeOK
  BY QueueTypeIsQueueTypeOK DEF TypeOK
<1>2. now \in Nat /\ episode \in Nat
  BY DEF TypeOK, WorldTypeOK
<1>3. \A k \in Nat : [tick |-> k] \in StampMsg
  BY DEF StampMsg
<1>4. \A e \in Nat : [tick |-> now + 1, episode |-> e] \in ResetMsg
  BY <1>2 DEF ResetMsg
<1>5. CASE Startup
  BY <1>1, <1>2, <1>4, <1>5, PayloadOf, SendType DEF Startup, PublishResetEvent
<1>6. CASE ApplyReset
  BY <1>1, <1>2, <1>4, <1>6, PayloadOf, SendType DEF ApplyReset, PublishResetEvent
<1>7. CASE TickWorld
  <2>1. [tick |-> now + 1] \in StampMsg
    BY <1>2, <1>3
  <2>2. QueueType(Send(queue, "ego_odom", [tick |-> now + 1]))
    BY <1>1, <2>1, PayloadOf, SendType
  <2> QED  BY <1>7, <2>1, <2>2, PayloadOf, SendType DEF TickWorld
<1>8. CASE PassGate
  BY <1>1, <1>8 DEF PassGate
<1>9. CASE TimeOutGate
  BY <1>1, <1>2, <1>3, <1>9, PayloadOf, SendType DEF TimeOutGate
<1>10. CASE OnControlCommand
  BY <1>1, <1>10, TakeType DEF OnControlCommand
<1> QED
  BY <1>5, <1>6, <1>7, <1>8, <1>9, <1>10 DEF WorldStep, WorldNext, TickThread

(* Every step of world_manager keeps the types of its own state. *)
LEMMA WorldStepType == TypeOK /\ WorldStep => WorldTypeOK'
<1> SUFFICES ASSUME TypeOK, WorldStep PROVE WorldTypeOK'
  OBVIOUS
<1>1. WorldTypeOK /\ QueueTypeOK
  BY DEF TypeOK
<1>2. startupPending' \in BOOLEAN
  BY <1>1 DEF WorldTypeOK, WorldStep, WorldNext, TickThread, Startup, ApplyReset,
              TickWorld, PassGate, TimeOutGate, OnControlCommand
<1>3. CASE OnControlCommand
  <2>1. Head(queue[<<"command", "world_manager">>]) \in StampMsg
    BY <1>1, <1>3, HeadType, PayloadOf DEF OnControlCommand
  <2>2. latestCmd' \in Int
    BY <1>1, <1>3, <2>1 DEF OnControlCommand, WorldTypeOK, StampMsg
  <2> QED  BY <1>1, <1>2, <1>3, <2>2 DEF OnControlCommand, WorldTypeOK
<1>4. CASE Startup \/ ApplyReset
  <2>1. episodeTicks' \in Seq(Nat)
    <3>1. episodeTicks' = Append(episodeTicks, now + 1)
      BY <1>4 DEF Startup, ApplyReset, PublishResetEvent
    <3> QED  BY <1>1, <3>1 DEF WorldTypeOK
  <2>2. /\ now' \in Nat /\ episode' \in Nat /\ timeouts' \in Nat
        /\ latestCmd' \in Int
    BY <1>1, <1>4 DEF WorldTypeOK, Startup, ApplyReset
  <2>3. /\ phase' \in {"peers", "loop", "reset", "gate"}
        /\ verdict' \in Seq({"ok", "error"})
    BY <1>1, <1>4 DEF WorldTypeOK, Startup, ApplyReset
  <2> QED  BY <1>2, <2>1, <2>2, <2>3 DEF WorldTypeOK
<1>5. CASE TickWorld
  BY <1>1, <1>2, <1>5 DEF WorldTypeOK, TickWorld
<1>6. CASE PassGate \/ TimeOutGate
  <2>1. verdict' \in Seq({"ok", "error"})
    <3>1. \E v \in {"ok", "error"} : verdict' = Append(verdict, v)
      BY <1>6 DEF PassGate, TimeOutGate
    <3> QED  BY <1>1, <3>1 DEF WorldTypeOK
  <2>2. /\ now' \in Nat /\ episode' \in Nat /\ timeouts' \in Nat
        /\ latestCmd' \in Int /\ episodeTicks' \in Seq(Nat)
    BY <1>1, <1>6 DEF WorldTypeOK, PassGate, TimeOutGate
  <2>3. phase' \in {"peers", "loop", "reset", "gate"}
    BY <1>6 DEF PassGate, TimeOutGate
  <2> QED  BY <1>2, <2>1, <2>2, <2>3 DEF WorldTypeOK
<1> QED  BY <1>3, <1>4, <1>5, <1>6 DEF WorldStep, WorldNext, TickThread

(* A pose is a typed message whatever the buffers hold. *)
LEMMA PoseOfType ==
  ASSUME NEW k \in Nat, NEW buf
  PROVE  PoseOf(k, buf) \in PoseMsg
<1>1. /\ (k \in buf["ego_odom"]) \in BOOLEAN
      /\ (\A i \in PoseInputs : k \in buf[i]) \in BOOLEAN
  OBVIOUS
<1> QED  BY <1>1 DEF PoseOf, PoseMsg

(* Running a tick of gt_pose_node publishes at most one pose. *)
LEMMA RunType ==
  ASSUME NEW k \in Nat, NEW buf, NEW q, QueueType(q), lastPublished \in Int,
         Run(k, buf, q)
  PROVE  lastPublished' \in Int /\ QueueType(queue')
<1>1. QueueType(Send(q, "pose", PoseOf(k, buf)))
  BY PoseOfType, PayloadOf, SendType
<1> QED  BY <1>1 DEF Run

(* Every callback of gt_pose_node keeps the types. *)
LEMMA PoseStepType == TypeOK /\ PoseStep => PoseTypeOK' /\ QueueType(queue')
<1> SUFFICES ASSUME TypeOK, PoseStep PROVE PoseTypeOK' /\ QueueType(queue')
  OBVIOUS
<1>1. PoseTypeOK /\ QueueTypeOK
  BY DEF TypeOK
<1>2. CASE PoseOnResetEvent
  <2> DEFINE reset == PoseSub("reset_event")
             k == Head(queue[reset]).tick
  <2>1. Ready(reset) /\ reset[1] = "reset_event"
    BY <1>2 DEF PoseOnResetEvent, PoseSub
  <2>2. k \in Nat
    BY <1>1, <2>1, HeadType, PayloadOf DEF ResetMsg
  <2>3. QueueType(queue')
    BY <1>1, <1>2, <2>1, TakeType DEF PoseOnResetEvent
  <2>4. poseStart' \in Nat /\ lastPublished' \in Int
    BY <1>2, <2>2 DEF PoseOnResetEvent
  <2>5. barrier' \in Barrier(Nat) /\ buffer' \in [PoseInputs -> SUBSET Nat]
    BY <1>2 DEF PoseOnResetEvent, Barrier, BarrierReset, NothingBuffered, NoTick
  <2> QED  BY <2>3, <2>4, <2>5 DEF PoseTypeOK
<1>3. ASSUME NEW i \in PoseInputs, OnInput(i)
      PROVE  PoseTypeOK' /\ QueueType(queue')
  <2> DEFINE s    == PoseSub(i)
             k    == Head(queue[s]).tick
             kept == {j \in buffer[i] \cup {k} : j >= k - BufferTicks}
             buf  == [buffer EXCEPT ![i] = kept]
  <2>1. Ready(s) /\ s[1] = i
    BY <1>3 DEF OnInput, PoseSub
  <2>2. k \in Nat
    BY <1>1, <2>1, HeadType, PayloadOf DEF StampMsg, PoseInputs
  <2>3. QueueType(Take(s))
    BY <1>1, <2>1, TakeType
  <2>4. buf \in [PoseInputs -> SUBSET Nat]
    BY <1>1, <2>2 DEF PoseTypeOK
  <2>5. Arrive(barrier, i, k) \in Barrier(Nat)
    BY <1>1, <2>2 DEF PoseTypeOK, Arrive, Barrier
  <2>6. CASE k < poseStart
    BY <1>1, <1>3, <2>2, <2>3, <2>6 DEF OnInput, PoseTypeOK, poseVars
  <2>7. CASE ~ (k < poseStart)
    <3>1. /\ buffer' = buf /\ barrier' = Arrive(barrier, i, k)
          /\ poseStart' = poseStart
          /\ \/ Run(k, buf, Take(s))
             \/ queue' = Take(s) /\ lastPublished' = lastPublished
      BY <1>1, <1>3, <2>7 DEF OnInput
    <3>2. lastPublished' \in Int /\ QueueType(queue')
      BY <1>1, <2>2, <2>3, <3>1, RunType DEF PoseTypeOK
    <3> QED  BY <1>1, <2>4, <2>5, <3>1, <3>2 DEF PoseTypeOK
  <2> QED  BY <2>6, <2>7
<1>4. CASE PoseOnTickTimeout
  <2> DEFINE s == PoseSub("tick_timeout")
             k == Head(queue[s]).tick
  <2>1. Ready(s) /\ s[1] = "tick_timeout"
    BY <1>4 DEF PoseOnTickTimeout, PoseSub
  <2>2. k \in Nat
    BY <1>1, <2>1, HeadType, PayloadOf DEF StampMsg
  <2>3. QueueType(Take(s))
    BY <1>1, <2>1, TakeType
  <2>4. Degrade(barrier, Missing(barrier, k)) \in Barrier(Nat)
    BY <1>1 DEF PoseTypeOK, Degrade, Missing, Barrier
  <2>5. CASE k < poseStart
    BY <1>1, <1>4, <2>2, <2>3, <2>5 DEF PoseOnTickTimeout, PoseTypeOK, poseVars
  <2>6. CASE ~ (k < poseStart)
    <3>1. /\ barrier' = Degrade(barrier, Missing(barrier, k))
          /\ Run(k, buffer, Take(s))
          /\ poseStart' = poseStart /\ buffer' = buffer
      BY <1>4, <2>6 DEF PoseOnTickTimeout
    <3>2. lastPublished' \in Int /\ QueueType(queue')
      BY <1>1, <2>2, <2>3, <3>1, RunType DEF PoseTypeOK
    <3> QED  BY <1>1, <2>4, <3>1, <3>2 DEF PoseTypeOK
  <2> QED  BY <2>5, <2>6
<1> QED  BY <1>2, <1>3, <1>4 DEF PoseStep, PoseNext

(* Every callback of the controller keeps the types. *)
LEMMA CtrlStepType == TypeOK /\ CtrlStep => CtrlTypeOK' /\ QueueType(queue')
<1> SUFFICES ASSUME TypeOK, CtrlStep PROVE CtrlTypeOK' /\ QueueType(queue')
  OBVIOUS
<1>1. CtrlTypeOK /\ QueueTypeOK
  BY DEF TypeOK
<1>2. NoLine \in Lines
  BY DEF NoLine, Lines
<1>3. CASE CtrlOnResetEvent
  <2> DEFINE s == CtrlSub("reset_event")
  <2>1. Ready(s) /\ s[1] = "reset_event" /\ queue' = Take(s)
    BY <1>3 DEF CtrlOnResetEvent, CtrlSub
  <2>2. Head(queue[s]).tick \in Nat /\ Head(queue[s]).episode \in Nat
    BY <1>1, <2>1, HeadType, PayloadOf DEF ResetMsg
  <2>3. QueueType(queue')
    BY <1>1, <2>1, TakeType
  <2> QED  BY <1>1, <1>2, <1>3, <2>2, <2>3 DEF CtrlOnResetEvent, CtrlTypeOK, ctrlVars
<1>4. CASE OnReferenceLine
  <2> DEFINE s == CtrlSub("reference_line")
  <2>1. Ready(s) /\ s[1] = "reference_line" /\ queue' = Take(s)
    BY <1>4 DEF OnReferenceLine, CtrlSub
  <2>2. Head(queue[s]) \in Lines
    BY <1>1, <2>1, HeadType, PayloadOf DEF RouteMsg, Lines
  <2>3. QueueType(queue')
    BY <1>1, <2>1, TakeType
  <2> QED  BY <1>1, <1>4, <2>2, <2>3 DEF OnReferenceLine, CtrlTypeOK
<1>5. ASSUME NEW k \in Nat, NEW l \in Lines, NEW q, QueueType(q), Answer(k, l, q)
      PROVE  /\ lastTick' \in Nat
             /\ answers' \in Seq([tick : Nat, line : Lines])
             /\ QueueType(queue')
  <2>1. QueueType(Send(q, "command", [tick |-> k]))
    BY <1>5, PayloadOf, SendType DEF StampMsg
  <2>2. answers' = Append(answers, [tick |-> k, line |-> l])
    BY <1>5 DEF Answer
  <2> QED  BY <1>1, <1>5, <2>1, <2>2 DEF Answer, CtrlTypeOK
<1>6. CASE CtrlOnPose
  <2> DEFINE s == CtrlSub("pose")
             p == Head(queue[s])
  <2>1. Ready(s) /\ s[1] = "pose"
    BY <1>6 DEF CtrlOnPose, CtrlSub
  <2>2. p.tick \in Nat /\ QueueType(Take(s))
    BY <1>1, <2>1, HeadType, TakeType
  <2>3. (IF p.valid THEN line ELSE NoLine) \in Lines
    BY <1>1, <1>2 DEF CtrlTypeOK
  <2>4. /\ lastTick' \in Nat /\ answers' \in Seq([tick : Nat, line : Lines])
        /\ QueueType(queue')
    BY <1>1, <1>5, <1>6, <2>2, <2>3 DEF CtrlOnPose, CtrlTypeOK
  <2> QED  BY <1>1, <1>6, <2>4 DEF CtrlOnPose, CtrlTypeOK
<1>7. CASE CtrlOnTickTimeout
  <2> DEFINE s == CtrlSub("tick_timeout")
  <2>1. Ready(s) /\ s[1] = "tick_timeout"
    BY <1>7 DEF CtrlOnTickTimeout, CtrlSub
  <2>2. Head(queue[s]).tick \in Nat /\ QueueType(Take(s))
    BY <1>1, <2>1, HeadType, TakeType, PayloadOf DEF StampMsg
  <2>3. /\ lastTick' \in Nat /\ answers' \in Seq([tick : Nat, line : Lines])
        /\ QueueType(queue')
    BY <1>1, <1>2, <1>5, <1>7, <2>2 DEF CtrlOnTickTimeout, CtrlTypeOK
  <2> QED  BY <1>1, <1>7, <2>3 DEF CtrlOnTickTimeout, CtrlTypeOK
<1> QED  BY <1>3, <1>4, <1>6, <1>7 DEF CtrlStep, CtrlNext

(* Planning from a typed pose publishes a typed line, or nothing. *)
LEMMA PlanType ==
  ASSUME NEW k \in Nat, NEW n \in Nat, NEW q, QueueType(q), PlanTypeOK, Plan(k, n, q)
  PROVE  planLine' \in Routes /\ offLineTicks' \in Nat /\ QueueType(queue')
<1>1. waypoints.route \in Nat /\ planLine \in Routes
  BY DEF PlanTypeOK, Routes
<1>2. [tick |-> k, route |-> waypoints.route] \in RouteMsg
  BY <1>1 DEF RouteMsg
<1>3. QueueType(Send(q, "reference_line", [tick |-> k, route |-> waypoints.route]))
  BY <1>2, PayloadOf, SendType
<1>4. CASE offLineTicks' = n /\ queue' = q /\ planLine' = planLine
  BY <1>1, <1>4
<1>5. CASE /\ planLine' = [tick |-> k, route |-> waypoints.route]
           /\ offLineTicks' = 0
           /\ queue' = Send(q, "reference_line",
                            [tick |-> k, route |-> waypoints.route])
  BY <1>2, <1>3, <1>5 DEF RouteMsg, Routes
<1> QED  BY <1>4, <1>5 DEF Plan

(* Every callback of the route planner keeps the types. *)
LEMMA PlanStepType == TypeOK /\ PlanStep => PlanTypeOK' /\ QueueType(queue')
<1> SUFFICES ASSUME TypeOK, PlanStep PROVE PlanTypeOK' /\ QueueType(queue')
  OBVIOUS
<1>1. PlanTypeOK /\ QueueTypeOK
  BY DEF TypeOK
<1>2. NoRoute \in Routes
  BY DEF NoRoute, Routes
<1>3. CASE OnLaneGraph
  <2> DEFINE s == PlanSub("lane_graph")
  <2>1. QueueType(queue')
    BY <1>1, <1>3, TakeType DEF OnLaneGraph
  <2>2. hasGraph' \in BOOLEAN
    BY <1>3 DEF OnLaneGraph
  <2> QED  BY <1>1, <1>3, <2>1, <2>2 DEF OnLaneGraph, PlanTypeOK
<1>4. CASE PlanOnResetEvent
  <2> DEFINE s == PlanSub("reset_event")
  <2>1. Ready(s) /\ s[1] = "reset_event" /\ queue' = Take(s)
    BY <1>4 DEF PlanOnResetEvent, PlanSub
  <2>2. Head(queue[s]).tick \in Nat /\ Head(queue[s]).episode \in Nat
    BY <1>1, <2>1, HeadType, PayloadOf DEF ResetMsg
  <2>3. QueueType(queue')
    BY <1>1, <2>1, TakeType
  <2> QED
    BY <1>1, <1>2, <1>4, <2>2, <2>3
    DEF PlanOnResetEvent, PlanTypeOK, planVars, ClearRoute
<1>5. CASE OnWaypoints
  <2> DEFINE s == PlanSub("waypoints")
  <2>1. Ready(s) /\ s[1] = "waypoints" /\ queue' = Take(s)
    BY <1>5 DEF OnWaypoints, PlanSub
  <2>2. Head(queue[s]) \in Routes
    BY <1>1, <2>1, HeadType, PayloadOf DEF RouteMsg, Routes
  <2>3. QueueType(queue')
    BY <1>1, <2>1, TakeType
  <2> QED
    BY <1>1, <1>2, <1>5, <2>2, <2>3
    DEF OnWaypoints, PlanTypeOK, planVars, ClearRoute
<1>6. CASE PlanOnPose
  <2> DEFINE s == PlanSub("pose")
             k == Head(queue[s]).tick
  <2>1. Ready(s) /\ s[1] = "pose"
    BY <1>6 DEF PlanOnPose, PlanSub
  <2>2. k \in Nat /\ QueueType(Take(s))
    BY <1>1, <2>1, HeadType, TakeType
  <2>3. ASSUME CheckReroute(k, Take(s))
        PROVE  planLine' \in Routes /\ offLineTicks' \in Nat /\ QueueType(queue')
    <3>1. PICK off \in OffLine :
            LET n == IF off THEN offLineTicks + 1 ELSE 0
            IN  \/ /\ n < RerouteTicks
                   /\ offLineTicks' = n
                   /\ queue' = Take(s)
                   /\ UNCHANGED planLine
                \/ /\ n >= RerouteTicks
                   /\ Plan(k, n, Take(s))
      BY <2>3 DEF CheckReroute
    <3> DEFINE n == IF off THEN offLineTicks + 1 ELSE 0
    <3>2. n \in Nat
      BY <1>1 DEF PlanTypeOK
    <3> HIDE DEF n
    <3>3. CASE Plan(k, n, Take(s))
      BY <1>1, <2>2, <3>2, <3>3, PlanType
    <3>4. CASE offLineTicks' = n /\ queue' = Take(s) /\ planLine' = planLine
      BY <1>1, <2>2, <3>2, <3>4 DEF PlanTypeOK
    <3> QED  BY <3>1, <3>3, <3>4 DEF n
  <2>4. planLine' \in Routes /\ offLineTicks' \in Nat /\ QueueType(queue')
    <3>1. \/ queue' = Take(s) /\ UNCHANGED <<planLine, offLineTicks>>
          \/ Plan(k, offLineTicks, Take(s))
          \/ CheckReroute(k, Take(s))
      BY <1>6 DEF PlanOnPose
    <3> QED  BY <1>1, <2>2, <2>3, <3>1, PlanType DEF PlanTypeOK
  <2> QED  BY <1>1, <1>6, <2>4 DEF PlanOnPose, PlanTypeOK
<1> QED  BY <1>3, <1>4, <1>5, <1>6 DEF PlanStep, PlanNext

(* Publishing waypoints keeps the types. *)
LEMMA RunnerStepType == TypeOK /\ RunnerStep => RunnerTypeOK' /\ QueueType(queue')
<1> SUFFICES ASSUME TypeOK, RunnerStep PROVE RunnerTypeOK' /\ QueueType(queue')
  OBVIOUS
<1>1. episode \in Nat /\ now \in Nat /\ QueueType(queue)
  BY QueueTypeIsQueueTypeOK DEF TypeOK, WorldTypeOK
<1>2. \A stamped \in BOOLEAN :
         [tick |-> IF stamped THEN now ELSE 0, route |-> episode] \in Payload("waypoints")
  BY <1>1, PayloadOf DEF RouteMsg
<1>3. PICK stamped \in BOOLEAN :
        queue' = Send(queue, "waypoints",
                      [tick |-> IF stamped THEN now ELSE 0, route |-> episode])
  BY RunnerAssumption DEF RunnerStep, PublishWaypoints
<1> QED  BY <1>1, <1>2, <1>3, SendType DEF RunnerStep, PublishWaypoints, RunnerTypeOK

(* TypeOK is inductive: every step of the stack keeps it. *)
LEMMA StepType == TypeOK /\ [Next]_vars => TypeOK'
<1> SUFFICES ASSUME TypeOK, [Next]_vars PROVE TypeOK'
  OBVIOUS
<1> USE DEF TypeOK
<1>1. QueueType(queue') <=> QueueTypeOK'
  BY DEF QueueType, QueueTypeOK
<1>2. worldVars' = worldVars => WorldTypeOK'
  BY DEF worldVars, WorldTypeOK
<1>3. poseVars' = poseVars => PoseTypeOK'
  BY DEF poseVars, PoseTypeOK
<1>4. ctrlVars' = ctrlVars => CtrlTypeOK'
  BY DEF ctrlVars, CtrlTypeOK
<1>5. planVars' = planVars => PlanTypeOK'
  BY DEF planVars, PlanTypeOK
<1>6. routed' = routed => RunnerTypeOK'
  BY DEF RunnerTypeOK
<1>7. CASE WorldStep
  BY <1>1, <1>3, <1>4, <1>5, <1>6, <1>7, WorldStepQueue, WorldStepType DEF WorldStep
<1>8. CASE PoseStep
  BY <1>1, <1>2, <1>4, <1>5, <1>6, <1>8, PoseStepType DEF PoseStep
<1>9. CASE CtrlStep
  BY <1>1, <1>2, <1>3, <1>5, <1>6, <1>9, CtrlStepType DEF CtrlStep
<1>10. CASE PlanStep
  BY <1>1, <1>2, <1>3, <1>4, <1>6, <1>10, PlanStepType DEF PlanStep
<1>11. CASE RunnerStep
  BY <1>1, <1>2, <1>3, <1>4, <1>5, <1>11, RunnerStepType DEF RunnerStep
<1>12. CASE UNCHANGED vars
  <2>1. queue' = queue => QueueTypeOK'
    BY DEF QueueTypeOK
  <2> QED  BY <1>2, <1>3, <1>4, <1>5, <1>6, <1>12, <2>1 DEF vars
<1> QED
  BY <1>7, <1>8, <1>9, <1>10, <1>11, <1>12 DEF Next, Finished

(* The state of the tick thread, of the three nodes and of the harness has  *)
(* its type in every reachable state, and every subscription holds messages *)
(* of its own topic only.                                                   *)
THEOREM TypeCorrect == Spec => []TypeOK
<1>1. Init => TypeOK
  BY InitType
<1>2. TypeOK /\ [Next]_vars => TypeOK'
  BY StepType
<1> QED  BY <1>1, <1>2, PTL DEF Spec

-------------------------------------------------------------------------------
(* The ticks that the controller has published a command for. *)
Answered == {answers[i].tick : i \in DOMAIN answers}

(* What flows from the world to the controller, and back: all that is on these *)
(* topics is stamped with a tick that has been simulated, and no command is in  *)
(* flight that the controller has not published.                                *)
WorldTopics == {"ego_odom", "vehicle_state", "pose", "tick_timeout", "reference_line"}

Flow(q, n, A) ==
  \A s \in Subscriptions : \A m \in Contents(q[s]) :
    /\ s[1] \in WorldTopics => m.tick \in 1 .. n
    /\ s[1] = "command" => m.tick \in A

(* Every gated tick has its verdict, the one at the gate not yet. *)
VerdictPerTick == Len(verdict) = IF phase = "gate" THEN now - 1 ELSE now

(* OkMeansAnswered is not inductive: the gate compares with >=, so an answer   *)
(* from the future would open it.  No answer is ahead of the world, and the    *)
(* newest command, in flight or received, is one of the answers.               *)
GateInv ==
  /\ Flow(queue, now, Answered)
  /\ \A k \in Answered : k <= now
  /\ latestCmd \in Answered \cup {-1}
  /\ VerdictPerTick
  /\ \A k \in DOMAIN verdict : verdict[k] = "ok" => k \in Answered

IInv == TypeOK /\ GateInv

(* The ticks the controller has answered are numbers. *)
LEMMA AnsweredType == CtrlTypeOK => Answered \subseteq Nat
<1> DEFINE Answers == [tick : Nat, line : Lines]
<1>1. ASSUME answers \in Seq(Answers)
      PROVE  \A i \in DOMAIN answers : answers[i] \in Answers
  <2> HIDE DEF Answers
  <2> QED  BY <1>1
<1>2. \A a \in Answers : a.tick \in Nat
  OBVIOUS
<1> QED  BY <1>1, <1>2 DEF CtrlTypeOK, Answered

(* Recording one more command adds its tick to those answered. *)
LEMMA AnsweredAppend ==
  ASSUME CtrlTypeOK, NEW k, NEW l, answers' = Append(answers, [tick |-> k, line |-> l])
  PROVE  Answered' = Answered \cup {k}
<1> DEFINE a == [tick |-> k, line |-> l]
<1>1. /\ Len(answers) \in Nat /\ DOMAIN answers = 1 .. Len(answers)
      /\ DOMAIN Append(answers, a) = 1 .. Len(answers) + 1
      /\ Append(answers, a)[Len(answers) + 1] = a
      /\ \A i \in 1 .. Len(answers) : Append(answers, a)[i] = answers[i]
  BY AppendAt DEF CtrlTypeOK
<1>2. a.tick = k
  OBVIOUS
<1> HIDE DEF a
<1> QED  BY <1>1, <1>2 DEF Answered, a

(* Publishing a message that respects the flow keeps it. *)
LEMMA SendFlow ==
  ASSUME NEW q, QueueType(q), NEW n, NEW A, Flow(q, n, A),
         NEW topic, NEW m \in Payload(topic),
         topic \in WorldTopics => m.tick \in 1 .. n,
         topic = "command" => m.tick \in A
  PROVE  Flow(Send(q, topic, m), n, A)
<1> SUFFICES ASSUME NEW s \in Subscriptions, NEW x \in Contents(Send(q, topic, m)[s])
             PROVE  /\ s[1] \in WorldTopics => x.tick \in 1 .. n
                    /\ s[1] = "command" => x.tick \in A
  BY DEF Flow
<1>1. x \in Contents(q[s]) \/ (s[1] = topic /\ x = m)
  BY SendContents
<1> QED  BY <1>1 DEF Flow

(* Taking a message keeps the flow of those that stay queued. *)
LEMMA TakeFlow ==
  ASSUME NEW s, Ready(s), QueueTypeOK, NEW n, NEW A, Flow(queue, n, A)
  PROVE  Flow(Take(s), n, A)
BY TakeType DEF Flow

(* More ticks and more answers leave every queued message in the flow. *)
LEMMA FlowGrows ==
  ASSUME NEW q, QueueType(q), NEW n \in Nat, NEW o \in Nat, n <= o,
         NEW A, NEW B, A \subseteq B, Flow(q, n, A)
  PROVE  Flow(q, o, B)
<1> SUFFICES ASSUME NEW s \in Subscriptions, NEW m \in Contents(q[s])
             PROVE  /\ s[1] \in WorldTopics => m.tick \in 1 .. o
                    /\ s[1] = "command" => m.tick \in B
  BY DEF Flow
<1>1. q[s] \in Seq(Message)
  BY DEF QueueType
<1>2. m \in Message
  BY <1>1 DEF Contents
<1>3. m.tick \in Nat
  BY <1>2, TickType
<1> QED  BY <1>3 DEF Flow

(* The message that a callback takes respects the flow. *)
LEMMA HeadFlow ==
  ASSUME NEW s, Ready(s), QueueTypeOK, NEW n, NEW A, Flow(queue, n, A)
  PROVE  /\ s[1] \in WorldTopics => Head(queue[s]).tick \in 1 .. n
         /\ s[1] = "command" => Head(queue[s]).tick \in A
BY HeadType DEF Flow

(* Initially nothing was published and nothing was declared answered. *)
LEMMA InitGate == Init => GateInv
<1> SUFFICES ASSUME Init PROVE GateInv
  OBVIOUS
<1>1. answers = <<>> /\ Answered = {}
  BY DEF Init, CtrlInit, Answered
<1>2. now = 0 /\ phase = "peers" /\ latestCmd = -1 /\ verdict = <<>>
  BY DEF Init, WorldInit
<1>3. Flow(NoMessages, 0, {})
  BY DEF Flow, NoMessages, Contents
<1>4. Flow(queue, 0, {})
  <2>1. QueueType(NoMessages)
    BY DEF QueueType, NoMessages
  <2>2. [tick |-> 0] \in Payload("lane_graph")
    BY PayloadOf DEF StampMsg
  <2>3. "lane_graph" \notin WorldTopics /\ "lane_graph" # "command"
    BY DEF WorldTopics
  <2>4. Flow(Send(NoMessages, "lane_graph", [tick |-> 0]), 0, {})
    BY <1>3, <2>1, <2>2, <2>3, SendFlow
  <2> QED  BY <2>4 DEF Init
<1> QED  BY <1>1, <1>2, <1>4 DEF GateInv, VerdictPerTick

(* A step of the tick thread or of the command callback: the gate passes with *)
(* a command that is an answer, hence not ahead, hence for this very tick.    *)
LEMMA WorldStepGate == IInv /\ WorldStep => GateInv'
<1> SUFFICES ASSUME IInv, WorldStep PROVE GateInv'
  OBVIOUS
<1>1. /\ now \in Nat /\ latestCmd \in Int /\ verdict \in Seq({"ok", "error"})
      /\ episode \in Nat
      /\ QueueTypeOK /\ QueueType(queue)
  BY QueueTypeIsQueueTypeOK DEF IInv, TypeOK, WorldTypeOK
<1>2. /\ Flow(queue, now, Answered)
      /\ \A k \in Answered : k <= now
      /\ latestCmd \in Answered \cup {-1}
      /\ Len(verdict) = IF phase = "gate" THEN now - 1 ELSE now
      /\ \A k \in DOMAIN verdict : verdict[k] = "ok" => k \in Answered
  BY DEF IInv, GateInv, VerdictPerTick
<1>3. Answered' = Answered
  BY DEF WorldStep, ctrlVars, Answered
<1>4. Answered \subseteq Nat
  BY AnsweredType DEF IInv, TypeOK
<1>5. \A k, e \in Nat : Flow(Send(queue, "reset_event", [tick |-> k, episode |-> e]),
                           now, Answered)
  <2> TAKE k, e \in Nat
  <2>1. [tick |-> k, episode |-> e] \in Payload("reset_event")
    BY PayloadOf DEF ResetMsg
  <2>2. "reset_event" \notin WorldTopics /\ "reset_event" # "command"
    BY DEF WorldTopics
  <2> QED  BY <1>1, <1>2, <2>1, <2>2, SendFlow
<1>6. CASE Startup
  BY <1>1, <1>2, <1>3, <1>5, <1>6 DEF Startup, PublishResetEvent, GateInv, VerdictPerTick
<1>7. CASE ApplyReset
  BY <1>1, <1>2, <1>3, <1>5, <1>7 DEF ApplyReset, PublishResetEvent, GateInv,
     VerdictPerTick
<1>8. CASE TickWorld
  <2> DEFINE m  == [tick |-> now + 1]
             q1 == Send(queue, "ego_odom", m)
  <2>1. /\ m \in Payload("ego_odom") /\ m \in Payload("vehicle_state")
        /\ m.tick \in 1 .. now + 1
    BY <1>1, PayloadOf, StampAt
  <2>2. Flow(queue, now + 1, Answered)
    BY <1>1, <1>2, FlowGrows
  <2>3. QueueType(q1) /\ Flow(q1, now + 1, Answered)
    BY <1>1, <2>1, <2>2, SendType, SendFlow
  <2>4. Flow(Send(q1, "vehicle_state", m), now + 1, Answered)
    BY <2>1, <2>3, SendFlow
  <2>5. Flow(queue', now', Answered')
    BY <1>3, <1>8, <2>4 DEF TickWorld
  <2>6. \A k \in Answered' : k <= now'
    BY <1>1, <1>2, <1>3, <1>4, <1>8 DEF TickWorld
  <2>7. VerdictPerTick'
    BY <1>1, <1>2, <1>8 DEF TickWorld, VerdictPerTick
  <2> QED  BY <1>2, <1>3, <1>8, <2>5, <2>6, <2>7 DEF TickWorld, GateInv
<1>9. ASSUME NEW v \in {"ok", "error"}, verdict' = Append(verdict, v), phase = "gate",
             v = "ok" => now \in Answered
      PROVE  \A k \in DOMAIN verdict' : verdict'[k] = "ok" => k \in Answered
  BY <1>1, <1>2, <1>9
<1>10. CASE PassGate
  <2>1. now \in Answered
    BY <1>1, <1>2, <1>4, <1>10 DEF PassGate, CommandArrived
  <2>2. \A k \in DOMAIN verdict' : verdict'[k] = "ok" => k \in Answered
    BY <1>9, <1>10, <2>1 DEF PassGate
  <2>3. VerdictPerTick'
    BY <1>1, <1>2, <1>10 DEF PassGate, VerdictPerTick
  <2> QED  BY <1>2, <1>3, <1>10, <2>2, <2>3 DEF PassGate, GateInv
<1>11. CASE TimeOutGate
  <2>1. \A k \in DOMAIN verdict' : verdict'[k] = "ok" => k \in Answered
    BY <1>9, <1>11 DEF TimeOutGate
  <2>2. VerdictPerTick'
    BY <1>1, <1>2, <1>11 DEF TimeOutGate, VerdictPerTick
  <2>3. [tick |-> now] \in Payload("tick_timeout") /\ [tick |-> now].tick \in 1 .. now
    BY <1>1, <1>2, <1>11, PayloadOf, StampAt DEF TimeOutGate
  <2>4. Flow(queue', now, Answered)
    BY <1>1, <1>2, <1>11, <2>3, SendFlow DEF TimeOutGate
  <2> QED  BY <1>2, <1>3, <1>11, <2>1, <2>2, <2>4 DEF TimeOutGate, GateInv
<1>12. CASE OnControlCommand
  <2> DEFINE s == <<"command", "world_manager">>
             k == Head(queue[s]).tick
  <2>1. Ready(s) /\ queue' = Take(s) /\ latestCmd' \in {k, latestCmd}
    BY <1>12 DEF OnControlCommand
  <2>2. k \in Answered
    BY <1>1, <1>2, <2>1, HeadFlow
  <2>3. Flow(queue', now, Answered)
    BY <1>1, <1>2, <2>1, TakeFlow
  <2>4. latestCmd' \in Answered \cup {-1}
    BY <1>2, <2>1, <2>2
  <2> QED
    BY <1>2, <1>3, <1>12, <2>3, <2>4 DEF OnControlCommand, GateInv, VerdictPerTick
<1> QED
  BY <1>6, <1>7, <1>8, <1>10, <1>11, <1>12 DEF WorldStep, WorldNext, TickThread

(* gt_pose_node passes on the ticks it was told of: its poses are not ahead. *)
LEMMA RunFlow ==
  ASSUME NEW k \in Nat, NEW buf, NEW q, QueueType(q), Run(k, buf, q),
         NEW n, NEW A, Flow(q, n, A), k \in 1 .. n
  PROVE  Flow(queue', n, A)
<1>1. PoseOf(k, buf) \in Payload("pose") /\ PoseOf(k, buf).tick = k
  BY PoseOfType, PayloadOf DEF PoseOf
<1>2. "pose" # "command"
  OBVIOUS
<1>3. Flow(Send(q, "pose", PoseOf(k, buf)), n, A)
  BY <1>1, <1>2, SendFlow
<1> QED  BY <1>3 DEF Run

(* Every callback of gt_pose_node keeps the invariant of the gate. *)
LEMMA PoseStepGate == IInv /\ PoseStep => GateInv'
<1> SUFFICES ASSUME IInv, PoseStep PROVE GateInv'
  OBVIOUS
<1>1. QueueTypeOK
  BY DEF IInv, TypeOK
<1>2. Flow(queue, now, Answered)
  BY DEF IInv, GateInv
<1>3. Answered' = Answered
  BY DEF PoseStep, ctrlVars, Answered
<1>4. Flow(queue', now, Answered)
  <2>1. CASE PoseOnResetEvent
    BY <1>1, <1>2, <2>1, TakeFlow DEF PoseOnResetEvent
  <2>2. ASSUME NEW i \in PoseInputs, OnInput(i)
        PROVE  Flow(queue', now, Answered)
    <3> DEFINE s == PoseSub(i)
               k == Head(queue[s]).tick
    <3>1. Ready(s) /\ s[1] = i /\ i \in WorldTopics
      BY <2>2 DEF OnInput, PoseSub, PoseInputs, WorldTopics
    <3>2. k \in Nat /\ k \in 1 .. now
      BY <1>1, <1>2, <3>1, HeadType, HeadFlow
    <3>3. QueueType(Take(s)) /\ Flow(Take(s), now, Answered)
      BY <1>1, <1>2, <3>1, TakeType, TakeFlow
    <3>4. queue' = Take(s) \/ \E buf : Run(k, buf, Take(s))
      BY <2>2 DEF OnInput
    <3> QED  BY <3>2, <3>3, <3>4, RunFlow
  <2>3. CASE PoseOnTickTimeout
    <3> DEFINE s == PoseSub("tick_timeout")
               k == Head(queue[s]).tick
    <3>1. Ready(s) /\ s[1] = "tick_timeout" /\ "tick_timeout" \in WorldTopics
      BY <2>3 DEF PoseOnTickTimeout, PoseSub, WorldTopics
    <3>2. k \in Nat /\ k \in 1 .. now
      BY <1>1, <1>2, <3>1, HeadType, HeadFlow
    <3>3. QueueType(Take(s)) /\ Flow(Take(s), now, Answered)
      BY <1>1, <1>2, <3>1, TakeType, TakeFlow
    <3>4. queue' = Take(s) \/ \E buf : Run(k, buf, Take(s))
      BY <2>3 DEF PoseOnTickTimeout
    <3> QED  BY <3>2, <3>3, <3>4, RunFlow
  <2> QED  BY <2>1, <2>2, <2>3 DEF PoseStep, PoseNext
<1> QED
  BY <1>3, <1>4 DEF PoseStep, worldVars, IInv, GateInv, VerdictPerTick

(* The controller answers only ticks it was told of, and what it sends is what *)
(* it has recorded as an answer.                                               *)
LEMMA CtrlStepGate == IInv /\ CtrlStep => GateInv'
<1> SUFFICES ASSUME IInv, CtrlStep PROVE GateInv'
  OBVIOUS
<1>1. QueueTypeOK /\ CtrlTypeOK /\ now \in Nat
  BY DEF IInv, TypeOK, WorldTypeOK
<1>2. Flow(queue, now, Answered) /\ \A k \in Answered : k <= now
  BY DEF IInv, GateInv
<1> DEFINE Grown == /\ Flow(queue', now, Answered')
                    /\ \A j \in Answered' : j <= now
                    /\ Answered \subseteq Answered'
<1>3. ASSUME NEW k \in Nat, k <= now, NEW l, NEW q, QueueType(q),
             Flow(q, now, Answered), Answer(k, l, q)
      PROVE  Grown
  <2>1. answers' = Append(answers, [tick |-> k, line |-> l])
    BY <1>3 DEF Answer
  <2>2. Answered' = Answered \cup {k}
    BY <2>1, AnsweredAppend, <1>1
  <2>3. Flow(q, now, Answered')
    BY <1>1, <1>3, <2>2, FlowGrows
  <2>4. [tick |-> k] \in Payload("command") /\ [tick |-> k].tick = k
    BY PayloadOf, StampAt
  <2>5. "command" \notin WorldTopics
    BY DEF WorldTopics
  <2>6. Flow(Send(q, "command", [tick |-> k]), now, Answered')
    BY <1>3, <2>2, <2>3, <2>4, <2>5, SendFlow
  <2>7. queue' = Send(q, "command", [tick |-> k])
    BY <1>3 DEF Answer
  <2> QED  BY <1>2, <1>3, <2>2, <2>6, <2>7
<1>4. Grown
  <2>1. CASE CtrlOnResetEvent
    <3>1. answers' = answers
      BY <2>1 DEF CtrlOnResetEvent, ctrlVars
    <3>2. Flow(queue', now, Answered)
      BY <1>1, <1>2, <2>1, TakeFlow DEF CtrlOnResetEvent
    <3> QED  BY <1>2, <3>1, <3>2 DEF Answered
  <2>2. CASE OnReferenceLine
    <3>1. answers' = answers
      BY <2>2 DEF OnReferenceLine
    <3>2. Flow(queue', now, Answered)
      BY <1>1, <1>2, <2>2, TakeFlow DEF OnReferenceLine
    <3> QED  BY <1>2, <3>1, <3>2 DEF Answered
  <2>3. ASSUME NEW topic \in {"pose", "tick_timeout"},
               Ready(CtrlSub(topic)),
               \/ queue' = Take(CtrlSub(topic)) /\ answers' = answers
               \/ \E l : Answer(Head(queue[CtrlSub(topic)]).tick, l,
                                 Take(CtrlSub(topic)))
        PROVE  Grown
    <3> DEFINE s == CtrlSub(topic)
               k == Head(queue[s]).tick
    <3>1. s[1] = topic /\ topic \in WorldTopics
      BY DEF CtrlSub, WorldTopics
    <3>2. k \in Nat /\ k <= now
      BY <1>1, <1>2, <2>3, <3>1, HeadType, HeadFlow
    <3>3. QueueType(Take(s)) /\ Flow(Take(s), now, Answered)
      BY <1>1, <1>2, <2>3, TakeType, TakeFlow
    <3>4. CASE queue' = Take(s) /\ answers' = answers
      BY <1>2, <3>3, <3>4 DEF Answered
    <3>5. CASE \E l : Answer(k, l, Take(s))
      BY <1>3, <3>2, <3>3, <3>5
    <3> QED  BY <2>3, <3>4, <3>5
  <2>4. CASE CtrlOnPose
    BY <2>3, <2>4 DEF CtrlOnPose
  <2>5. CASE CtrlOnTickTimeout
    BY <2>3, <2>5 DEF CtrlOnTickTimeout
  <2> QED  BY <2>1, <2>2, <2>4, <2>5 DEF CtrlStep, CtrlNext
<1> QED
  BY <1>4 DEF CtrlStep, worldVars, IInv, GateInv, VerdictPerTick

(* Waypoints are neither world data nor commands. *)
LEMMA RouteFlow ==
  ASSUME NEW q, QueueType(q), NEW n, NEW A, Flow(q, n, A),
         NEW m \in RouteMsg
  PROVE  Flow(Send(q, "waypoints", m), n, A)
<1>1. "waypoints" \notin WorldTopics /\ m \in Payload("waypoints")
  BY PayloadOf DEF WorldTopics
<1> QED  BY <1>1, SendFlow

(* Every callback of the route planner keeps the invariant of the gate. *)
LEMMA PlanStepGate == IInv /\ PlanStep => GateInv'
<1> SUFFICES ASSUME IInv, PlanStep PROVE GateInv'
  OBVIOUS
<1>1. QueueTypeOK /\ PlanTypeOK /\ now \in Nat
  BY DEF IInv, TypeOK, WorldTypeOK
<1>2. Flow(queue, now, Answered)
  BY DEF IInv, GateInv
<1>3. Answered' = Answered
  BY DEF PlanStep, ctrlVars, Answered
<1>4. ASSUME NEW k \in 1 .. now, NEW n, NEW q, QueueType(q), Flow(q, now, Answered),
             Plan(k, n, q)
      PROVE  Flow(queue', now, Answered)
  <2> DEFINE l == [tick |-> k, route |-> waypoints.route]
  <2>1. l \in RouteMsg /\ l.tick = k
    BY <1>1 DEF PlanTypeOK, Routes, RouteMsg
  <2>2. Flow(Send(q, "reference_line", l), now, Answered)
    BY <1>4, <2>1, SendFlow, PayloadOf
  <2> QED  BY <1>4, <2>2 DEF Plan
<1>5. Flow(queue', now, Answered)
  <2>1. CASE OnLaneGraph
    BY <1>1, <1>2, <2>1, TakeFlow DEF OnLaneGraph
  <2>2. CASE PlanOnResetEvent
    BY <1>1, <1>2, <2>2, TakeFlow DEF PlanOnResetEvent
  <2>3. CASE OnWaypoints
    BY <1>1, <1>2, <2>3, TakeFlow DEF OnWaypoints
  <2>4. CASE PlanOnPose
    <3> DEFINE s == PlanSub("pose")
               k == Head(queue[s]).tick
    <3>1. Ready(s) /\ s[1] \in WorldTopics
      BY <2>4 DEF PlanOnPose, PlanSub, WorldTopics
    <3>2. k \in 1 .. now /\ QueueType(Take(s)) /\ Flow(Take(s), now, Answered)
      BY <1>1, <1>2, <3>1, HeadFlow, TakeType, TakeFlow
    <3>3. \/ queue' = Take(s)
          \/ Plan(k, offLineTicks, Take(s))
          \/ CheckReroute(k, Take(s))
      BY <2>4 DEF PlanOnPose
    <3>4. CheckReroute(k, Take(s)) =>
            queue' = Take(s) \/ \E n : Plan(k, n, Take(s))
      BY DEF CheckReroute
    <3> QED  BY <1>4, <3>2, <3>3, <3>4
  <2> QED  BY <2>1, <2>2, <2>3, <2>4 DEF PlanStep, PlanNext
<1> QED
  BY <1>3, <1>5 DEF PlanStep, worldVars, IInv, GateInv, VerdictPerTick

(* The route runner sends no command: it keeps the invariant of the gate. *)
LEMMA RunnerStepGate == IInv /\ RunnerStep => GateInv'
<1> SUFFICES ASSUME IInv, RunnerStep PROVE GateInv'
  OBVIOUS
<1>1. QueueType(queue) /\ now \in Nat /\ episode \in Nat
  BY QueueTypeIsQueueTypeOK DEF IInv, TypeOK, WorldTypeOK
<1>2. Flow(queue, now, Answered) /\ Answered' = Answered
  BY DEF IInv, GateInv, RunnerStep, ctrlVars, Answered
<1>3. \A stamped \in BOOLEAN :
         [tick |-> IF stamped THEN now ELSE 0, route |-> episode] \in RouteMsg
  BY <1>1 DEF RouteMsg
<1>4. Flow(queue', now, Answered)
  BY <1>1, <1>2, <1>3, RunnerAssumption, RouteFlow DEF RunnerStep, PublishWaypoints
<1> QED
  BY <1>2, <1>4 DEF RunnerStep, worldVars, IInv, GateInv, VerdictPerTick

(* IInv is inductive: every step of the stack keeps it. *)
LEMMA StepGate == IInv /\ [Next]_vars => IInv'
<1> SUFFICES ASSUME IInv, [Next]_vars PROVE IInv'
  OBVIOUS
<1>1. TypeOK'
  BY StepType DEF IInv
<1>2. CASE UNCHANGED vars
  <2>1. GateInv'
    BY <1>2 DEF vars, worldVars, ctrlVars, IInv, GateInv, VerdictPerTick, Answered
  <2> QED  BY <1>1, <2>1 DEF IInv
<1>3. CASE WorldStep \/ PoseStep \/ CtrlStep \/ PlanStep \/ RunnerStep
  <2>1. GateInv'
    BY <1>3, WorldStepGate, PoseStepGate, CtrlStepGate, PlanStepGate, RunnerStepGate
  <2> QED  BY <1>1, <2>1 DEF IInv
<1> QED  BY <1>2, <1>3 DEF Next, Finished

(* A tick is passed as ok only with the command computed for it, whatever the *)
(* set of nodes, however often the gate times out and the episode is reset,   *)
(* and in whatever order the topics deliver.                                  *)
THEOREM GateNeverLies == Spec => []OkMeansAnswered
<1>1. Init => IInv
  BY InitType, InitGate DEF IInv
<1>2. IInv /\ [Next]_vars => IInv'
  BY StepGate
<1>3. IInv => OkMeansAnswered
  <2> SUFFICES ASSUME IInv, NEW k \in DOMAIN verdict, verdict[k] = "ok"
               PROVE  \E i \in DOMAIN answers : answers[i].tick = k
    BY DEF OkMeansAnswered
  <2>1. k \in Answered
    BY DEF IInv, GateInv
  <2> QED  BY <2>1 DEF Answered
<1> QED  BY <1>1, <1>2, <1>3, PTL DEF Spec

-------------------------------------------------------------------------------
(* ---- the lockstep implements TickGate ----------------------------------- *)

(* The answers are in the order of their ticks: every tick answered so far is  *)
(* settled for the controller, also after the resets it has not handled yet.   *)
AnswerOrder ==
  /\ \A a \in Answered : a <= lastTick \/ a < ctrlStart
  /\ \A s \in Subscriptions : s = CtrlSub("reset_event") =>
       \A m \in Contents(queue[s]) : \A a \in Answered : a < m.tick

(* A step that answers nothing and publishes no ResetEvent keeps the order. *)
LEMMA OrderKept ==
  ASSUME AnswerOrder, Answered' = Answered, UNCHANGED <<lastTick, ctrlStart>>,
         \A s \in Subscriptions : s = CtrlSub("reset_event") =>
           Contents(queue'[s]) \subseteq Contents(queue[s])
  PROVE  AnswerOrder'
BY DEF AnswerOrder

(* What is published on another topic is no ResetEvent. *)
LEMMA SendNoReset ==
  ASSUME NEW q, QueueType(q), NEW topic, NEW m \in Payload(topic), topic # "reset_event",
         NEW s \in Subscriptions, s = CtrlSub("reset_event")
  PROVE  Contents(Send(q, topic, m)[s]) \subseteq Contents(q[s])
<1>1. s[1] = "reset_event"
  BY DEF CtrlSub
<1> QED  BY <1>1, SendContents

(* Publishing on another topic leaves a subscription as it is. *)
LEMMA SendOther ==
  ASSUME NEW q, NEW topic, NEW m, NEW s \in Subscriptions, s[1] # topic
  PROVE  Send(q, topic, m)[s] = q[s]
BY DEF Send

(* gt_pose_node publishes nothing but poses: on any other topic a step of it leaves *)
(* what is queued, or takes some of it.                                              *)
LEMMA PoseSends ==
  ASSUME TypeOK, PoseStep, NEW s \in Subscriptions, s[1] # "pose"
  PROVE  Contents(queue'[s]) \subseteq Contents(queue[s])
<1>1. QueueTypeOK
  BY DEF TypeOK
<1> DEFINE Less(q) == Contents(q[s]) \subseteq Contents(queue[s])
<1>2. ASSUME NEW t, Ready(t) PROVE QueueType(Take(t)) /\ Less(Take(t))
  BY <1>1, <1>2, TakeType
<1>3. ASSUME NEW t, Ready(t), NEW k, NEW buf, Run(k, buf, Take(t)) PROVE Less(queue')
  <2>1. \A m : Send(Take(t), "pose", m)[s] = Take(t)[s]
    BY SendOther
  <2> QED  BY <1>2, <1>3, <2>1 DEF Run
<1>4. CASE PoseOnResetEvent
  BY <1>2, <1>4 DEF PoseOnResetEvent
<1>5. ASSUME NEW i \in PoseInputs, OnInput(i) PROVE Less(queue')
  <2>1. /\ Ready(PoseSub(i))
        /\ \/ queue' = Take(PoseSub(i))
           \/ \E k, buf : Run(k, buf, Take(PoseSub(i)))
    BY <1>5 DEF OnInput
  <2> QED  BY <1>2, <1>3, <2>1
<1>6. CASE PoseOnTickTimeout
  <2>1. /\ Ready(PoseSub("tick_timeout"))
        /\ \/ queue' = Take(PoseSub("tick_timeout"))
           \/ \E k, buf : Run(k, buf, Take(PoseSub("tick_timeout")))
    BY <1>6 DEF PoseOnTickTimeout
  <2> QED  BY <1>2, <1>3, <2>1
<1> QED  BY <1>4, <1>5, <1>6 DEF PoseStep, PoseNext

(* The controller publishes nothing but commands. *)
LEMMA CtrlSends ==
  ASSUME TypeOK, CtrlStep, NEW s \in Subscriptions, s[1] # "command"
  PROVE  Contents(queue'[s]) \subseteq Contents(queue[s])
<1>1. QueueTypeOK
  BY DEF TypeOK
<1> DEFINE Less(q) == Contents(q[s]) \subseteq Contents(queue[s])
<1>2. ASSUME NEW t, Ready(t) PROVE Less(Take(t))
  BY <1>1, <1>2, TakeType
<1>3. ASSUME NEW t, Ready(t), NEW k, NEW l, Answer(k, l, Take(t)) PROVE Less(queue')
  <2>1. \A m : Send(Take(t), "command", m)[s] = Take(t)[s]
    BY SendOther
  <2> QED  BY <1>2, <1>3, <2>1 DEF Answer
<1>4. CASE CtrlOnResetEvent
  BY <1>2, <1>4 DEF CtrlOnResetEvent
<1>5. CASE OnReferenceLine
  BY <1>2, <1>5 DEF OnReferenceLine
<1>6. CASE CtrlOnPose
  <2>1. /\ Ready(CtrlSub("pose"))
        /\ \/ queue' = Take(CtrlSub("pose"))
           \/ \E k, l : Answer(k, l, Take(CtrlSub("pose")))
    BY <1>6 DEF CtrlOnPose
  <2> QED  BY <1>2, <1>3, <2>1
<1>7. CASE CtrlOnTickTimeout
  <2>1. /\ Ready(CtrlSub("tick_timeout"))
        /\ \/ queue' = Take(CtrlSub("tick_timeout"))
           \/ \E k, l : Answer(k, l, Take(CtrlSub("tick_timeout")))
    BY <1>7 DEF CtrlOnTickTimeout
  <2> QED  BY <1>2, <1>3, <2>1
<1> QED  BY <1>4, <1>5, <1>6, <1>7 DEF CtrlStep, CtrlNext

(* The route planner publishes nothing but lines, the harness nothing but waypoints. *)
LEMMA PlanSends ==
  ASSUME TypeOK, PlanStep \/ RunnerStep, NEW s \in Subscriptions,
         s[1] \notin {"reference_line", "waypoints"}
  PROVE  Contents(queue'[s]) \subseteq Contents(queue[s])
<1>1. QueueTypeOK
  BY DEF TypeOK
<1> DEFINE Less(q) == Contents(q[s]) \subseteq Contents(queue[s])
<1>2. ASSUME NEW t, Ready(t) PROVE Less(Take(t))
  BY <1>1, <1>2, TakeType
<1>3. ASSUME NEW t, Ready(t), NEW k, NEW n, Plan(k, n, Take(t)) PROVE Less(queue')
  <2>1. \A m : Send(Take(t), "reference_line", m)[s] = Take(t)[s]
    BY SendOther
  <2>2. queue' = Take(t) \/ \E m : queue' = Send(Take(t), "reference_line", m)
    BY <1>3 DEF Plan
  <2> QED  BY <1>2, <1>3, <2>1, <2>2
<1>4. CASE PlanStep
  <2>1. CASE OnLaneGraph
    BY <1>2, <2>1 DEF OnLaneGraph
  <2>2. CASE PlanOnResetEvent
    BY <1>2, <2>2 DEF PlanOnResetEvent
  <2>3. CASE OnWaypoints
    BY <1>2, <2>3 DEF OnWaypoints
  <2>4. CASE PlanOnPose
    <3> DEFINE t == PlanSub("pose")
               k == Head(queue[t]).tick
    <3>1. Ready(t)
      BY <2>4 DEF PlanOnPose
    <3>2. queue' = Take(t) \/ Plan(k, offLineTicks, Take(t)) \/ CheckReroute(k, Take(t))
      BY <2>4 DEF PlanOnPose
    <3>3. CheckReroute(k, Take(t)) => queue' = Take(t) \/ \E n : Plan(k, n, Take(t))
      BY DEF CheckReroute
    <3> QED  BY <1>2, <1>3, <3>1, <3>2, <3>3
  <2> QED  BY <1>4, <2>1, <2>2, <2>3, <2>4 DEF PlanStep, PlanNext
<1>5. CASE RunnerStep
  <2>1. \A m : Send(queue, "waypoints", m)[s] = queue[s]
    BY SendOther
  <2> QED  BY <1>5, <2>1 DEF RunnerStep, PublishWaypoints
<1> QED  BY <1>4, <1>5

(* The event of a reset is stamped ahead of every answer. *)
LEMMA OrderWorldStep == IInv /\ AnswerOrder /\ WorldStep => AnswerOrder'
<1> SUFFICES ASSUME IInv, AnswerOrder, WorldStep PROVE AnswerOrder'
  OBVIOUS
<1>1. /\ QueueTypeOK /\ QueueType(queue) /\ now \in Nat /\ episode \in Nat
      /\ Answered \subseteq Nat /\ \A a \in Answered : a <= now
  BY QueueTypeIsQueueTypeOK, AnsweredType DEF IInv, TypeOK, WorldTypeOK, GateInv
<1>2. Answered' = Answered /\ UNCHANGED <<lastTick, ctrlStart>>
  BY DEF WorldStep, ctrlVars, Answered
<1> SUFFICES ASSUME NEW s \in Subscriptions, s = CtrlSub("reset_event"),
                    NEW m \in Contents(queue'[s])
             PROVE  m \in Contents(queue[s]) \/ m.tick = now + 1
  BY <1>1, <1>2 DEF AnswerOrder
<1>3. ASSUME NEW e \in Nat, PublishResetEvent(e)
      PROVE  m \in Contents(queue[s]) \/ m.tick = now + 1
  <2> DEFINE r == [tick |-> now + 1, episode |-> e]
  <2>1. r \in ResetMsg /\ r.tick = now + 1
    BY <1>1 DEF ResetMsg
  <2>2. m \in Contents(queue[s]) \cup {r}
    BY PayloadOf, <1>1, <1>3, <2>1, SendContents DEF PublishResetEvent
  <2> QED  BY <2>1, <2>2
<1>4. CASE Startup
  BY <1>1, <1>3, <1>4 DEF Startup
<1>5. CASE ApplyReset
  BY <1>1, <1>3, <1>5 DEF ApplyReset
<1>6. CASE TickWorld
  <2> DEFINE t  == [tick |-> now + 1]
             q1 == Send(queue, "ego_odom", t)
  <2>1. t \in Payload("ego_odom") /\ t \in Payload("vehicle_state")
    BY <1>1, PayloadOf, StampAt
  <2>2. QueueType(q1) /\ Contents(q1[s]) \subseteq Contents(queue[s])
    BY <1>1, <2>1, SendType, SendNoReset
  <2>3. Contents(Send(q1, "vehicle_state", t)[s]) \subseteq Contents(q1[s])
    BY <2>1, <2>2, SendNoReset
  <2> QED  BY <1>6, <2>2, <2>3 DEF TickWorld
<1>7. CASE PassGate
  BY <1>7 DEF PassGate
<1>8. CASE TimeOutGate
  <2>1. [tick |-> now] \in Payload("tick_timeout")
    BY <1>1, PayloadOf, StampAt
  <2> QED  BY <1>1, <1>8, <2>1, SendNoReset DEF TimeOutGate
<1>9. CASE OnControlCommand
  BY <1>1, <1>9, TakeType DEF OnControlCommand
<1> QED
  BY <1>4, <1>5, <1>6, <1>7, <1>8, <1>9 DEF WorldStep, WorldNext, TickThread

(* What the controller answers: a tick that happened, later than all others, and *)
(* of no episode that it still has to be told of.                                 *)
LEMMA AnswerLater ==
  ASSUME ResetFirst, IInv, AnswerOrder, NEW topic \in {"pose", "tick_timeout"},
         Ready(CtrlSub(topic)), NEW k, k = Head(queue[CtrlSub(topic)]).tick, ~ Settled(k)
  PROVE  /\ k \in 1 .. now
         /\ \A a \in Answered : a < k
         /\ \A s \in Subscriptions : s = CtrlSub("reset_event") =>
              \A m \in Contents(queue[s]) : k < m.tick
<1>1. /\ QueueTypeOK /\ now \in Nat /\ Answered \subseteq Nat
      /\ lastTick \in Nat /\ ctrlStart \in Nat /\ Flow(queue, now, Answered)
  BY AnsweredType DEF IInv, TypeOK, WorldTypeOK, CtrlTypeOK, GateInv
<1>2. CtrlSub(topic)[1] = topic /\ topic \in WorldTopics /\ CtrlSub(topic)[2] = "controller"
  BY DEF CtrlSub, WorldTopics
<1>3. k \in Nat /\ k <= now
  BY <1>1, <1>2, HeadType, HeadFlow
<1>4. k > lastTick /\ k >= ctrlStart
  BY <1>1, <1>3 DEF Settled, CtrlBeforeEpisode
<1>5. \A a \in Answered : a < k
  BY <1>1, <1>3, <1>4 DEF AnswerOrder
<1>6. \A i \in 1 .. Len(queue[CtrlSub("reset_event")]) :
         k < queue[CtrlSub("reset_event")][i].tick
  BY <1>2 DEF Ready, CtrlSub
<1>7. ASSUME NEW s \in Subscriptions, s = CtrlSub("reset_event") PROVE
         \A m \in Contents(queue[s]) : k < m.tick
  <2>1. queue[s] \in Seq(Message)
    BY <1>1 DEF QueueTypeOK
  <2> QED  BY <1>6, <1>7, <2>1 DEF Contents
<1> QED  BY <1>1, <1>3, <1>4, <1>5, <1>7

(* A callback of the controller: either it answers such a tick, or nothing. *)
LEMMA OrderCtrlStep ==
  ASSUME ResetFirst, IInv, AnswerOrder, CtrlStep
  PROVE  /\ AnswerOrder'
         /\ \/ answers' = answers
            \/ \E k \in 1 .. now : \E l :
                 /\ \A a \in Answered : a < k
                 /\ answers' = Append(answers, [tick |-> k, line |-> l])
<1>1. /\ QueueTypeOK /\ QueueType(queue) /\ now \in Nat /\ Answered \subseteq Nat
      /\ CtrlTypeOK
  BY QueueTypeIsQueueTypeOK, AnsweredType DEF IInv, TypeOK, WorldTypeOK
<1>2. CASE CtrlOnResetEvent
  <2> DEFINE s == CtrlSub("reset_event")
  <2>1. Ready(s) /\ queue' = Take(s) /\ answers' = answers
    BY <1>2 DEF CtrlOnResetEvent, ctrlVars
  <2>2. /\ s \in Subscriptions /\ Head(queue[s]) \in Contents(queue[s])
        /\ \A t \in Subscriptions : Contents(queue'[t]) \subseteq Contents(queue[t])
    BY <1>1, <2>1, HeadType, TakeType
  <2>3. \A a \in Answered : a < Head(queue[s]).tick
    BY <2>2 DEF AnswerOrder
  <2>4. ctrlStart' = Head(queue[s]).tick \/ UNCHANGED <<lastTick, ctrlStart>>
    BY <1>2 DEF CtrlOnResetEvent, ctrlVars
  <2>5. Answered' = Answered
    BY <2>1 DEF Answered
  <2> QED  BY <2>1, <2>2, <2>3, <2>4, <2>5 DEF AnswerOrder
<1>3. CASE OnReferenceLine
  <2>1. answers' = answers /\ Answered' = Answered /\ UNCHANGED <<lastTick, ctrlStart>>
    BY <1>3 DEF OnReferenceLine, Answered
  <2>2. \A t \in Subscriptions : Contents(queue'[t]) \subseteq Contents(queue[t])
    BY <1>1, <1>3, TakeType DEF OnReferenceLine
  <2> QED  BY <2>1, <2>2, OrderKept
<1>4. ASSUME NEW topic \in {"pose", "tick_timeout"}, NEW k, Ready(CtrlSub(topic)),
             k = Head(queue[CtrlSub(topic)]).tick, UNCHANGED ctrlStart,
             \/ queue' = Take(CtrlSub(topic)) /\ UNCHANGED <<lastTick, answers>>
             \/ ~ Settled(k) /\ \E l : Answer(k, l, Take(CtrlSub(topic)))
      PROVE  /\ AnswerOrder'
             /\ \/ answers' = answers
                \/ \E j \in 1 .. now : \E l :
                     /\ \A a \in Answered : a < j
                     /\ answers' = Append(answers, [tick |-> j, line |-> l])
  <2>1. /\ QueueType(Take(CtrlSub(topic)))
        /\ \A t \in Subscriptions :
             Contents(Take(CtrlSub(topic))[t]) \subseteq Contents(queue[t])
    BY <1>1, <1>4, TakeType
  <2>2. CASE queue' = Take(CtrlSub(topic)) /\ UNCHANGED <<lastTick, answers>>
    <3>1. Answered' = Answered
      BY <2>2 DEF Answered
    <3> QED  BY <1>4, <2>1, <2>2, <3>1, OrderKept
  <2>3. ASSUME NEW l, ~ Settled(k), Answer(k, l, Take(CtrlSub(topic)))
        PROVE  /\ AnswerOrder'
               /\ k \in 1 .. now /\ \A a \in Answered : a < k
               /\ answers' = Append(answers, [tick |-> k, line |-> l])
    <3>1. /\ k \in 1 .. now
          /\ \A a \in Answered : a < k
          /\ \A s \in Subscriptions : s = CtrlSub("reset_event") =>
               \A m \in Contents(queue[s]) : k < m.tick
      BY <1>4, <2>3, AnswerLater
    <3>2. answers' = Append(answers, [tick |-> k, line |-> l]) /\ lastTick' = k
      BY <2>3 DEF Answer
    <3>3. Answered' = Answered \cup {k}
      BY <1>1, <3>2, AnsweredAppend
    <3>4. \A s \in Subscriptions : s = CtrlSub("reset_event") =>
             Contents(queue'[s]) \subseteq Contents(queue[s])
      <4>1. [tick |-> k] \in Payload("command") /\ "command" # "reset_event"
        BY <3>1, PayloadOf, StampAt
      <4> QED  BY <2>1, <2>3, <4>1, SendNoReset DEF Answer
    <3>5. \A a \in Answered' : a <= lastTick'
      BY <1>1, <3>1, <3>2, <3>3
    <3>6. \A s \in Subscriptions : s = CtrlSub("reset_event") =>
             \A m \in Contents(queue'[s]) : \A a \in Answered' : a < m.tick
      BY <3>1, <3>3, <3>4 DEF AnswerOrder
    <3> QED  BY <3>1, <3>2, <3>5, <3>6 DEF AnswerOrder
  <2> QED  BY <1>4, <2>2, <2>3
<1>5. CASE CtrlOnPose
  BY <1>4, <1>5 DEF CtrlOnPose
<1>6. CASE CtrlOnTickTimeout
  BY <1>4, <1>6 DEF CtrlOnTickTimeout
<1> QED  BY <1>2, <1>3, <1>5, <1>6 DEF CtrlStep, CtrlNext

(* AnswerOrder is kept by every step, if a ResetEvent overtakes no data. *)
LEMMA OrderStep ==
  ASSUME ResetFirst, IInv, AnswerOrder, [Next]_vars
  PROVE  AnswerOrder'
<1>1. CASE UNCHANGED vars
  BY <1>1 DEF vars, ctrlVars, AnswerOrder, Answered
<1>2. CASE PoseStep \/ PlanStep \/ RunnerStep
  <2>1. Answered' = Answered /\ UNCHANGED <<lastTick, ctrlStart>>
    BY <1>2 DEF PoseStep, PlanStep, RunnerStep, ctrlVars, Answered
  <2>2. \A s \in Subscriptions : s = CtrlSub("reset_event") =>
           Contents(queue'[s]) \subseteq Contents(queue[s])
    <3> TAKE s \in Subscriptions
    <3>1. s = CtrlSub("reset_event") => s[1] = "reset_event"
      BY DEF CtrlSub
    <3> QED  BY <1>2, <3>1, PoseSends, PlanSends DEF IInv
  <2> QED  BY <2>1, <2>2, OrderKept
<1> QED
  BY <1>1, <1>2, OrderWorldStep, OrderCtrlStep DEF Next, Finished

(* Initially nothing was answered. *)
LEMMA OrderInit == Init => AnswerOrder
<1> SUFFICES ASSUME Init PROVE AnswerOrder
  OBVIOUS
<1>1. Answered = {}
  BY DEF Init, CtrlInit, Answered
<1> QED  BY <1>1 DEF AnswerOrder

(* The answers, as TickGate sees them. *)
AnsweredTicks == [i \in 1 .. Len(answers) |-> answers[i].tick]

(* One more command is one more answer there. *)
LEMMA AnsweredTicksAppend ==
  ASSUME CtrlTypeOK, NEW k \in Nat, NEW l, answers' = Append(answers, [tick |-> k, line |-> l])
  PROVE  AnsweredTicks' = Append(AnsweredTicks, k)
<1> DEFINE a == [tick |-> k, line |-> l]
<1>1. /\ Len(answers) \in Nat /\ DOMAIN answers = 1 .. Len(answers)
      /\ DOMAIN Append(answers, a) = 1 .. Len(answers) + 1
      /\ Append(answers, a)[Len(answers) + 1] = a
      /\ \A i \in 1 .. Len(answers) : Append(answers, a)[i] = answers[i]
  BY AppendAt DEF CtrlTypeOK
<1>2. a.tick = k /\ answers' = Append(answers, a)
  OBVIOUS
<1> HIDE DEF a
<1>3. Len(answers') = Len(answers) + 1
  BY <1>1, <1>2
<1>4. /\ AnsweredTicks' = [i \in 1 .. Len(answers) + 1 |-> answers'[i].tick]
      /\ \A i \in 1 .. Len(answers) : answers'[i].tick = answers[i].tick
      /\ answers'[Len(answers) + 1].tick = k
  BY <1>1, <1>2, <1>3 DEF AnsweredTicks
<1>5. \A i \in 1 .. Len(answers) : answers[i].tick \in Nat
  <2>1. \A i \in DOMAIN answers : answers[i].tick \in Answered
    BY DEF Answered
  <2> QED  BY <1>1, <2>1, AnsweredType
<1>6. AnsweredTicks \in Seq(Nat) /\ Len(AnsweredTicks) = Len(answers)
  BY <1>1, <1>5 DEF AnsweredTicks
<1>7. /\ Append(AnsweredTicks, k) \in Seq(Nat)
      /\ Len(Append(AnsweredTicks, k)) = Len(answers) + 1
      /\ Append(AnsweredTicks, k)[Len(answers) + 1] = k
      /\ \A i \in 1 .. Len(answers) : Append(AnsweredTicks, k)[i] = answers[i].tick
  BY <1>1, <1>6 DEF AnsweredTicks
<1>8. /\ AnsweredTicks' \in Seq(Nat) /\ Len(AnsweredTicks') = Len(answers) + 1
      /\ \A i \in 1 .. Len(answers) + 1 : AnsweredTicks'[i] = answers'[i].tick
  <2>1. \A i \in 1 .. Len(answers) + 1 : answers'[i].tick \in Nat
    BY <1>1, <1>4, <1>5
  <2> QED  BY <1>1, <1>4, <2>1
<1>9. \A i \in 1 .. Len(answers) + 1 : AnsweredTicks'[i] = Append(AnsweredTicks, k)[i]
  BY <1>1, <1>4, <1>7, <1>8
<1> QED  BY <1>7, <1>8, <1>9, SeqEqual


(* Every step of the stack is a step of TickGate, or none. *)
LEMMA GateStep ==
  ASSUME ResetFirst, IInv, AnswerOrder, [Next]_vars
  PROVE  [Gate!Next]_Gate!vars
<1>1. /\ now \in Nat /\ CtrlTypeOK /\ verdict \in Seq({"ok", "error"})
      /\ VerdictPerTick /\ latestCmd \in Answered \cup {-1}
      /\ Answered \subseteq Nat /\ \A a \in Answered : a <= now
  BY AnsweredType DEF IInv, TypeOK, WorldTypeOK, GateInv
<1>2. CASE UNCHANGED <<now, answers, verdict>>
  BY <1>2 DEF Gate!vars
<1>3. CASE WorldStep
  <2>1. UNCHANGED answers
    BY <1>3 DEF WorldStep, ctrlVars
  <2>2. CASE TickWorld
    <3>1. Len(verdict) = now /\ now' = now + 1 /\ UNCHANGED verdict
      BY <1>1, <2>2 DEF TickWorld, VerdictPerTick
    <3> QED  BY <2>1, <3>1 DEF Gate!Next, Gate!Advance
  <2>3. ASSUME NEW v \in {"ok", "error"}, phase = "gate", verdict' = Append(verdict, v),
               UNCHANGED now, v = "ok" => now \in Answered
        PROVE  Gate!Next
    <3>1. Len(verdict) = now - 1
      BY <1>1, <2>3 DEF VerdictPerTick
    <3>2. v = "ok" => Gate!IsAnswered(now)
      <4>1. /\ Len(answers) \in Nat /\ DOMAIN answers = 1 .. Len(answers)
            /\ Len(AnsweredTicks) = Len(answers)
            /\ \A i \in 1 .. Len(answers) : AnsweredTicks[i] = answers[i].tick
        BY <1>1, AppendAt DEF CtrlTypeOK, AnsweredTicks
      <4> QED  BY <2>3, <4>1 DEF Answered, AnsweredTicks, Gate!IsAnswered
    <3> QED  BY <2>1, <2>3, <3>1, <3>2 DEF Gate!Next, Gate!Settle
  <2>4. CASE PassGate
    <3>1. now \in Answered
      BY <1>1, <2>4 DEF PassGate, CommandArrived
    <3> QED  BY <2>3, <2>4, <3>1 DEF PassGate
  <2>5. CASE TimeOutGate
    BY <2>3, <2>5 DEF TimeOutGate
  <2>6. CASE Startup \/ ApplyReset \/ OnControlCommand
    BY <1>2, <2>1, <2>6 DEF Startup, ApplyReset, OnControlCommand
  <2> QED  BY <1>3, <2>2, <2>4, <2>5, <2>6 DEF WorldStep, WorldNext, TickThread
<1>4. CASE CtrlStep
  <2>1. UNCHANGED <<now, verdict>>
    BY <1>4 DEF CtrlStep, worldVars
  <2>2. ASSUME NEW k \in 1 .. now, NEW l, \A a \in Answered : a < k,
               answers' = Append(answers, [tick |-> k, line |-> l])
        PROVE  Gate!Next
    <3>1. k \in Nat
      BY <1>1
    <3>2. AnsweredTicks' = Append(AnsweredTicks, k)
      BY <1>1, <2>2, <3>1, AnsweredTicksAppend
    <3>3. \A i \in 1 .. Len(AnsweredTicks) : AnsweredTicks[i] < k
      <4>1. /\ Len(answers) \in Nat /\ DOMAIN answers = 1 .. Len(answers)
            /\ Len(AnsweredTicks) = Len(answers)
            /\ \A i \in 1 .. Len(answers) : AnsweredTicks[i] = answers[i].tick
        BY <1>1, AppendAt DEF CtrlTypeOK, AnsweredTicks
      <4> QED  BY <2>2, <4>1 DEF Answered
    <3>4. Gate!Answer(k)
      BY <2>1, <3>2, <3>3 DEF AnsweredTicks, Gate!Answer
    <3> QED  BY <3>4 DEF Gate!Next
  <2>3. \/ answers' = answers
        \/ \E k \in 1 .. now : \E l :
             /\ \A a \in Answered : a < k
             /\ answers' = Append(answers, [tick |-> k, line |-> l])
    BY <1>4, OrderCtrlStep
  <2> QED  BY <1>2, <2>1, <2>2, <2>3
<1>5. CASE PoseStep \/ PlanStep \/ RunnerStep \/ UNCHANGED vars
  BY <1>2, <1>5 DEF PoseStep, PlanStep, RunnerStep, vars, worldVars, ctrlVars
<1> QED  BY <1>3, <1>4, <1>5 DEF Next, Finished

(* The stack implements TickGate, for every set of nodes, every number of ticks, *)
(* resets and timeouts, if a ResetEvent overtakes no data: PurePursuitPidNode's   *)
(* OnPose and OnTickTimeout answer a tick at most once and in tick order, and     *)
(* _wait_for_command passes a tick with its own answer.                           *)
THEOREM GateImplementedHolds ==
  ASSUME ResetFirst
  PROVE  Spec => GateImplemented
<1> DEFINE Inv == IInv /\ AnswerOrder
<1>1. Init => Inv
  BY InitType, InitGate, OrderInit DEF IInv
<1>2. Inv /\ [Next]_vars => Inv'
  BY StepGate, OrderStep
<1>3. Inv /\ [Next]_vars => [Gate!Next]_Gate!vars
  BY GateStep
<1>4. Init => Gate!Init
  <2> SUFFICES ASSUME Init PROVE Gate!Init
    OBVIOUS
  <2>1. now = 0 /\ verdict = <<>> /\ answers = <<>>
    BY DEF Init, WorldInit, CtrlInit
  <2> QED  BY <2>1 DEF Gate!Init
<1> QED  BY <1>1, <1>2, <1>3, <1>4, PTL DEF Spec, GateImplemented, Gate!Spec


-------------------------------------------------------------------------------
(* ---- the nodes and their episodes --------------------------------------- *)

(* The ResetEvents queued for a node are in the order they were published. *)
Sorted(q) ==
  \A i, j \in 1 .. Len(q) : i < j => q[i].tick <= q[j].tick /\ q[i].episode < q[j].episode

(* A node whose episode starts at tick S has still to be told of all that start *)
(* later, those of E being all.                                                   *)
Known(E, q, S) ==
  /\ \A e \in E : e <= S \/ \E i \in 1 .. Len(q) : q[i].tick = e
  /\ \A i \in 1 .. Len(q) : S <= q[i].tick

(* A node takes the next ResetEvent. *)
LEMMA TailOfResets ==
  ASSUME NEW q \in Seq(ResetMsg), q # <<>>, Sorted(q),
         NEW E \in SUBSET Nat, NEW S \in Nat, Known(E, q, S)
  PROVE  /\ Sorted(Tail(q)) /\ Known(E, Tail(q), Head(q).tick) /\ S <= Head(q).tick
         /\ Len(Tail(q)) = Len(q) - 1
         /\ \A i \in 1 .. Len(Tail(q)) :
              /\ i + 1 \in 1 .. Len(q) /\ Tail(q)[i] = q[i + 1]
              /\ Head(q).episode < Tail(q)[i].episode
<1>1. /\ Len(q) \in Nat /\ Len(q) # 0 /\ Len(Tail(q)) = Len(q) - 1 /\ Head(q) = q[1]
      /\ \A i \in 1 .. Len(Tail(q)) : i + 1 \in 1 .. Len(q) /\ Tail(q)[i] = q[i + 1]
  OBVIOUS
<1>2. \A i \in 1 .. Len(q) : q[i] \in ResetMsg
  OBVIOUS
<1>3. \A i \in 1 .. Len(q) : q[i].tick \in Nat /\ q[i].episode \in Nat
  BY <1>2 DEF ResetMsg
<1>4. \A i \in 1 .. Len(Tail(q)) :
         Head(q).tick <= Tail(q)[i].tick /\ Head(q).episode < Tail(q)[i].episode
  BY <1>1 DEF Sorted
<1>5. S <= Head(q).tick
  BY <1>1 DEF Known
<1>6. Sorted(Tail(q))
  BY <1>1 DEF Sorted
<1>7. \A e \in E : e <= Head(q).tick \/ \E i \in 1 .. Len(Tail(q)) : Tail(q)[i].tick = e
  <2> TAKE e \in E
  <2>1. CASE e <= S
    BY <1>1, <1>3, <1>5, <2>1
  <2>2. ASSUME NEW i \in 1 .. Len(q), q[i].tick = e
        PROVE  e <= Head(q).tick \/ \E j \in 1 .. Len(Tail(q)) : Tail(q)[j].tick = e
    <3>1. CASE i = 1
      BY <1>1, <1>3, <2>2, <3>1
    <3>2. CASE i # 1
      <4>1. i - 1 \in 1 .. Len(Tail(q)) /\ Tail(q)[i - 1] = q[i]
        BY <1>1, <3>2
      <4> QED  BY <2>2, <4>1
    <3> QED  BY <3>1, <3>2
  <2> QED  BY <2>1, <2>2 DEF Known
<1> QED  BY <1>1, <1>4, <1>5, <1>6, <1>7 DEF Known

(* A ResetEvent is published to a node that is not ten events behind. *)
LEMMA AppendOfResets ==
  ASSUME NEW q \in Seq(ResetMsg), Sorted(q), NEW m \in ResetMsg,
         \A i \in 1 .. Len(q) : q[i].tick <= m.tick /\ q[i].episode < m.episode
  PROVE  /\ Sorted(Append(q, m)) /\ Len(Append(q, m)) = Len(q) + 1
         /\ \A i \in 1 .. Len(Append(q, m)) :
              Append(q, m)[i] = m \/ (i \in 1 .. Len(q) /\ Append(q, m)[i] = q[i])
         /\ \A E, S : Known(E, q, S) /\ S <= m.tick => Known(E \cup {m.tick}, Append(q, m), S)
<1> DEFINE r == Append(q, m)
<1>1. /\ Len(q) \in Nat /\ Len(r) = Len(q) + 1 /\ r[Len(q) + 1] = m
      /\ \A i \in 1 .. Len(q) : r[i] = q[i]
  OBVIOUS
<1>2. \A i \in 1 .. Len(r) : i = Len(q) + 1 \/ i \in 1 .. Len(q)
  BY <1>1
<1>3. Sorted(r)
  <2> SUFFICES ASSUME NEW i \in 1 .. Len(r), NEW j \in 1 .. Len(r), i < j
               PROVE  r[i].tick <= r[j].tick /\ r[i].episode < r[j].episode
    BY DEF Sorted
  <2>1. i \in 1 .. Len(q)
    BY <1>1
  <2> HIDE DEF r
  <2> QED  BY <1>1, <1>2, <2>1 DEF Sorted
<1>4. ASSUME NEW E, NEW S, Known(E, q, S), S <= m.tick
      PROVE  Known(E \cup {m.tick}, r, S)
  <2> HIDE DEF r
  <2>1. \A e \in E \cup {m.tick} : e <= S \/ \E i \in 1 .. Len(r) : r[i].tick = e
    <3> TAKE e \in E \cup {m.tick}
    <3>1. CASE e = m.tick
      <4>1. Len(q) + 1 \in 1 .. Len(r)
        BY <1>1
      <4> QED  BY <1>1, <3>1, <4>1
    <3>2. CASE e \in E
      <4>1. e <= S \/ \E i \in 1 .. Len(q) : q[i].tick = e
        BY <1>4, <3>2 DEF Known
      <4>2. \A i \in 1 .. Len(q) : i \in 1 .. Len(r)
        BY <1>1
      <4> QED  BY <1>1, <4>1, <4>2
    <3> QED  BY <3>1, <3>2
  <2>2. \A i \in 1 .. Len(r) : S <= r[i].tick
    BY <1>1, <1>2, <1>4 DEF Known
  <2> QED  BY <2>1, <2>2 DEF Known
<1> QED  BY <1>1, <1>2, <1>3, <1>4

Episodes == {episodeTicks[i] : i \in DOMAIN episodeTicks}

(* EpisodeOf, for any starts E of the episodes so far. *)
EpisodeIn(E, k) == Cardinality({i \in DOMAIN E : E[i] <= k}) - 1

(* Two ticks of a node's episode, before all that it has still to be told of, are *)
(* ticks of one episode.                                                            *)
LEMMA SameEpisode ==
  ASSUME NEW q, NEW S \in Nat, Known(Episodes, q, S), Episodes \subseteq Nat,
         NEW j \in Nat, NEW k \in Nat, S <= j, S <= k,
         \A i \in 1 .. Len(q) : j < q[i].tick /\ k < q[i].tick
  PROVE  EpisodeIn(episodeTicks, j) = EpisodeIn(episodeTicks, k)
<1>1. \A e \in Episodes : e <= j <=> e <= k
  BY DEF Known
<1>2. {i \in DOMAIN episodeTicks : episodeTicks[i] <= j}
        = {i \in DOMAIN episodeTicks : episodeTicks[i] <= k}
  BY <1>1 DEF Episodes
<1> QED  BY <1>2 DEF EpisodeIn

(* No episode that starts later changes the episode of a tick. *)
LEMMA EpisodeStays ==
  ASSUME WorldTypeOK, NEW t \in Nat, episodeTicks' = Append(episodeTicks, t),
         NEW k \in Nat, k < t
  PROVE  EpisodeIn(episodeTicks', k) = EpisodeIn(episodeTicks, k)
<1>1. /\ Len(episodeTicks) \in Nat /\ DOMAIN episodeTicks = 1 .. Len(episodeTicks)
      /\ DOMAIN episodeTicks' = 1 .. Len(episodeTicks) + 1
      /\ episodeTicks'[Len(episodeTicks) + 1] = t
      /\ \A i \in 1 .. Len(episodeTicks) : episodeTicks'[i] = episodeTicks[i]
  BY DEF WorldTypeOK
<1>2. {i \in DOMAIN episodeTicks' : episodeTicks'[i] <= k}
        = {i \in DOMAIN episodeTicks : episodeTicks[i] <= k}
  BY <1>1
<1> QED  BY <1>2 DEF EpisodeIn


ResetSubs == {s \in Subscriptions : s[1] = "reset_event"}

(* The episodes so far, and what every node has still to be told of them. *)
EpisodeInv ==
  /\ episode <= MaxEpisode
  /\ Len(episodeTicks) = IF phase = "peers" THEN 0 ELSE episode + 1
  /\ phase = "peers" => episode = 0
  /\ \A e \in Episodes : e <= now + 1
  /\ \A s \in ResetSubs :
       /\ Sorted(queue[s]) /\ Len(queue[s]) <= Len(episodeTicks)
       /\ \A i \in 1 .. Len(queue[s]) :
            queue[s][i].tick <= now + 1 /\ queue[s][i].episode < Len(episodeTicks)

(* What localization and the controller know of the episodes. *)
PoseEpisode ==
  /\ poseStart <= now + 1
  /\ \A s \in ResetSubs : s[2] = "gt_pose" => Known(Episodes, queue[s], poseStart)

CtrlEpisode ==
  /\ ctrlStart <= now + 1 /\ ctrlEpisode < Len(episodeTicks)
  /\ \A s \in ResetSubs : s[2] = "controller" =>
       /\ Known(Episodes, queue[s], ctrlStart)
       /\ \A i \in 1 .. Len(queue[s]) : ctrlEpisode < queue[s][i].episode

(* The ResetEvents of every node are typed, and so are the episodes. *)
LEMMA ResetTypes ==
  ASSUME TypeOK
  PROVE  /\ \A s \in ResetSubs : queue[s] \in Seq(ResetMsg) /\ s = <<"reset_event", s[2]>>
         /\ Episodes \subseteq Nat
<1>1. ASSUME NEW s \in ResetSubs
      PROVE  queue[s] \in Seq(ResetMsg) /\ s = <<"reset_event", s[2]>>
  BY PayloadOf DEF TypeOK, QueueTypeOK, ResetSubs, Subscriptions
<1>2. Episodes \subseteq Nat
  BY DEF TypeOK, WorldTypeOK, Episodes
<1> QED  BY <1>1, <1>2

(* A callback of another subscription leaves the ResetEvents of a node queued. *)
LEMMA TakeOther ==
  ASSUME QueueTypeOK, NEW t, Ready(t), NEW s \in Subscriptions
  PROVE  Take(t)[s] = IF s = t THEN Tail(queue[s]) ELSE queue[s]
BY DEF QueueTypeOK, Take, Ready

(* gt_pose_node takes its ResetEvents in the one callback that starts an episode. *)
LEMMA PoseResets ==
  ASSUME TypeOK, PoseStep
  PROVE  \/ /\ PoseOnResetEvent
            /\ \A s \in ResetSubs :
                 IF s[2] = "gt_pose" THEN queue[s] # <<>> /\ queue'[s] = Tail(queue[s])
                 ELSE queue'[s] = queue[s]
         \/ UNCHANGED poseStart /\ \A s \in ResetSubs : queue'[s] = queue[s]
<1>1. QueueTypeOK
  BY DEF TypeOK
<1>2. \A s \in ResetSubs : /\ s \in Subscriptions /\ s[1] = "reset_event"
                           /\ s = <<"reset_event", s[2]>>
  BY ResetTypes DEF ResetSubs
<1>3. ASSUME NEW topic, topic # "reset_event", Ready(PoseSub(topic)),
             \/ queue' = Take(PoseSub(topic))
             \/ \E k, buf : Run(k, buf, Take(PoseSub(topic)))
      PROVE  \A s \in ResetSubs : queue'[s] = queue[s]
  <2> TAKE s \in ResetSubs
  <2>1. s # PoseSub(topic)
    BY <1>2, <1>3 DEF PoseSub
  <2>2. Take(PoseSub(topic))[s] = queue[s]
    BY <1>1, <1>2, <1>3, <2>1, TakeOther
  <2>3. \A m : Send(Take(PoseSub(topic)), "pose", m)[s] = Take(PoseSub(topic))[s]
    BY <1>2, SendOther
  <2> QED  BY <1>3, <2>2, <2>3 DEF Run
<1>4. CASE PoseOnResetEvent
  <2> DEFINE t == PoseSub("reset_event")
  <2>1. Ready(t) /\ queue' = Take(t) /\ queue[t] # <<>>
    BY <1>4 DEF PoseOnResetEvent, Ready
  <2>2. ASSUME NEW s \in ResetSubs
        PROVE  IF s[2] = "gt_pose" THEN queue[s] # <<>> /\ queue'[s] = Tail(queue[s])
               ELSE queue'[s] = queue[s]
    <3>1. s = t <=> s[2] = "gt_pose"
      BY <1>2 DEF PoseSub
    <3> QED  BY <1>1, <1>2, <2>1, <3>1, TakeOther
  <2> QED  BY <1>4, <2>2
<1>5. ASSUME NEW i \in PoseInputs, OnInput(i)
      PROVE  UNCHANGED poseStart /\ \A s \in ResetSubs : queue'[s] = queue[s]
  <2>1. i # "reset_event" /\ Ready(PoseSub(i)) /\ UNCHANGED poseStart
    BY <1>5 DEF OnInput, PoseInputs, poseVars
  <2>2. \/ queue' = Take(PoseSub(i))
        \/ \E k, buf : Run(k, buf, Take(PoseSub(i)))
    BY <1>5 DEF OnInput
  <2> QED  BY <1>3, <2>1, <2>2
<1>6. CASE PoseOnTickTimeout
  <2>1. Ready(PoseSub("tick_timeout")) /\ UNCHANGED poseStart
    BY <1>6 DEF PoseOnTickTimeout, poseVars
  <2>2. \/ queue' = Take(PoseSub("tick_timeout"))
        \/ \E k, buf : Run(k, buf, Take(PoseSub("tick_timeout")))
    BY <1>6 DEF PoseOnTickTimeout
  <2> QED  BY <1>3, <2>1, <2>2
<1> QED  BY <1>4, <1>5, <1>6 DEF PoseStep, PoseNext

(* So does the controller. *)
LEMMA CtrlResets ==
  ASSUME TypeOK, CtrlStep
  PROVE  \/ /\ CtrlOnResetEvent
            /\ \A s \in ResetSubs :
                 IF s[2] = "controller" THEN queue[s] # <<>> /\ queue'[s] = Tail(queue[s])
                 ELSE queue'[s] = queue[s]
         \/ /\ UNCHANGED <<ctrlStart, ctrlEpisode>>
            /\ \A s \in ResetSubs : queue'[s] = queue[s]
<1>1. QueueTypeOK
  BY DEF TypeOK
<1>2. \A s \in ResetSubs : /\ s \in Subscriptions /\ s[1] = "reset_event"
                           /\ s = <<"reset_event", s[2]>>
  BY ResetTypes DEF ResetSubs
<1>3. ASSUME NEW topic, topic # "reset_event", Ready(CtrlSub(topic)),
             \/ queue' = Take(CtrlSub(topic))
             \/ \E k, l : Answer(k, l, Take(CtrlSub(topic)))
      PROVE  \A s \in ResetSubs : queue'[s] = queue[s]
  <2> TAKE s \in ResetSubs
  <2>1. s # CtrlSub(topic)
    BY <1>2, <1>3 DEF CtrlSub
  <2>2. Take(CtrlSub(topic))[s] = queue[s]
    BY <1>1, <1>2, <1>3, <2>1, TakeOther
  <2>3. \A m : Send(Take(CtrlSub(topic)), "command", m)[s] = Take(CtrlSub(topic))[s]
    BY <1>2, SendOther
  <2> QED  BY <1>3, <2>2, <2>3 DEF Answer
<1>4. CASE CtrlOnResetEvent
  <2> DEFINE t == CtrlSub("reset_event")
  <2>1. Ready(t) /\ queue' = Take(t) /\ queue[t] # <<>>
    BY <1>4 DEF CtrlOnResetEvent, Ready
  <2>2. ASSUME NEW s \in ResetSubs
        PROVE  IF s[2] = "controller" THEN queue[s] # <<>> /\ queue'[s] = Tail(queue[s])
               ELSE queue'[s] = queue[s]
    <3>1. s = t <=> s[2] = "controller"
      BY <1>2 DEF CtrlSub
    <3> QED  BY <1>1, <1>2, <2>1, <3>1, TakeOther
  <2> QED  BY <1>4, <2>2
<1>5. CASE OnReferenceLine
  <2>1. /\ Ready(CtrlSub("reference_line")) /\ queue' = Take(CtrlSub("reference_line"))
        /\ UNCHANGED <<ctrlStart, ctrlEpisode>>
    BY <1>5 DEF OnReferenceLine
  <2> QED  BY <1>3, <2>1
<1>6. CASE CtrlOnPose
  <2>1. Ready(CtrlSub("pose")) /\ UNCHANGED <<ctrlStart, ctrlEpisode>>
    BY <1>6 DEF CtrlOnPose
  <2>2. queue' = Take(CtrlSub("pose")) \/ \E k, l : Answer(k, l, Take(CtrlSub("pose")))
    BY <1>6 DEF CtrlOnPose
  <2> QED  BY <1>3, <2>1, <2>2
<1>7. CASE CtrlOnTickTimeout
  <2>1. Ready(CtrlSub("tick_timeout")) /\ UNCHANGED <<ctrlStart, ctrlEpisode>>
    BY <1>7 DEF CtrlOnTickTimeout
  <2>2. \/ queue' = Take(CtrlSub("tick_timeout"))
        \/ \E k, l : Answer(k, l, Take(CtrlSub("tick_timeout")))
    BY <1>7 DEF CtrlOnTickTimeout
  <2> QED  BY <1>3, <2>1, <2>2
<1> QED  BY <1>4, <1>5, <1>6, <1>7 DEF CtrlStep, CtrlNext

(* And the route planner; the harness publishes no ResetEvent. *)
LEMMA PlanResets ==
  ASSUME TypeOK, PlanStep \/ RunnerStep
  PROVE  \A s \in ResetSubs :
           \/ queue'[s] = queue[s]
           \/ s[2] = "route_planner" /\ queue[s] # <<>> /\ queue'[s] = Tail(queue[s])
<1> SUFFICES ASSUME NEW s \in ResetSubs
             PROVE  \/ queue'[s] = queue[s]
                    \/ s[2] = "route_planner" /\ queue[s] # <<>> /\ queue'[s] = Tail(queue[s])
  OBVIOUS
<1>1. QueueTypeOK
  BY DEF TypeOK
<1>2. s \in Subscriptions /\ s[1] = "reset_event" /\ s = <<"reset_event", s[2]>>
  BY ResetTypes DEF ResetSubs
<1>3. \A q, topic, m : topic # "reset_event" => Send(q, topic, m)[s] = q[s]
  BY <1>2, SendOther
<1>4. ASSUME NEW topic, Ready(PlanSub(topic))
      PROVE  /\ topic # "reset_event" => Take(PlanSub(topic))[s] = queue[s]
             /\ \/ Take(PlanSub(topic))[s] = queue[s]
                \/ /\ s[2] = "route_planner" /\ queue[s] # <<>>
                   /\ Take(PlanSub(topic))[s] = Tail(queue[s])
  BY <1>1, <1>2, <1>4, TakeOther DEF PlanSub, Ready
<1>5. CASE RunnerStep
  BY <1>3, <1>5 DEF RunnerStep, PublishWaypoints
<1>7. ASSUME NEW k, NEW n, NEW q, Plan(k, n, q) PROVE queue'[s] = q[s]
  <2> DEFINE m == [tick |-> k, route |-> waypoints.route]
  <2>1. queue' = q \/ queue' = Send(q, "reference_line", m)
    BY <1>7 DEF Plan
  <2>2. "reference_line" # "reset_event"
    OBVIOUS
  <2> HIDE DEF m
  <2>3. Send(q, "reference_line", m)[s] = q[s]
    BY <1>3, <2>2
  <2> QED  BY <2>1, <2>3
<1>6. CASE PlanStep
  <2>1. CASE OnLaneGraph
    BY <1>4, <2>1 DEF OnLaneGraph
  <2>2. CASE PlanOnResetEvent
    BY <1>4, <2>2 DEF PlanOnResetEvent
  <2>3. CASE OnWaypoints
    BY <1>4, <2>3 DEF OnWaypoints
  <2>4. CASE PlanOnPose
    <3> DEFINE t == PlanSub("pose")
               k == Head(queue[t]).tick
    <3>1. Ready(t)
      BY <2>4 DEF PlanOnPose
    <3>2. queue' = Take(t) \/ Plan(k, offLineTicks, Take(t)) \/ CheckReroute(k, Take(t))
      BY <2>4 DEF PlanOnPose
    <3>3. CheckReroute(k, Take(t)) => queue' = Take(t) \/ \E n : Plan(k, n, Take(t))
      BY DEF CheckReroute
    <3>4. \A n : Plan(k, n, Take(t)) => queue'[s] = Take(t)[s]
      BY <1>7
    <3>5. queue'[s] = Take(t)[s]
      BY <3>2, <3>3, <3>4
    <3> HIDE DEF t
    <3>6. t = PlanSub("pose")
      BY DEF t
    <3> QED  BY <1>4, <3>1, <3>5, <3>6
  <2> QED  BY <1>6, <2>1, <2>2, <2>3, <2>4 DEF PlanStep, PlanNext
<1> QED  BY <1>5, <1>6

(* The tick thread tells every node of each new episode, and no node is so far *)
(* behind that the oldest event is dropped.                                     *)
LEMMA WorldResets ==
  ASSUME MaxEpisode < EventDepth, TypeOK, EpisodeInv, WorldStep
  PROVE  /\ phase' # "peers" \/ phase = "peers"
         /\ now' \in Nat /\ now <= now'
         /\ \/ /\ UNCHANGED <<episodeTicks, episode>> /\ (phase = "peers" <=> phase' = "peers")
               /\ \A s \in ResetSubs : queue'[s] = queue[s]
            \/ /\ episodeTicks' = Append(episodeTicks, now + 1) /\ phase' # "peers"
               /\ episode' = Len(episodeTicks) /\ episode' <= MaxEpisode
               /\ \A s \in ResetSubs :
                    queue'[s] = Append(queue[s], [tick |-> now + 1, episode |-> Len(episodeTicks)])
<1>1. /\ QueueTypeOK /\ now \in Nat /\ episode \in Nat /\ MaxEpisode \in Nat
      /\ \A s \in ResetSubs : /\ queue[s] \in Seq(ResetMsg) /\ s \in Subscriptions
                              /\ s[1] = "reset_event" /\ Len(queue[s]) <= Len(episodeTicks)
  BY ResetTypes, WorldAssumption DEF TypeOK, WorldTypeOK, ResetSubs, EpisodeInv
<1>2. \A q, topic, m : topic # "reset_event" =>
         \A s \in ResetSubs : Send(q, topic, m)[s] = q[s]
  BY <1>1, SendOther
<1>3. ASSUME Len(episodeTicks) < EventDepth, NEW m
      PROVE  \A s \in ResetSubs : Send(queue, "reset_event", m)[s] = Append(queue[s], m)
  <2> TAKE s \in ResetSubs
  <2>1. Send(queue, "reset_event", m)[s] = KeepLast(Append(queue[s], m), EventDepth)
    BY <1>1 DEF Send, Depth
  <2>2. Len(Append(queue[s], m)) = Len(queue[s]) + 1 /\ Len(queue[s]) \in Nat
    BY <1>1
  <2>3. ~ (Len(Append(queue[s], m)) > EventDepth)
    BY <1>1, <1>3, <2>2 DEF TypeOK, WorldTypeOK, EventDepth
  <2> QED  BY <2>1, <2>3 DEF KeepLast
<1>4. CASE Startup
  <2>1. Len(episodeTicks) = 0 /\ episode = 0
    BY <1>4 DEF Startup, EpisodeInv
  <2> QED  BY <1>1, <1>3, <1>4, <2>1 DEF Startup, PublishResetEvent, EventDepth
<1>5. CASE ApplyReset
  <2>1. Len(episodeTicks) = episode + 1 /\ episode < MaxEpisode
    BY <1>5 DEF ApplyReset, EpisodeInv
  <2>2. Len(episodeTicks) < EventDepth /\ episode + 1 <= MaxEpisode
    BY <1>1, <2>1 DEF EventDepth
  <2>3. \A s \in ResetSubs :
          queue'[s] = Append(queue[s], [tick |-> now + 1, episode |-> episode + 1])
    BY <1>3, <1>5, <2>2 DEF ApplyReset, PublishResetEvent
  <2> QED  BY <1>1, <1>5, <2>1, <2>2, <2>3 DEF ApplyReset, PublishResetEvent
<1>6. CASE TickWorld
  BY <1>1, <1>2, <1>6 DEF TickWorld
<1>7. CASE PassGate \/ TimeOutGate
  BY <1>1, <1>2, <1>7 DEF PassGate, TimeOutGate
<1>8. CASE OnControlCommand
  <2> DEFINE t == <<"command", "world_manager">>
  <2>1. \A s \in ResetSubs : Take(t)[s] = queue[s]
    <3> TAKE s \in ResetSubs
    <3>1. s # t
      BY <1>1
    <3> QED  BY <1>1, <1>8, <3>1, TakeOther DEF OnControlCommand
  <2> QED  BY <1>1, <1>8, <2>1 DEF OnControlCommand
<1> QED  BY <1>4, <1>5, <1>6, <1>7, <1>8 DEF WorldStep, WorldNext, TickThread

(* What any other node does to the ResetEvents: its own callback takes the oldest. *)
LEMMA NodeResets ==
  ASSUME TypeOK, PoseStep \/ CtrlStep \/ PlanStep \/ RunnerStep \/ UNCHANGED vars
  PROVE  /\ UNCHANGED worldVars
         /\ \A s \in ResetSubs : \/ queue'[s] = queue[s]
                                 \/ queue[s] # <<>> /\ queue'[s] = Tail(queue[s])
<1>1. UNCHANGED worldVars
  BY DEF PoseStep, CtrlStep, PlanStep, RunnerStep, vars
<1>2. CASE UNCHANGED vars
  BY <1>2 DEF vars
<1> QED  BY <1>1, <1>2, PoseResets, CtrlResets, PlanResets

(* EpisodeInv is inductive. *)
LEMMA EpisodeStep ==
  ASSUME MaxEpisode < EventDepth, TypeOK, EpisodeInv, [Next]_vars
  PROVE  EpisodeInv'
<1>1. /\ now \in Nat /\ episode \in Nat /\ Len(episodeTicks) \in Nat
      /\ DOMAIN episodeTicks = 1 .. Len(episodeTicks)
      /\ \A s \in ResetSubs : queue[s] \in Seq(ResetMsg)
      /\ Episodes \subseteq Nat
  BY ResetTypes DEF TypeOK, WorldTypeOK
<1>2. ASSUME NEW s \in ResetSubs, NEW i \in 1 .. Len(queue[s])
      PROVE  queue[s][i].tick \in Nat /\ queue[s][i].episode \in Nat
  <2>1. queue[s][i] \in ResetMsg
    BY <1>1
  <2> QED  BY <2>1 DEF ResetMsg
<1>3. CASE PoseStep \/ CtrlStep \/ PlanStep \/ RunnerStep \/ UNCHANGED vars
  <2>1. UNCHANGED <<now, phase, episode, episodeTicks>> /\ Episodes' = Episodes
    BY <1>3, NodeResets DEF worldVars, Episodes
  <2>2. ASSUME NEW s \in ResetSubs
        PROVE  /\ Sorted(queue'[s]) /\ Len(queue'[s]) <= Len(episodeTicks)
               /\ \A i \in 1 .. Len(queue'[s]) :
                    queue'[s][i].tick <= now + 1 /\ queue'[s][i].episode < Len(episodeTicks)
    <3>1. CASE queue'[s] = queue[s]
      BY <3>1 DEF EpisodeInv
    <3>2. CASE queue[s] # <<>> /\ queue'[s] = Tail(queue[s])
      <4>1. /\ Sorted(Tail(queue[s])) /\ Len(Tail(queue[s])) = Len(queue[s]) - 1
            /\ Len(queue[s]) \in Nat
            /\ \A i \in 1 .. Len(Tail(queue[s])) :
                 i + 1 \in 1 .. Len(queue[s]) /\ Tail(queue[s])[i] = queue[s][i + 1]
        <5>1. Sorted(queue[s]) /\ Known({}, queue[s], 0)
          BY <1>2 DEF EpisodeInv, Known
        <5>2. queue[s] \in Seq(ResetMsg) /\ {} \in SUBSET Nat /\ 0 \in Nat /\ Len(queue[s]) \in Nat
          BY <1>1
        <5> HIDE DEF EpisodeInv
        <5> QED  BY <3>2, <5>1, <5>2, TailOfResets
      <4> QED  BY <1>1, <3>2, <4>1 DEF EpisodeInv
    <3> QED  BY <1>3, <3>1, <3>2, NodeResets
  <2> QED  BY <2>1, <2>2 DEF EpisodeInv, ResetSubs
<1>4. CASE WorldStep
  <2>1. now' \in Nat /\ now <= now'
    BY <1>4, WorldResets
  <2>4. \A e \in Nat : e <= now + 1 => e <= now' + 1
    <3>1. now \in Nat
      BY <1>1
    <3>2. \A a, b, e \in Nat : a <= b /\ e <= a + 1 => e <= b + 1
      OBVIOUS
    <3> QED  BY <2>1, <3>1, <3>2
  <2>2. CASE /\ UNCHANGED <<episodeTicks, episode>> /\ (phase = "peers" <=> phase' = "peers")
             /\ \A s \in ResetSubs : queue'[s] = queue[s]
    <3>1. \A e \in Episodes : e <= now' + 1
      BY <1>1, <2>4 DEF EpisodeInv
    <3>3. Episodes' = Episodes /\ Len(episodeTicks') = Len(episodeTicks)
      BY <2>2 DEF Episodes
    <3>2. ASSUME NEW s \in ResetSubs, NEW i \in 1 .. Len(queue[s])
          PROVE  queue[s][i].tick <= now' + 1
      BY <1>1, <1>2, <2>1, <3>2 DEF EpisodeInv
    <3>4. (phase' = "peers" <=> phase = "peers") /\ episode' = episode
      BY <2>2
    <3>5. ASSUME NEW s \in ResetSubs
          PROVE  /\ Sorted(queue'[s]) /\ Len(queue'[s]) <= Len(episodeTicks')
                 /\ \A i \in 1 .. Len(queue'[s]) :
                      queue'[s][i].tick <= now' + 1 /\ queue'[s][i].episode < Len(episodeTicks')
      <4>1. queue'[s] = queue[s]
        BY <2>2
      <4> QED  BY <3>2, <3>3, <4>1 DEF EpisodeInv
    <3> QED  BY <3>1, <3>3, <3>4, <3>5 DEF EpisodeInv, ResetSubs
  <2>3. CASE /\ episodeTicks' = Append(episodeTicks, now + 1) /\ phase' # "peers"
             /\ episode' = Len(episodeTicks) /\ episode' <= MaxEpisode
             /\ \A s \in ResetSubs :
                  queue'[s] = Append(queue[s], [tick |-> now + 1, episode |-> Len(episodeTicks)])
    <3> DEFINE m == [tick |-> now + 1, episode |-> Len(episodeTicks)]
    <3>1. /\ Len(episodeTicks') = Len(episodeTicks) + 1
          /\ DOMAIN episodeTicks' = 1 .. Len(episodeTicks) + 1
          /\ \A i \in 1 .. Len(episodeTicks) : episodeTicks'[i] = episodeTicks[i]
          /\ episodeTicks'[Len(episodeTicks) + 1] = now + 1
      BY <2>3 DEF TypeOK, WorldTypeOK
    <3>2. \A e \in Episodes' : e <= now' + 1
      <4>1. \A e \in Episodes' : e \in Episodes \/ e = now + 1
        BY <1>1, <3>1 DEF Episodes
      <4>2. \A e \in Episodes : e \in Nat /\ e <= now + 1
        BY <1>1 DEF EpisodeInv
      <4>3. now \in Nat /\ now + 1 \in Nat /\ now + 1 <= now + 1
        BY <1>1
      <4> QED  BY <2>4, <4>1, <4>2, <4>3, Zenon
    <3>3. m \in ResetMsg /\ m.tick = now + 1 /\ m.episode = Len(episodeTicks)
      BY <1>1 DEF ResetMsg
    <3>4. ASSUME NEW s \in ResetSubs
          PROVE  /\ Sorted(queue'[s]) /\ Len(queue'[s]) <= Len(episodeTicks')
                 /\ \A i \in 1 .. Len(queue'[s]) :
                      queue'[s][i].tick <= now' + 1 /\ queue'[s][i].episode < Len(episodeTicks')
      <4> HIDE DEF m
      <4>1. /\ Sorted(queue[s]) /\ Len(queue[s]) \in Nat /\ Len(queue[s]) <= Len(episodeTicks)
            /\ \A i \in 1 .. Len(queue[s]) :
                 queue[s][i].tick <= m.tick /\ queue[s][i].episode < m.episode
        BY <1>1, <3>3 DEF EpisodeInv
      <4>2. queue'[s] = Append(queue[s], m)
        BY <2>3 DEF m
      <4>3. /\ Sorted(queue'[s]) /\ Len(queue'[s]) = Len(queue[s]) + 1
            /\ \A i \in 1 .. Len(queue'[s]) :
                 queue'[s][i] = m \/ (i \in 1 .. Len(queue[s]) /\ queue'[s][i] = queue[s][i])
        BY <1>1, <3>3, <4>1, <4>2, AppendOfResets
      <4>4. ASSUME NEW i \in 1 .. Len(queue'[s])
            PROVE  queue'[s][i].tick <= now' + 1 /\ queue'[s][i].episode < Len(episodeTicks')
        <5>1. CASE queue'[s][i] = m
          BY <1>1, <2>1, <3>1, <3>3, <5>1
        <5>2. CASE i \in 1 .. Len(queue[s]) /\ queue'[s][i] = queue[s][i]
          BY <1>1, <1>2, <2>1, <3>1, <3>3, <4>1, <5>2
        <5> QED  BY <4>3, <5>1, <5>2
      <4> QED  BY <1>1, <3>1, <4>1, <4>3, <4>4
    <3> QED  BY <2>3, <3>1, <3>2, <3>4 DEF EpisodeInv, ResetSubs
  <2> QED  BY <1>4, <2>2, <2>3, WorldResets
<1> QED  BY <1>3, <1>4 DEF Next, Finished

(* What a node knows of the episodes is kept by the tick thread, which announces *)
(* the next one, if any.                                                          *)
LEMMA KnownStays ==
  ASSUME MaxEpisode < EventDepth, TypeOK, EpisodeInv, WorldStep,
         NEW s \in ResetSubs, NEW S \in Nat, S <= now + 1, Known(Episodes, queue[s], S)
  PROVE  /\ Known(Episodes', queue'[s], S)
         /\ \A e \in Int :
              e < Len(episodeTicks) /\ (\A i \in 1 .. Len(queue[s]) : e < queue[s][i].episode)
                => /\ e < Len(episodeTicks')
                   /\ \A i \in 1 .. Len(queue'[s]) : e < queue'[s][i].episode
<1>1. /\ now \in Nat /\ Len(episodeTicks) \in Nat /\ queue[s] \in Seq(ResetMsg)
      /\ DOMAIN episodeTicks = 1 .. Len(episodeTicks)
  BY ResetTypes DEF TypeOK, WorldTypeOK
<1>2. CASE /\ UNCHANGED episodeTicks /\ queue'[s] = queue[s]
  <2>1. Episodes' = Episodes
    BY <1>2 DEF Episodes
  <2> QED  BY <1>2, <2>1
<1>3. CASE /\ episodeTicks' = Append(episodeTicks, now + 1)
           /\ queue'[s] = Append(queue[s], [tick |-> now + 1, episode |-> Len(episodeTicks)])
  <2> DEFINE m == [tick |-> now + 1, episode |-> Len(episodeTicks)]
  <2>1. /\ Len(episodeTicks') = Len(episodeTicks) + 1
        /\ DOMAIN episodeTicks' = 1 .. Len(episodeTicks) + 1
        /\ \A i \in 1 .. Len(episodeTicks) : episodeTicks'[i] = episodeTicks[i]
        /\ episodeTicks'[Len(episodeTicks) + 1] = now + 1
    BY <1>3 DEF TypeOK, WorldTypeOK
  <2>2. \A i : i \in 1 .. Len(episodeTicks) + 1
                 <=> i \in 1 .. Len(episodeTicks) \/ i = Len(episodeTicks) + 1
    BY <1>1
  <2>3. Episodes' = Episodes \cup {now + 1}
    BY <1>1, <2>1, <2>2 DEF Episodes
  <2>4. m \in ResetMsg /\ m.tick = now + 1 /\ m.episode = Len(episodeTicks)
    BY <1>1 DEF ResetMsg
  <2>5. queue'[s] = Append(queue[s], m)
    BY <1>3
  <2> HIDE DEF m
  <2>6. /\ Sorted(queue[s])
        /\ \A i \in 1 .. Len(queue[s]) :
             queue[s][i].tick <= m.tick /\ queue[s][i].episode < m.episode
    BY <2>4 DEF EpisodeInv
  <2>7. /\ Known(Episodes \cup {m.tick}, queue'[s], S)
        /\ \A i \in 1 .. Len(queue'[s]) :
             queue'[s][i] = m \/ (i \in 1 .. Len(queue[s]) /\ queue'[s][i] = queue[s][i])
    BY <1>1, <2>4, <2>5, <2>6, AppendOfResets
  <2>8. Known(Episodes', queue'[s], S)
    BY <2>3, <2>4, <2>7
  <2>9. ASSUME NEW e \in Int, e < Len(episodeTicks),
               \A i \in 1 .. Len(queue[s]) : e < queue[s][i].episode
        PROVE  e < Len(episodeTicks') /\ \A i \in 1 .. Len(queue'[s]) : e < queue'[s][i].episode
    BY <1>1, <2>1, <2>4, <2>7, <2>9
  <2> QED  BY <2>8, <2>9
<1> QED  BY <1>2, <1>3, WorldResets

(* gt_pose_node's episode_start_k_ is the start of an episode, and all later ones *)
(* are still queued for it.                                                        *)
LEMMA PoseEpisodeStep ==
  ASSUME MaxEpisode < EventDepth, TypeOK, EpisodeInv, PoseEpisode, [Next]_vars
  PROVE  PoseEpisode'
<1>1. /\ poseStart \in Nat /\ now \in Nat /\ Episodes \in SUBSET Nat
      /\ \A s \in ResetSubs : queue[s] \in Seq(ResetMsg) /\ s = <<"reset_event", s[2]>>
  BY ResetTypes DEF TypeOK, PoseTypeOK, WorldTypeOK
<1>2. PoseStep \/ CtrlStep \/ PlanStep \/ RunnerStep \/ UNCHANGED vars
         => UNCHANGED now /\ Episodes' = Episodes
  BY NodeResets DEF worldVars, Episodes
<1>3. CASE WorldStep
  <2>1. UNCHANGED poseStart
    BY <1>3 DEF WorldStep, poseVars
  <2>2. now' \in Nat /\ now <= now'
    BY <1>3, WorldResets
  <2>3. poseStart' <= now' + 1
    <3>1. \A a, b, c \in Nat : a <= b /\ c <= a + 1 => c <= b + 1
      OBVIOUS
    <3> QED  BY <1>1, <2>1, <2>2, <3>1 DEF PoseEpisode
  <2>4. ASSUME NEW s \in ResetSubs, s[2] = "gt_pose"
        PROVE  Known(Episodes', queue'[s], poseStart)
    BY <1>1, <1>3, <2>4, KnownStays DEF PoseEpisode
  <2> QED  BY <2>1, <2>3, <2>4 DEF PoseEpisode, ResetSubs
<1>4. CASE CtrlStep \/ PlanStep \/ RunnerStep \/ UNCHANGED vars
  <2>1. UNCHANGED poseStart
    BY <1>4 DEF CtrlStep, PlanStep, RunnerStep, vars, poseVars
  <2>2. ASSUME NEW s \in ResetSubs, s[2] = "gt_pose"
        PROVE  queue'[s] = queue[s]
    <3>1. s[2] # "controller" /\ s[2] # "route_planner"
      BY <2>2
    <3>2. CASE UNCHANGED vars
      BY <3>2 DEF vars
    <3> QED  BY <1>4, <3>1, <3>2, CtrlResets, PlanResets
  <2> QED  BY <1>2, <1>4, <2>1, <2>2 DEF PoseEpisode, ResetSubs
<1>5. CASE PoseStep
  <2>1. CASE UNCHANGED poseStart /\ \A s \in ResetSubs : queue'[s] = queue[s]
    BY <1>2, <1>5, <2>1 DEF PoseEpisode, ResetSubs
  <2>2. CASE /\ PoseOnResetEvent
             /\ \A s \in ResetSubs :
                  IF s[2] = "gt_pose" THEN queue[s] # <<>> /\ queue'[s] = Tail(queue[s])
                  ELSE queue'[s] = queue[s]
    <3> DEFINE r == PoseSub("reset_event")
    <3>1. r \in ResetSubs /\ r[2] = "gt_pose" /\ queue[r] # <<>> /\ poseStart' = Head(queue[r]).tick
      BY <2>2 DEF PoseOnResetEvent, Ready, PoseSub, ResetSubs
    <3>2. \A s \in ResetSubs : s[2] = "gt_pose" => s = r
      BY <1>1 DEF PoseSub
    <3>3. Sorted(queue[r]) /\ Known(Episodes, queue[r], poseStart)
      BY <3>1 DEF EpisodeInv, PoseEpisode
    <3>4. Known(Episodes, Tail(queue[r]), Head(queue[r]).tick)
      <4> HIDE DEF r
      <4> QED  BY <1>1, <3>1, <3>3, TailOfResets
    <3>5. Head(queue[r]).tick <= now + 1
      <4>1. 1 \in 1 .. Len(queue[r]) /\ Head(queue[r]) = queue[r][1]
        BY <1>1, <3>1
      <4> QED  BY <3>1, <4>1 DEF EpisodeInv
    <3>6. \A s \in ResetSubs : s[2] = "gt_pose" => queue'[s] = Tail(queue[r])
      BY <2>2, <3>2
    <3> HIDE DEF r
    <3> QED  BY <1>2, <1>5, <3>1, <3>4, <3>5, <3>6 DEF PoseEpisode, ResetSubs
  <2> QED  BY <1>5, <2>1, <2>2, PoseResets
<1> QED  BY <1>3, <1>4, <1>5 DEF Next, Finished

(* Nor does the controller ever drop a ResetEvent as one it knows already. *)
LEMMA CtrlEpisodeStep ==
  ASSUME MaxEpisode < EventDepth, TypeOK, EpisodeInv, CtrlEpisode, [Next]_vars
  PROVE  CtrlEpisode'
<1>1. /\ ctrlStart \in Nat /\ now \in Nat /\ Episodes \in SUBSET Nat
      /\ \A s \in ResetSubs : queue[s] \in Seq(ResetMsg) /\ s = <<"reset_event", s[2]>>
      /\ ctrlEpisode \in Int /\ Len(episodeTicks) \in Nat
  BY ResetTypes DEF TypeOK, CtrlTypeOK, WorldTypeOK
<1>2. PoseStep \/ CtrlStep \/ PlanStep \/ RunnerStep \/ UNCHANGED vars
         => UNCHANGED <<now, episodeTicks>> /\ Episodes' = Episodes
  BY NodeResets DEF worldVars, Episodes
<1>3. CASE WorldStep
  <2>1. UNCHANGED <<ctrlStart, ctrlEpisode>>
    BY <1>3 DEF WorldStep, ctrlVars
  <2>2. now' \in Nat /\ now <= now'
    BY <1>3, WorldResets
  <2>3. ctrlStart' <= now' + 1
    <3>1. \A a, b, c \in Nat : a <= b /\ c <= a + 1 => c <= b + 1
      OBVIOUS
    <3> QED  BY <1>1, <2>1, <2>2, <3>1 DEF CtrlEpisode
  <2>4. ASSUME NEW s \in ResetSubs, s[2] = "controller"
        PROVE  /\ Known(Episodes', queue'[s], ctrlStart)
               /\ \A i \in 1 .. Len(queue'[s]) : ctrlEpisode < queue'[s][i].episode
    BY <1>1, <1>3, <2>4, KnownStays DEF CtrlEpisode
  <2>5. ctrlEpisode < Len(episodeTicks')
    <3>1. Len(episodeTicks') = Len(episodeTicks) \/ Len(episodeTicks') = Len(episodeTicks) + 1
      BY <1>3, WorldResets DEF TypeOK, WorldTypeOK
    <3> QED  BY <1>1, <3>1 DEF CtrlEpisode
  <2> QED  BY <2>1, <2>3, <2>4, <2>5 DEF CtrlEpisode, ResetSubs
<1>4. CASE PoseStep \/ PlanStep \/ RunnerStep \/ UNCHANGED vars
  <2>1. UNCHANGED <<ctrlStart, ctrlEpisode>>
    BY <1>4 DEF PoseStep, PlanStep, RunnerStep, vars, ctrlVars
  <2>2. ASSUME NEW s \in ResetSubs, s[2] = "controller"
        PROVE  queue'[s] = queue[s]
    <3>1. s[2] # "gt_pose" /\ s[2] # "route_planner"
      BY <2>2
    <3>2. CASE UNCHANGED vars
      BY <3>2 DEF vars
    <3> QED  BY <1>4, <3>1, <3>2, PoseResets, PlanResets
  <2> QED  BY <1>2, <1>4, <2>1, <2>2 DEF CtrlEpisode, ResetSubs
<1>5. CASE CtrlStep
  <2>1. CASE /\ UNCHANGED <<ctrlStart, ctrlEpisode>>
             /\ \A s \in ResetSubs : queue'[s] = queue[s]
    BY <1>2, <1>5, <2>1 DEF CtrlEpisode, ResetSubs
  <2>2. CASE /\ CtrlOnResetEvent
             /\ \A s \in ResetSubs :
                  IF s[2] = "controller" THEN queue[s] # <<>> /\ queue'[s] = Tail(queue[s])
                  ELSE queue'[s] = queue[s]
    <3> DEFINE r == CtrlSub("reset_event")
    <3>1. r \in ResetSubs /\ r[2] = "controller" /\ queue[r] # <<>>
      BY <2>2 DEF CtrlOnResetEvent, Ready, CtrlSub, ResetSubs
    <3>2. \A s \in ResetSubs : s[2] = "controller" => s = r
      BY <1>1 DEF CtrlSub
    <3>3. /\ Sorted(queue[r]) /\ Known(Episodes, queue[r], ctrlStart)
          /\ 1 \in 1 .. Len(queue[r]) /\ Head(queue[r]) = queue[r][1]
          /\ \A i \in 1 .. Len(queue[r]) : ctrlEpisode < queue[r][i].episode
      BY <1>1, <3>1 DEF EpisodeInv, CtrlEpisode
    <3>4. /\ Known(Episodes, Tail(queue[r]), Head(queue[r]).tick)
          /\ \A i \in 1 .. Len(Tail(queue[r])) :
               Head(queue[r]).episode < Tail(queue[r])[i].episode
      <4> HIDE DEF r
      <4> QED  BY <1>1, <3>1, <3>3, TailOfResets
    <3>5. Head(queue[r]).tick <= now + 1 /\ Head(queue[r]).episode < Len(episodeTicks)
      BY <3>1, <3>3 DEF EpisodeInv
    <3>6. Head(queue[r]) \in ResetMsg
      BY <1>1, <3>1
    <3>7. ~ (Head(queue[r]).episode <= ctrlEpisode)
      BY <1>1, <3>3, <3>6 DEF ResetMsg
    <3>8. ctrlStart' = Head(queue[r]).tick /\ ctrlEpisode' = Head(queue[r]).episode
      BY <2>2, <3>7 DEF CtrlOnResetEvent
    <3>9. \A s \in ResetSubs : s[2] = "controller" => queue'[s] = Tail(queue[r])
      BY <2>2, <3>2
    <3> HIDE DEF r
    <3> QED  BY <1>2, <1>5, <3>4, <3>5, <3>8, <3>9 DEF CtrlEpisode, ResetSubs
  <2> QED  BY <1>5, <2>1, <2>2, CtrlResets
<1> QED  BY <1>3, <1>4, <1>5 DEF Next, Finished

(* Initially nobody was told of an episode, and there is none. *)
LEMMA EpisodeInit == Init => EpisodeInv /\ PoseEpisode /\ CtrlEpisode
<1> SUFFICES ASSUME Init PROVE EpisodeInv /\ PoseEpisode /\ CtrlEpisode
  OBVIOUS
<1>1. /\ now = 0 /\ episode = 0 /\ phase = "peers" /\ episodeTicks = <<>>
      /\ poseStart = 0 /\ ctrlStart = 0 /\ ctrlEpisode = -1 /\ MaxEpisode \in Nat
  BY WorldAssumption DEF Init, WorldInit, PoseInit, CtrlInit
<1>2. Episodes = {} /\ Len(episodeTicks) = 0
  BY <1>1 DEF Episodes
<1>3. ASSUME NEW s \in ResetSubs PROVE queue[s] = <<>>
  <2>1. s \in Subscriptions /\ s[1] # "lane_graph"
    BY DEF ResetSubs
  <2>2. queue[s] = NoMessages[s]
    BY <2>1, SendOther DEF Init
  <2> QED  BY <2>1, <2>2 DEF NoMessages
<1>4. \A s \in ResetSubs : Len(queue[s]) = 0 /\ 1 .. Len(queue[s]) = {}
  BY <1>3
<1>5. EpisodeInv
  BY <1>1, <1>2, <1>4 DEF EpisodeInv, Sorted
<1> QED  BY <1>1, <1>2, <1>4, <1>5 DEF PoseEpisode, CtrlEpisode, Known

(* x is before every ResetEvent that the node has still to be told of. *)
Before(x, node) ==
  \A s \in ResetSubs : s[2] = node => \A i \in 1 .. Len(queue[s]) : x < queue[s][i].tick

(* A tick that happened stays before them: the next event is ahead of it. *)
LEMMA BeforeStays ==
  ASSUME MaxEpisode < EventDepth, TypeOK, EpisodeInv, [Next]_vars,
         NEW x \in Nat, x <= now, NEW node, Before(x, node)
  PROVE  \A s \in ResetSubs : s[2] = node => \A i \in 1 .. Len(queue'[s]) : x < queue'[s][i].tick
<1> SUFFICES ASSUME NEW s \in ResetSubs, s[2] = node, NEW i \in 1 .. Len(queue'[s])
             PROVE  x < queue'[s][i].tick
  OBVIOUS
<1>1. /\ queue[s] \in Seq(ResetMsg) /\ Len(queue[s]) \in Nat /\ now \in Nat
      /\ \A j \in 1 .. Len(queue[s]) : x < queue[s][j].tick
  BY ResetTypes DEF TypeOK, WorldTypeOK, Before
<1>2. CASE queue'[s] = queue[s]
  BY <1>1, <1>2
<1>3. CASE queue[s] # <<>> /\ queue'[s] = Tail(queue[s])
  <2>1. i + 1 \in 1 .. Len(queue[s]) /\ Tail(queue[s])[i] = queue[s][i + 1]
    BY <1>1, <1>3
  <2> QED  BY <1>1, <1>3, <2>1
<1>4. ASSUME NEW e, queue'[s] = Append(queue[s], [tick |-> now + 1, episode |-> e])
      PROVE  x < queue'[s][i].tick
  <2> DEFINE m == [tick |-> now + 1, episode |-> e]
  <2>1. x < m.tick
    BY <1>1
  <2> HIDE DEF m
  <2>2. /\ DOMAIN Append(queue[s], m) = 1 .. Len(queue[s]) + 1
        /\ Append(queue[s], m)[Len(queue[s]) + 1] = m
        /\ \A j \in 1 .. Len(queue[s]) : Append(queue[s], m)[j] = queue[s][j]
    BY <1>1, AppendAt
  <2>3. queue'[s] = Append(queue[s], m) /\ Len(Append(queue[s], m)) = Len(queue[s]) + 1
    BY <1>1, <1>4 DEF m
  <2>4. i = Len(queue[s]) + 1 \/ i \in 1 .. Len(queue[s])
    BY <1>1, <2>3
  <2> QED  BY <1>1, <2>1, <2>2, <2>3, <2>4
<1>5. CASE WorldStep
  <2>1. queue'[s] = queue[s]
          \/ queue'[s] = Append(queue[s], [tick |-> now + 1, episode |-> Len(episodeTicks)])
    BY <1>5, WorldResets
  <2> QED  BY <1>2, <1>4, <2>1
<1>6. CASE PoseStep \/ CtrlStep \/ PlanStep \/ RunnerStep \/ UNCHANGED vars
  BY <1>2, <1>3, <1>6, NodeResets
<1> QED  BY <1>5, <1>6 DEF Next, Finished

(* The world's time does not go back, and no step changes the episode of a tick that *)
(* has happened.                                                                      *)
LEMMA EpisodeKept ==
  ASSUME MaxEpisode < EventDepth, TypeOK, EpisodeInv, [Next]_vars
  PROVE  /\ now' \in Nat /\ now <= now'
         /\ \A k \in Nat : k <= now => EpisodeIn(episodeTicks', k) = EpisodeIn(episodeTicks, k)
<1>1. now \in Nat /\ WorldTypeOK
  BY DEF TypeOK, WorldTypeOK
<1>2. CASE UNCHANGED <<now, episodeTicks>>
  BY <1>1, <1>2
<1>3. CASE WorldStep
  <2>1. now' \in Nat /\ now <= now'
    BY <1>3, WorldResets
  <2>2. CASE UNCHANGED episodeTicks
    BY <2>1, <2>2
  <2>3. CASE episodeTicks' = Append(episodeTicks, now + 1)
    <3>1. ASSUME NEW k \in Nat, k <= now
          PROVE  EpisodeIn(episodeTicks', k) = EpisodeIn(episodeTicks, k)
      <4>1. now + 1 \in Nat /\ k < now + 1
        BY <1>1, <3>1
      <4> QED  BY <1>1, <2>3, <4>1, EpisodeStays
    <3> QED  BY <2>1, <3>1
  <2> QED  BY <1>3, <2>2, <2>3, WorldResets
<1>4. CASE PoseStep \/ CtrlStep \/ PlanStep \/ RunnerStep \/ UNCHANGED vars
  BY <1>2, <1>4, NodeResets DEF worldVars
<1> QED  BY <1>3, <1>4 DEF Next, Finished

-------------------------------------------------------------------------------
(* ---- the line of the episode -------------------------------------------- *)

(* The controller's line was planned in its episode, before all episodes that it  *)
(* has still to be told of; and so was the line of every command it has published. *)
LineInv ==
  /\ line # NoLine => line.tick \in ctrlStart .. now /\ Before(line.tick, "controller")
  /\ \A i \in 1 .. Len(answers) :
       answers[i].line # NoLine =>
         /\ answers[i].line.tick <= now
         /\ EpisodeIn(episodeTicks, answers[i].line.tick)
              = EpisodeIn(episodeTicks, answers[i].tick)

(* What the callbacks of the controller take is of its episode, once they use it. *)
LEMMA OwnEpisode ==
  ASSUME ResetFirst, IInv, NEW topic \in {"pose", "reference_line", "tick_timeout"},
         Ready(CtrlSub(topic)), ~ CtrlBeforeEpisode(Head(queue[CtrlSub(topic)]).tick)
  PROVE  /\ Head(queue[CtrlSub(topic)]).tick \in ctrlStart .. now
         /\ Head(queue[CtrlSub(topic)]).tick \in Nat
         /\ Before(Head(queue[CtrlSub(topic)]).tick, "controller")
         /\ CtrlSub("reset_event") \in ResetSubs
<1> DEFINE k == Head(queue[CtrlSub(topic)]).tick
<1>1. /\ QueueTypeOK /\ now \in Nat /\ ctrlStart \in Nat /\ Flow(queue, now, Answered)
      /\ \A s \in ResetSubs : s = <<"reset_event", s[2]>>
  BY ResetTypes DEF IInv, TypeOK, WorldTypeOK, CtrlTypeOK, GateInv
<1>2. CtrlSub(topic)[1] = topic /\ topic \in WorldTopics /\ CtrlSub(topic)[2] = "controller"
  BY DEF CtrlSub, WorldTopics
<1>3. k \in 1 .. now /\ k \in Nat
  BY <1>1, <1>2, HeadType, HeadFlow
<1>4. k >= ctrlStart
  BY <1>1, <1>3 DEF CtrlBeforeEpisode
<1>5. \A i \in 1 .. Len(queue[CtrlSub("reset_event")]) :
         k < queue[CtrlSub("reset_event")][i].tick
  BY <1>2 DEF Ready, CtrlSub
<1>6. \A s \in ResetSubs : s[2] = "controller" => s = CtrlSub("reset_event")
  BY <1>1 DEF CtrlSub
<1>7. CtrlSub("reset_event") \in ResetSubs
  <2>1. CtrlSub(topic) \in Subscriptions
    BY DEF Ready
  <2> QED  BY <1>2, <2>1 DEF ResetSubs, Subscriptions, CtrlSub, TopicNames, Subscribers, AllNodes
<1> HIDE DEF k
<1>8. Before(k, "controller")
  BY <1>5, <1>6 DEF Before
<1> QED  BY <1>1, <1>3, <1>4, <1>7, <1>8 DEF k

(* A command follows the line that the controller has, planned in the tick's episode. *)
LEMMA AnswerLine ==
  ASSUME ResetFirst, IInv, EpisodeInv, CtrlEpisode, LineInv, line # NoLine,
         NEW topic \in {"pose", "tick_timeout"}, Ready(CtrlSub(topic)),
         ~ CtrlBeforeEpisode(Head(queue[CtrlSub(topic)]).tick)
  PROVE  EpisodeIn(episodeTicks, line.tick)
           = EpisodeIn(episodeTicks, Head(queue[CtrlSub(topic)]).tick)
<1> DEFINE k == Head(queue[CtrlSub(topic)]).tick
           r == CtrlSub("reset_event")
<1>1. /\ k \in ctrlStart .. now /\ k \in Nat /\ Before(k, "controller") /\ r \in ResetSubs
  BY OwnEpisode
<1>2. line.tick \in ctrlStart .. now /\ line.tick \in Nat /\ Before(line.tick, "controller")
  BY DEF LineInv, IInv, TypeOK, CtrlTypeOK, Lines
<1>3. ctrlStart \in Nat /\ now \in Nat /\ Episodes \subseteq Nat
  BY ResetTypes DEF IInv, TypeOK, CtrlTypeOK, WorldTypeOK
<1>4. r[2] = "controller"
  BY DEF CtrlSub
<1>5. Known(Episodes, queue[r], ctrlStart)
  BY <1>1, <1>4 DEF CtrlEpisode
<1>6. \A i \in 1 .. Len(queue[r]) : line.tick < queue[r][i].tick /\ k < queue[r][i].tick
  BY <1>1, <1>2, <1>4 DEF Before
<1>7. ctrlStart <= line.tick /\ ctrlStart <= k
  BY <1>1, <1>2, <1>3
<1> HIDE DEF k, r
<1>8. EpisodeIn(episodeTicks, line.tick) = EpisodeIn(episodeTicks, k)
  BY <1>1, <1>2, <1>3, <1>5, <1>6, <1>7, SameEpisode
<1> QED  BY <1>8 DEF k

(* LineInv is inductive. *)
LEMMA LineStep ==
  ASSUME ResetFirst, MaxEpisode < EventDepth, IInv, EpisodeInv, CtrlEpisode, LineInv,
         [Next]_vars
  PROVE  LineInv'
<1>1. /\ TypeOK /\ now \in Nat /\ ctrlStart \in Nat /\ line.tick \in Nat
      /\ answers \in Seq([tick : Nat, line : Lines]) /\ Len(answers) \in Nat
  BY DEF IInv, TypeOK, WorldTypeOK, CtrlTypeOK, Lines
<1>2. /\ now' \in Nat /\ now <= now'
      /\ \A k \in Nat : k <= now => EpisodeIn(episodeTicks', k) = EpisodeIn(episodeTicks, k)
  BY <1>1, EpisodeKept
<1>3. ASSUME NEW i \in 1 .. Len(answers)
      PROVE  /\ answers[i].tick \in Nat /\ answers[i].tick <= now
             /\ answers[i].line.tick \in Nat
  <2> DEFINE Commands == [tick : Nat, line : Lines]
  <2>1. answers[i] \in Commands /\ i \in DOMAIN answers
    <3>1. answers \in Seq(Commands)
      BY <1>1
    <3> HIDE DEF Commands
    <3> QED  BY <3>1
  <2>2. answers[i].tick \in Answered
    BY <2>1 DEF Answered
  <2> QED  BY <2>1, <2>2 DEF IInv, GateInv, Lines
<1>4. ASSUME NEW x \in Nat, x <= now, Before(x, "controller")
      PROVE  \A s \in ResetSubs : s[2] = "controller" =>
               \A i \in 1 .. Len(queue'[s]) : x < queue'[s][i].tick
  BY <1>1, <1>4, BeforeStays
<1> DEFINE Good(a) == a.line # NoLine =>
                        /\ a.line.tick <= now'
                        /\ EpisodeIn(episodeTicks', a.line.tick)
                             = EpisodeIn(episodeTicks', a.tick)
(* the commands published earlier *)
<1>5. ASSUME NEW i \in 1 .. Len(answers) PROVE Good(answers[i])
  <2> SUFFICES ASSUME answers[i].line # NoLine PROVE Good(answers[i])
    OBVIOUS
  <2> DEFINE a == answers[i].line.tick
             b == answers[i].tick
  <2>1. a <= now /\ b <= now /\ a \in Nat /\ b \in Nat
    BY <1>3 DEF LineInv
  <2>2. EpisodeIn(episodeTicks, a) = EpisodeIn(episodeTicks, b)
    BY DEF LineInv
  <2>3. EpisodeIn(episodeTicks', a) = EpisodeIn(episodeTicks', b)
    BY <1>2, <2>1, <2>2
  <2>4. a <= now'
    BY <1>1, <1>2, <2>1
  <2> QED  BY <2>3, <2>4
(* the line that the controller keeps *)
<1>6. ASSUME line' = line, ctrlStart' = ctrlStart, line # NoLine
      PROVE  line'.tick \in ctrlStart' .. now' /\ Before(line.tick, "controller")'
  <2>1. line.tick \in ctrlStart .. now /\ Before(line.tick, "controller")
    BY <1>6 DEF LineInv
  <2>2. line'.tick \in ctrlStart' .. now'
    BY <1>1, <1>2, <1>6, <2>1
  <2>3. \A s \in ResetSubs : s[2] = "controller" =>
          \A i \in 1 .. Len(queue'[s]) : line.tick < queue'[s][i].tick
    BY <1>1, <1>4, <2>1
  <2> QED  BY <1>6, <2>2, <2>3 DEF Before, ResetSubs
<1>7. CASE answers' = answers /\ line' = line /\ ctrlStart' = ctrlStart
  BY <1>5, <1>6, <1>7 DEF LineInv
<1>8. CASE CtrlOnResetEvent
  <2>1. answers' = answers /\ (line' = NoLine \/ (line' = line /\ ctrlStart' = ctrlStart))
    BY <1>8 DEF CtrlOnResetEvent, ctrlVars
  <2> QED  BY <1>5, <1>6, <2>1 DEF LineInv
<1>9. CASE OnReferenceLine
  <2> DEFINE l == Head(queue[CtrlSub("reference_line")])
  <2>1. answers' = answers /\ ctrlStart' = ctrlStart
    BY <1>9 DEF OnReferenceLine
  <2>2. CASE CtrlBeforeEpisode(l.tick)
    <3>1. line' = line
      BY <1>9, <2>2 DEF OnReferenceLine
    <3> QED  BY <1>7, <2>1, <3>1
  <2>3. CASE ~ CtrlBeforeEpisode(l.tick)
    <3>1. line' = l /\ Ready(CtrlSub("reference_line"))
      BY <1>9, <2>3 DEF OnReferenceLine
    <3>2. l.tick \in ctrlStart .. now /\ l.tick \in Nat /\ Before(l.tick, "controller")
      BY <2>3, <3>1, OwnEpisode
    <3> HIDE DEF l
    <3>3. line'.tick \in ctrlStart' .. now'
      BY <1>1, <1>2, <2>1, <3>1, <3>2
    <3>4. \A s \in ResetSubs : s[2] = "controller" =>
            \A i \in 1 .. Len(queue'[s]) : line'.tick < queue'[s][i].tick
      BY <1>1, <1>4, <3>1, <3>2
    <3>5. Before(line.tick, "controller")'
      BY <3>4 DEF Before, ResetSubs
    <3> QED  BY <1>5, <2>1, <3>3, <3>5 DEF LineInv
  <2> QED  BY <2>2, <2>3
<1>10. ASSUME NEW topic \in {"pose", "tick_timeout"}, Ready(CtrlSub(topic)),
              UNCHANGED <<line, ctrlStart>>,
              NEW k, k = Head(queue[CtrlSub(topic)]).tick, ~ Settled(k),
              NEW l, l = line \/ l = NoLine,
              answers' = Append(answers, [tick |-> k, line |-> l])
       PROVE  LineInv'
  <2> DEFINE a == [tick |-> k, line |-> l]
  <2>1. ~ CtrlBeforeEpisode(k)
    BY <1>10 DEF Settled
  <2>2. k \in ctrlStart .. now /\ k \in Nat
    BY <1>10, <2>1, OwnEpisode
  <2>3. Good(a)
    <3> SUFFICES ASSUME l # NoLine PROVE Good(a)
      OBVIOUS
    <3>1. l = line /\ line # NoLine
      BY <1>10
    <3>2. EpisodeIn(episodeTicks, line.tick) = EpisodeIn(episodeTicks, k)
      BY <1>10, <2>1, <3>1, AnswerLine
    <3>3. line.tick <= now /\ k <= now
      BY <1>1, <2>2, <3>1 DEF LineInv
    <3>4. EpisodeIn(episodeTicks', line.tick) = EpisodeIn(episodeTicks', k)
      BY <1>1, <1>2, <2>2, <3>2, <3>3
    <3>5. line.tick <= now'
      BY <1>1, <1>2, <3>3
    <3> QED  BY <3>1, <3>4, <3>5
  <2> HIDE DEF a, Good
  <2>4. /\ DOMAIN answers' = 1 .. Len(answers) + 1 /\ Len(answers') = Len(answers) + 1
        /\ answers'[Len(answers) + 1] = a
        /\ \A i \in 1 .. Len(answers) : answers'[i] = answers[i]
    <3>1. answers' = Append(answers, a)
      BY <1>10 DEF a
    <3>2. Len(Append(answers, a)) = Len(answers) + 1
      BY <1>1
    <3> QED  BY <1>1, <3>1, <3>2, AppendAt
  <2>5. \A i \in 1 .. Len(answers') : i \in 1 .. Len(answers) \/ i = Len(answers) + 1
    BY <1>1, <2>4
  <2>6. \A i \in 1 .. Len(answers') : Good(answers'[i])
    BY <1>5, <2>3, <2>4, <2>5
  <2> QED  BY <1>6, <1>10, <2>6 DEF LineInv, Good
<1>11. CASE CtrlOnPose
  <2> DEFINE p == Head(queue[CtrlSub("pose")])
  <2>1. Ready(CtrlSub("pose")) /\ UNCHANGED <<line, ctrlStart>>
    BY <1>11 DEF CtrlOnPose
  <2>2. CASE Settled(p.tick) /\ UNCHANGED answers
    BY <1>7, <2>1, <2>2
  <2>3. CASE ~ Settled(p.tick)
    <3>1. answers' = Append(answers, [tick |-> p.tick, line |-> IF p.valid THEN line ELSE NoLine])
      BY <1>11, <2>3 DEF CtrlOnPose, Answer
    <3> QED  BY <1>10, <2>1, <2>3, <3>1
  <2> QED  BY <1>11, <2>2, <2>3 DEF CtrlOnPose
<1>12. CASE CtrlOnTickTimeout
  <2> DEFINE k == Head(queue[CtrlSub("tick_timeout")]).tick
  <2>1. Ready(CtrlSub("tick_timeout")) /\ UNCHANGED <<line, ctrlStart>>
    BY <1>12 DEF CtrlOnTickTimeout
  <2>2. CASE Settled(k) /\ UNCHANGED answers
    BY <1>7, <2>1, <2>2
  <2>3. CASE ~ Settled(k)
    <3>1. answers' = Append(answers, [tick |-> k, line |-> NoLine])
      BY <1>12, <2>3 DEF CtrlOnTickTimeout, Answer
    <3> QED  BY <1>10, <2>1, <2>3, <3>1
  <2> QED  BY <1>12, <2>2, <2>3 DEF CtrlOnTickTimeout
<1>13. CASE WorldStep \/ PoseStep \/ PlanStep \/ RunnerStep \/ UNCHANGED vars
  BY <1>7, <1>13 DEF WorldStep, PoseStep, PlanStep, RunnerStep, vars, ctrlVars
<1> QED
  BY <1>8, <1>9, <1>11, <1>12, <1>13 DEF Next, Finished, CtrlStep, CtrlNext

(* Every command follows a line planned in the episode of its tick, for every number *)
(* of nodes, ticks and timeouts and up to nine resets, if a ResetEvent overtakes no   *)
(* data: OnResetEvent drops the last line, OnReferenceLine those that come late.      *)
THEOREM FollowsLineHolds ==
  ASSUME ResetFirst, MaxEpisode < EventDepth
  PROVE  Spec => []FollowsLineOfEpisode
<1> DEFINE Inv == IInv /\ EpisodeInv /\ CtrlEpisode /\ LineInv
<1>1. Init => Inv
  <2>1. Init => LineInv
    BY DEF Init, CtrlInit, LineInv
  <2> QED  BY <2>1, InitType, InitGate, EpisodeInit DEF IInv
<1>2. Inv /\ [Next]_vars => Inv'
  BY StepGate, EpisodeStep, CtrlEpisodeStep, LineStep DEF IInv
<1>3. Inv => FollowsLineOfEpisode
  <2> SUFFICES ASSUME Inv PROVE FollowsLineOfEpisode
    OBVIOUS
  <2>1. DOMAIN answers = 1 .. Len(answers)
    BY AppendAt DEF IInv, TypeOK, CtrlTypeOK
  <2> QED  BY <2>1 DEF LineInv, FollowsLineOfEpisode, EpisodeOf, EpisodeIn
<1> QED  BY <1>1, <1>2, <1>3, PTL DEF Spec

-------------------------------------------------------------------------------
(* ---- gt_pose_node falls back only where a timeout was reported ----------- *)

(* TimedOut and Flagged, for any verdicts V and any starts E of the episodes. *)
Failed(V, k) == k \in DOMAIN V /\ V[k] = "error"

FlaggedIn(V, E, k) ==
  \E j \in 1 .. k : Failed(V, j) /\ EpisodeIn(E, j) = EpisodeIn(E, k)

(* A degraded input was degraded at a tick of the episode that has its pose already, *)
(* and a pose without a steering angle tells of the timeout that explains it.         *)
FallbackInv ==
  /\ lastPublished <= now
  /\ \A i \in PoseInputs : barrier.latest[i] # NoTick => barrier.latest[i] \in buffer[i]
  /\ barrier.degraded # {} => \E j \in poseStart .. lastPublished : Failed(verdict, j)
  /\ \A s \in Subscriptions : s[1] = "tick_timeout" =>
       \A m \in Contents(queue[s]) : Failed(verdict, m.tick)
  /\ \A s \in Subscriptions : s = CtrlSub("pose") =>
       \A m \in Contents(queue[s]) : ~ m.steering => FlaggedIn(verdict, episodeTicks, m.tick)

(* The verdict of a tick is final. *)
LEMMA FailedStays ==
  ASSUME TypeOK, [Next]_vars, NEW k, Failed(verdict, k)
  PROVE  Failed(verdict', k)
<1>1. verdict \in Seq({"ok", "error"})
  BY DEF TypeOK, WorldTypeOK
<1>2. verdict' = verdict \/ \E v : verdict' = Append(verdict, v)
  BY DEF Next, WorldStep, PoseStep, CtrlStep, PlanStep, RunnerStep, Finished, vars,
         worldVars, WorldNext, TickThread, Startup, ApplyReset, TickWorld, PassGate,
         TimeOutGate, OnControlCommand
<1>3. ASSUME NEW v, verdict' = Append(verdict, v) PROVE Failed(verdict', k)
  BY <1>1, <1>3, AppendAt DEF Failed
<1> QED  BY <1>2, <1>3 DEF Failed

(* So a tick that is explained stays so. *)
LEMMA FlaggedStays ==
  ASSUME MaxEpisode < EventDepth, TypeOK, EpisodeInv, [Next]_vars,
         NEW k \in Nat, k <= now, FlaggedIn(verdict, episodeTicks, k)
  PROVE  FlaggedIn(verdict', episodeTicks', k)
<1>1. PICK j \in 1 .. k :
        Failed(verdict, j) /\ EpisodeIn(episodeTicks, j) = EpisodeIn(episodeTicks, k)
  BY DEF FlaggedIn
<1>2. j \in Nat /\ j <= now /\ now \in Nat
  BY DEF TypeOK, WorldTypeOK
<1>3. EpisodeIn(episodeTicks', j) = EpisodeIn(episodeTicks', k)
  BY <1>1, <1>2, EpisodeKept
<1> QED  BY <1>1, <1>3, FailedStays DEF FlaggedIn

(* world_manager publishes a TickTimeout with the verdict that it reports, no pose. *)
LEMMA WorldSends ==
  ASSUME IInv, WorldStep, NEW s \in Subscriptions, NEW m \in Contents(queue'[s])
  PROVE  /\ s[1] \in {"pose", "waypoints", "reference_line"} => m \in Contents(queue[s])
         /\ s[1] = "tick_timeout" =>
              m \in Contents(queue[s]) \/ (m.tick = now /\ Failed(verdict', now))
<1>1. /\ QueueTypeOK /\ QueueType(queue) /\ now \in Nat
      /\ verdict \in Seq({"ok", "error"}) /\ VerdictPerTick
  BY QueueTypeIsQueueTypeOK DEF IInv, TypeOK, WorldTypeOK, GateInv
<1>2. CASE Startup \/ ApplyReset
  <2>1. \E r : queue' = Send(queue, "reset_event", r)
    BY <1>2 DEF Startup, ApplyReset, PublishResetEvent
  <2> QED  BY <2>1, SendOther
<1>3. CASE TickWorld
  <2>1. \E r : queue' = Send(Send(queue, "ego_odom", r), "vehicle_state", r)
    BY <1>3 DEF TickWorld
  <2> QED  BY <2>1, SendOther
<1>4. CASE PassGate
  BY <1>4 DEF PassGate
<1>5. CASE OnControlCommand
  BY <1>1, <1>5, TakeType DEF OnControlCommand
<1>6. CASE TimeOutGate
  <2> DEFINE t == [tick |-> now]
  <2>1. queue' = Send(queue, "tick_timeout", t) /\ verdict' = Append(verdict, "error")
    BY <1>6 DEF TimeOutGate
  <2>2. t \in Payload("tick_timeout") /\ t.tick = now
    BY <1>1, PayloadOf, StampAt
  <2>3. Failed(verdict', now)
    <3>1. Len(verdict) + 1 = now
      BY <1>1, <1>6 DEF TimeOutGate, VerdictPerTick
    <3>2. now \in 1 .. Len(verdict) + 1
      BY <1>1, <3>1
    <3> QED  BY <1>1, <2>1, <3>1, <3>2, AppendAt DEF Failed
  <2> HIDE DEF t
  <2>4. s[1] = "tick_timeout" => m \in Contents(queue[s]) \cup {t}
    BY <1>1, <2>1, <2>2, SendContents
  <2>5. s[1] # "tick_timeout" => m \in Contents(queue[s])
    BY <2>1, SendOther
  <2> QED  BY <2>2, <2>3, <2>4, <2>5
<1> QED
  BY <1>2, <1>3, <1>4, <1>5, <1>6 DEF WorldStep, WorldNext, TickThread

(* The poses queued for the controller stay explained when no pose is published. *)
LEMMA FallbackKept ==
  ASSUME MaxEpisode < EventDepth, IInv, EpisodeInv, FallbackInv, [Next]_vars
  PROVE  /\ \A s \in Subscriptions :
              s = CtrlSub("pose") /\ Contents(queue'[s]) \subseteq Contents(queue[s]) =>
                \A m \in Contents(queue'[s]) :
                  ~ m.steering => FlaggedIn(verdict', episodeTicks', m.tick)
         /\ \A s \in Subscriptions :
              s[1] = "tick_timeout" /\ Contents(queue'[s]) \subseteq Contents(queue[s]) =>
                \A m \in Contents(queue'[s]) : Failed(verdict', m.tick)
<1>1. TypeOK /\ QueueTypeOK /\ now \in Nat /\ Flow(queue, now, Answered)
  BY DEF IInv, TypeOK, WorldTypeOK, GateInv
<1>2. ASSUME NEW s \in Subscriptions, s = CtrlSub("pose"), NEW m \in Contents(queue[s]),
             ~ m.steering
      PROVE  FlaggedIn(verdict', episodeTicks', m.tick)
  <2>1. s[1] \in WorldTopics
    BY <1>2 DEF CtrlSub, WorldTopics
  <2>2. m.tick \in 1 .. now
    BY <1>1, <2>1 DEF Flow
  <2>3. m.tick \in Nat /\ m.tick <= now
    BY <1>1, <2>2
  <2>4. FlaggedIn(verdict, episodeTicks, m.tick)
    BY <1>2 DEF FallbackInv
  <2> QED  BY <1>1, <2>3, <2>4, FlaggedStays
<1>3. ASSUME NEW s \in Subscriptions, s[1] = "tick_timeout", NEW m \in Contents(queue[s])
      PROVE  Failed(verdict', m.tick)
  BY <1>1, <1>3, FailedStays DEF FallbackInv
<1> QED  BY <1>2, <1>3

(* What the callbacks of gt_pose_node take is of its episode, once they use it. *)
LEMMA PoseOwnEpisode ==
  ASSUME ResetFirst, IInv, NEW topic \in PoseInputs \cup {"tick_timeout"},
         Ready(PoseSub(topic))
  PROVE  /\ Head(queue[PoseSub(topic)]).tick \in 1 .. now
         /\ Before(Head(queue[PoseSub(topic)]).tick, "gt_pose")
         /\ PoseSub("reset_event") \in ResetSubs
<1> DEFINE k == Head(queue[PoseSub(topic)]).tick
<1>1. /\ QueueTypeOK /\ Flow(queue, now, Answered)
      /\ \A s \in ResetSubs : s = <<"reset_event", s[2]>>
  BY ResetTypes DEF IInv, TypeOK, GateInv
<1>2. /\ PoseSub(topic)[1] = topic /\ topic \in WorldTopics /\ PoseSub(topic)[2] = "gt_pose"
      /\ topic \notin {"reset_event", "command"}
  BY DEF PoseSub, WorldTopics, PoseInputs
<1>3. k \in 1 .. now
  BY <1>1, <1>2, HeadFlow
<1>4. \A i \in 1 .. Len(queue[PoseSub("reset_event")]) :
         k < queue[PoseSub("reset_event")][i].tick
  BY <1>2 DEF Ready, PoseSub
<1>5. \A s \in ResetSubs : s[2] = "gt_pose" => s = PoseSub("reset_event")
  BY <1>1 DEF PoseSub
<1>6. PoseSub("reset_event") \in ResetSubs
  <2>1. PoseSub(topic) \in Subscriptions
    BY DEF Ready
  <2> QED  BY <1>2, <2>1 DEF ResetSubs, Subscriptions, PoseSub, TopicNames, Subscribers, AllNodes
<1> HIDE DEF k
<1>7. Before(k, "gt_pose")
  BY <1>4, <1>5 DEF Before
<1> QED  BY <1>3, <1>6, <1>7 DEF k

(* A tick of gt_pose_node's episode that comes after a reported one is explained. *)
LEMMA DegradedIsFlagged ==
  ASSUME IInv, PoseEpisode, FallbackInv, barrier.degraded # {},
         PoseSub("reset_event") \in ResetSubs,
         NEW k \in 1 .. now, k > lastPublished, k >= poseStart, Before(k, "gt_pose")
  PROVE  FlaggedIn(verdict, episodeTicks, k)
<1> DEFINE r == PoseSub("reset_event")
<1>1. /\ now \in Nat /\ poseStart \in Nat /\ lastPublished \in Int /\ Episodes \subseteq Nat
      /\ verdict \in Seq({"ok", "error"})
  BY ResetTypes DEF IInv, TypeOK, WorldTypeOK, PoseTypeOK
<1>2. PICK j \in poseStart .. lastPublished : Failed(verdict, j)
  BY DEF FallbackInv
<1>3. j \in Nat /\ j < k /\ k \in Nat /\ poseStart <= j /\ j \in 1 .. k
  <2>1. j \in DOMAIN verdict /\ DOMAIN verdict = 1 .. Len(verdict)
    BY <1>1, <1>2 DEF Failed
  <2> QED  BY <1>1, <2>1
<1>4. r[2] = "gt_pose"
  BY DEF PoseSub
<1>5. Known(Episodes, queue[r], poseStart)
  BY <1>4 DEF PoseEpisode
<1>6. queue[r] \in Seq(ResetMsg)
  BY ResetTypes DEF IInv
<1>7. \A i \in 1 .. Len(queue[r]) : j < queue[r][i].tick /\ k < queue[r][i].tick
  <2> TAKE i \in 1 .. Len(queue[r])
  <2>1. queue[r][i] \in ResetMsg
    BY <1>6
  <2>2. queue[r][i].tick \in Nat /\ k < queue[r][i].tick
    BY <1>4, <2>1 DEF Before, ResetMsg
  <2> QED  BY <1>3, <2>2
<1> HIDE DEF r
<1>8. EpisodeIn(episodeTicks, j) = EpisodeIn(episodeTicks, k)
  BY <1>1, <1>3, <1>5, <1>7, SameEpisode
<1> QED  BY <1>2, <1>3, <1>8 DEF FlaggedIn

(* The one pose that a callback publishes is complete, or explained. *)
LEMMA RunFallback ==
  ASSUME MaxEpisode < EventDepth, IInv, EpisodeInv, FallbackInv, PoseStep,
         NEW t, Ready(t), NEW k \in 1 .. now, NEW buf, Run(k, buf, Take(t)),
         k > lastPublished =>
           (\A i \in PoseInputs : k \in buf[i]) \/ FlaggedIn(verdict, episodeTicks, k)
  PROVE  /\ \A s \in Subscriptions : s = CtrlSub("pose") =>
              \A m \in Contents(queue'[s]) :
                ~ m.steering => FlaggedIn(verdict', episodeTicks', m.tick)
         /\ lastPublished' \in Int /\ lastPublished <= lastPublished' /\ lastPublished' <= now
         /\ k <= lastPublished'
<1>1. /\ TypeOK /\ QueueTypeOK /\ now \in Nat /\ lastPublished \in Int /\ [Next]_vars
      /\ UNCHANGED <<verdict, episodeTicks>> /\ lastPublished <= now
  BY DEF IInv, TypeOK, WorldTypeOK, PoseTypeOK, Next, PoseStep, worldVars, FallbackInv
<1>2. /\ QueueType(Take(t))
      /\ \A s \in Subscriptions : Contents(Take(t)[s]) \subseteq Contents(queue[s])
  BY <1>1, TakeType
<1>3. /\ lastPublished' \in Int /\ lastPublished <= lastPublished' /\ lastPublished' <= now
      /\ k <= lastPublished'
  BY <1>1 DEF Run
<1>4. CASE queue' = Take(t)
  BY <1>1, <1>2, <1>3, <1>4, FallbackKept
<1>5. CASE k > lastPublished /\ queue' = Send(Take(t), "pose", PoseOf(k, buf))
  <2> DEFINE p == PoseOf(k, buf)
  <2>1. p \in Payload("pose")
    BY <1>1, PoseOfType, PayloadOf
  <2>2. p.tick = k /\ (p.steering <=> \A i \in PoseInputs : k \in buf[i])
    BY DEF PoseOf
  <2> HIDE DEF p
  <2>3. ASSUME NEW s \in Subscriptions, s = CtrlSub("pose"), NEW m \in Contents(queue'[s]),
               ~ m.steering
        PROVE  FlaggedIn(verdict', episodeTicks', m.tick)
    <3>1. m \in Contents(queue[s]) \/ m = p
      <4>1. queue'[s] = Send(Take(t), "pose", p)[s]
        BY <1>5 DEF p
      <4>2. Contents(Send(Take(t), "pose", p)[s]) \subseteq Contents(Take(t)[s]) \cup {p}
        BY <1>2, <2>1, SendContents
      <4> QED  BY <1>2, <2>3, <4>1, <4>2
    <3>2. CASE m \in Contents(queue[s])
      BY <1>1, <2>3, <3>2 DEF FallbackInv
    <3>3. CASE m = p
      BY <1>1, <1>5, <2>2, <2>3, <3>3
    <3> QED  BY <3>1, <3>2, <3>3
  <2> QED  BY <1>3, <2>3
<1> QED  BY <1>4, <1>5 DEF Run

(* FallbackInv is kept by the callbacks of gt_pose_node. *)
LEMMA FallbackPoseStep ==
  ASSUME ResetFirst, MaxEpisode < EventDepth, IInv, EpisodeInv, PoseEpisode, FallbackInv,
         PoseStep
  PROVE  FallbackInv'
<1>1. /\ TypeOK /\ QueueTypeOK /\ now \in Nat /\ lastPublished \in Int /\ poseStart \in Nat
      /\ [Next]_vars /\ UNCHANGED <<now, verdict, episodeTicks>>
      /\ barrier \in Barrier(Nat) /\ buffer \in [PoseInputs -> SUBSET Nat]
      /\ verdict \in Seq({"ok", "error"})
  BY DEF IInv, TypeOK, WorldTypeOK, PoseTypeOK, Next, PoseStep, worldVars
<1>2. \A s \in Subscriptions : s[1] = "tick_timeout" =>
         \A m \in Contents(queue'[s]) : Failed(verdict', m.tick)
  <2> TAKE s \in Subscriptions
  <2>1. s[1] = "tick_timeout" => s[1] # "pose"
    OBVIOUS
  <2> QED  BY <1>1, <2>1, PoseSends, FallbackKept
<1>3. CASE PoseOnResetEvent
  <2> DEFINE r == PoseSub("reset_event")
             k == Head(queue[r]).tick
  <2>1. Ready(r) /\ queue' = Take(r) /\ r \in ResetSubs
    BY <1>3 DEF PoseOnResetEvent, Ready, PoseSub, ResetSubs
  <2>2. /\ barrier' = BarrierReset /\ lastPublished' = k - 1
    BY <1>3 DEF PoseOnResetEvent
  <2>3. k \in Nat /\ k <= now + 1
    <3>1. queue[r] \in Seq(ResetMsg) /\ queue[r] # <<>>
      BY <1>1, <2>1, ResetTypes DEF Ready
    <3>2. 1 \in 1 .. Len(queue[r]) /\ Head(queue[r]) = queue[r][1] /\ Head(queue[r]) \in ResetMsg
      BY <3>1
    <3> QED  BY <2>1, <3>2 DEF EpisodeInv, ResetMsg
  <2>4. barrier'.degraded = {} /\ \A i \in PoseInputs : barrier'.latest[i] = NoTick
    BY <2>2 DEF BarrierReset
  <2>5. \A s \in Subscriptions : Contents(queue'[s]) \subseteq Contents(queue[s])
    BY <1>1, <2>1, TakeType
  <2>6. \A s \in Subscriptions : s = CtrlSub("pose") =>
          \A m \in Contents(queue'[s]) :
            ~ m.steering => FlaggedIn(verdict', episodeTicks', m.tick)
    BY <1>1, <2>5, FallbackKept
  <2>7. lastPublished' <= now'
    BY <1>1, <2>2, <2>3
  <2> QED  BY <1>2, <2>4, <2>6, <2>7 DEF FallbackInv
<1>4. ASSUME NEW i \in PoseInputs, OnInput(i) PROVE FallbackInv'
  <2> DEFINE t    == PoseSub(i)
             k    == Head(queue[t]).tick
             kept == {j \in buffer[i] \cup {k} : j >= k - BufferTicks}
             buf  == [buffer EXCEPT ![i] = kept]
             b    == Arrive(barrier, i, k)
  <2>1. Ready(t)
    BY <1>4 DEF OnInput
  <2>2. /\ k \in 1 .. now /\ k \in Nat /\ Before(k, "gt_pose")
        /\ PoseSub("reset_event") \in ResetSubs
    BY <1>1, <2>1, PoseOwnEpisode
  <2>3. \A s \in Subscriptions : Contents(Take(t)[s]) \subseteq Contents(queue[s])
    BY <1>1, <2>1, TakeType
  <2>4. CASE k < poseStart
    <3>1. queue' = Take(t) /\ UNCHANGED poseVars
      BY <1>1, <1>4, <2>2, <2>4 DEF OnInput
    <3>2. \A s \in Subscriptions : s = CtrlSub("pose") =>
            \A m \in Contents(queue'[s]) :
              ~ m.steering => FlaggedIn(verdict', episodeTicks', m.tick)
      BY <1>1, <2>3, <3>1, FallbackKept
    <3> QED  BY <1>1, <1>2, <3>1, <3>2 DEF poseVars, FallbackInv
  <2>5. CASE ~ (k < poseStart)
    <3>1. /\ buffer' = buf /\ barrier' = b /\ poseStart' = poseStart
          /\ \/ IsComplete(b, k) /\ Run(k, buf, Take(t))
             \/ queue' = Take(t) /\ lastPublished' = lastPublished
      BY <1>1, <1>4, <2>2, <2>5 DEF OnInput
    <3>2. k \in kept /\ buf[i] = kept /\ \A j \in PoseInputs : j # i => buf[j] = buffer[j]
      BY <1>1, <2>2 DEF BufferTicks
    <3>3. /\ b.latest[i] = k /\ b.degraded = barrier.degraded
          /\ \A j \in PoseInputs : j # i => b.latest[j] = barrier.latest[j]
      BY <1>1 DEF Arrive, Barrier
    <3>4. \A j \in PoseInputs : b.latest[j] # NoTick => b.latest[j] \in buf[j]
      <4> HIDE DEF kept, b, buf
      <4> QED  BY <3>2, <3>3 DEF FallbackInv
    <3> HIDE DEF b, buf, kept, k, t
    <3>5. CASE IsComplete(b, k) /\ Run(k, buf, Take(t))
      <4>1. k > lastPublished =>
              (\A j \in PoseInputs : k \in buf[j]) \/ FlaggedIn(verdict, episodeTicks, k)
        <5> SUFFICES ASSUME k > lastPublished
                     PROVE  (\A j \in PoseInputs : k \in buf[j])
                              \/ FlaggedIn(verdict, episodeTicks, k)
          OBVIOUS
        <5>1. CASE barrier.degraded # {}
          BY <1>1, <2>2, <2>5, <5>1, DegradedIsFlagged
        <5>2. CASE barrier.degraded = {}
          <6>1. \A j \in PoseInputs : b.latest[j] = k /\ k # NoTick
            BY <1>1, <2>2, <3>3, <3>5, <5>2 DEF IsComplete, HasArrived, NoTick
          <6> QED  BY <3>4, <6>1
        <5> QED  BY <5>1, <5>2
      <4>2. /\ \A s \in Subscriptions : s = CtrlSub("pose") =>
                 \A m \in Contents(queue'[s]) :
                   ~ m.steering => FlaggedIn(verdict', episodeTicks', m.tick)
            /\ lastPublished' \in Int /\ lastPublished <= lastPublished' /\ lastPublished' <= now
        BY <2>1, <2>2, <3>5, <4>1, RunFallback
      <4>3. barrier'.degraded # {} => \E j \in poseStart' .. lastPublished' : Failed(verdict', j)
        <5>1. \A j \in poseStart .. lastPublished : j \in poseStart .. lastPublished'
          BY <1>1, <4>2
        <5> QED  BY <1>1, <3>1, <3>3, <5>1 DEF FallbackInv
      <4>4. lastPublished' <= now'
        BY <1>1, <4>2
      <4> QED  BY <1>2, <3>1, <3>4, <4>2, <4>3, <4>4 DEF FallbackInv
    <3>6. CASE queue' = Take(t) /\ lastPublished' = lastPublished
      <4>1. \A s \in Subscriptions : s = CtrlSub("pose") =>
              \A m \in Contents(queue'[s]) :
                ~ m.steering => FlaggedIn(verdict', episodeTicks', m.tick)
        BY <1>1, <2>3, <3>6, FallbackKept
      <4> QED  BY <1>1, <1>2, <3>1, <3>3, <3>4, <3>6, <4>1 DEF FallbackInv
    <3> QED  BY <3>1, <3>5, <3>6
  <2> QED  BY <2>4, <2>5
<1>5. CASE PoseOnTickTimeout
  <2> DEFINE t == PoseSub("tick_timeout")
             k == Head(queue[t]).tick
  <2>1. Ready(t) /\ t[1] = "tick_timeout"
    BY <1>5 DEF PoseOnTickTimeout, PoseSub
  <2>2. k \in 1 .. now /\ k \in Nat
    BY <1>1, <2>1, PoseOwnEpisode
  <2>3. Failed(verdict, k)
    BY <1>1, <2>1, HeadType DEF FallbackInv
  <2>4. CASE k < poseStart
    <3>1. queue' = Take(t) /\ UNCHANGED poseVars
      BY <1>1, <1>5, <2>2, <2>4 DEF PoseOnTickTimeout
    <3>2. \A s \in Subscriptions : Contents(Take(t)[s]) \subseteq Contents(queue[s])
      BY <1>1, <2>1, TakeType
    <3>3. \A s \in Subscriptions : s = CtrlSub("pose") =>
            \A m \in Contents(queue'[s]) :
              ~ m.steering => FlaggedIn(verdict', episodeTicks', m.tick)
      BY <1>1, <3>1, <3>2, FallbackKept
    <3> QED  BY <1>1, <1>2, <3>1, <3>3 DEF poseVars, FallbackInv
  <2>5. CASE ~ (k < poseStart)
    <3>1. /\ barrier' = Degrade(barrier, Missing(barrier, k)) /\ Run(k, buffer, Take(t))
          /\ UNCHANGED <<poseStart, buffer>>
      BY <1>5, <2>5 DEF PoseOnTickTimeout
    <3>2. FlaggedIn(verdict, episodeTicks, k)
      <4>1. k \in 1 .. k
        BY <2>2
      <4> QED  BY <2>3, <4>1 DEF FlaggedIn
    <3>3. barrier'.latest = barrier.latest
      BY <1>1, <3>1 DEF Degrade, Barrier
    <3> HIDE DEF k, t
    <3>4. /\ \A s \in Subscriptions : s = CtrlSub("pose") =>
               \A m \in Contents(queue'[s]) :
                 ~ m.steering => FlaggedIn(verdict', episodeTicks', m.tick)
          /\ lastPublished' \in Int /\ lastPublished' <= now /\ k <= lastPublished'
      BY <2>1, <2>2, <3>1, <3>2, RunFallback
    <3>5. k \in poseStart' .. lastPublished'
      BY <1>1, <2>2, <2>5, <3>1, <3>4
    <3>6. \E j \in poseStart' .. lastPublished' : Failed(verdict', j)
      BY <1>1, <2>3, <3>5
    <3>7. lastPublished' <= now'
      BY <1>1, <3>4
    <3> QED  BY <1>2, <3>1, <3>3, <3>4, <3>6, <3>7 DEF FallbackInv
  <2> QED  BY <2>4, <2>5
<1> QED  BY <1>3, <1>4, <1>5 DEF PoseStep, PoseNext

(* FallbackInv is inductive. *)
LEMMA FallbackStep ==
  ASSUME ResetFirst, MaxEpisode < EventDepth, IInv, EpisodeInv, PoseEpisode, FallbackInv,
         [Next]_vars
  PROVE  FallbackInv'
<1>1. /\ TypeOK /\ now \in Nat /\ lastPublished \in Int
  BY DEF IInv, TypeOK, WorldTypeOK, PoseTypeOK
<1>2. now' \in Nat /\ now <= now'
  BY <1>1, EpisodeKept
<1>3. ASSUME UNCHANGED poseVars,
             \A s \in Subscriptions : s = CtrlSub("pose") =>
               Contents(queue'[s]) \subseteq Contents(queue[s]),
             \A s \in Subscriptions : s[1] = "tick_timeout" =>
               \A m \in Contents(queue'[s]) : Failed(verdict', m.tick)
      PROVE  FallbackInv'
  <2>1. lastPublished' <= now'
    BY <1>1, <1>2, <1>3 DEF poseVars, FallbackInv
  <2>2. barrier'.degraded # {} => \E j \in poseStart' .. lastPublished' : Failed(verdict', j)
    BY <1>1, <1>3, FailedStays DEF poseVars, FallbackInv
  <2>3. \A s \in Subscriptions : s = CtrlSub("pose") =>
          \A m \in Contents(queue'[s]) :
            ~ m.steering => FlaggedIn(verdict', episodeTicks', m.tick)
    BY <1>3, FallbackKept
  <2> QED  BY <1>3, <2>1, <2>2, <2>3 DEF poseVars, FallbackInv
<1>4. CASE WorldStep
  <2>1. UNCHANGED poseVars
    BY <1>4 DEF WorldStep
  <2>2. \A s \in Subscriptions : s = CtrlSub("pose") =>
          Contents(queue'[s]) \subseteq Contents(queue[s])
    BY <1>4, WorldSends DEF CtrlSub
  <2>3. ASSUME NEW s \in Subscriptions, s[1] = "tick_timeout", NEW m \in Contents(queue'[s])
        PROVE  Failed(verdict', m.tick)
    <3>1. m \in Contents(queue[s]) \/ (m.tick = now /\ Failed(verdict', now))
      BY <1>4, <2>3, WorldSends
    <3> QED  BY <1>1, <2>3, <3>1, FailedStays DEF FallbackInv
  <2> QED  BY <1>3, <2>1, <2>2, <2>3
<1>5. CASE CtrlStep \/ PlanStep \/ RunnerStep \/ UNCHANGED vars
  <2>1. UNCHANGED poseVars
    BY <1>5 DEF CtrlStep, PlanStep, RunnerStep, vars
  <2>2. ASSUME NEW s \in Subscriptions, s[1] \in {"pose", "tick_timeout"}
        PROVE  Contents(queue'[s]) \subseteq Contents(queue[s])
    <3>1. s[1] # "command" /\ s[1] \notin {"reference_line", "waypoints"}
      BY <2>2
    <3>2. CASE UNCHANGED vars
      BY <3>2 DEF vars
    <3> QED  BY <1>1, <1>5, <3>1, <3>2, CtrlSends, PlanSends
  <2>3. \A s \in Subscriptions : s = CtrlSub("pose") =>
          Contents(queue'[s]) \subseteq Contents(queue[s])
    BY <2>2 DEF CtrlSub
  <2>4. \A s \in Subscriptions : s[1] = "tick_timeout" =>
          \A m \in Contents(queue'[s]) : Failed(verdict', m.tick)
    BY <2>2, FallbackKept
  <2> QED  BY <1>3, <2>1, <2>3, <2>4
<1> QED  BY <1>4, <1>5, FallbackPoseStep DEF Next, Finished

(* Initially nothing was degraded or published. *)
LEMMA FallbackInit == Init => FallbackInv
<1> SUFFICES ASSUME Init PROVE FallbackInv
  OBVIOUS
<1>1. /\ now = 0 /\ lastPublished = -1 /\ barrier = BarrierReset
  BY DEF Init, WorldInit, PoseInit
<1>2. barrier.degraded = {} /\ \A i \in PoseInputs : barrier.latest[i] = NoTick
  BY <1>1 DEF BarrierReset
<1>3. ASSUME NEW s \in Subscriptions, s[1] \in {"pose", "tick_timeout"}
      PROVE  Contents(queue[s]) = {}
  <2>1. s[1] # "lane_graph"
    BY <1>3
  <2>2. queue[s] = NoMessages[s]
    BY <2>1, SendOther DEF Init
  <2>3. queue[s] = <<>>
    BY <2>2 DEF NoMessages
  <2> QED  BY <2>3 DEF Contents
<1>4. \A s \in Subscriptions : s = CtrlSub("pose") => Contents(queue[s]) = {}
  BY <1>3 DEF CtrlSub
<1> QED  BY <1>1, <1>2, <1>3, <1>4 DEF FallbackInv

(* gt_pose_node degrades an input, or publishes a pose without the steering angle of  *)
(* its tick, only where a TickTimeout of the episode explains it: for every number of *)
(* nodes, ticks and timeouts and up to nine resets, if a ResetEvent overtakes no data. *)
THEOREM FallbackHolds ==
  ASSUME ResetFirst, MaxEpisode < EventDepth
  PROVE  Spec => []FallbackOnlyWhenFlagged
<1> DEFINE Inv == IInv /\ EpisodeInv /\ PoseEpisode /\ FallbackInv
<1>1. Init => Inv
  BY InitType, InitGate, EpisodeInit, FallbackInit DEF IInv
<1>2. Inv /\ [Next]_vars => Inv'
  BY StepGate, EpisodeStep, PoseEpisodeStep, FallbackStep DEF IInv
<1>3. Inv => FallbackOnlyWhenFlagged
  <2> SUFFICES ASSUME Inv PROVE FallbackOnlyWhenFlagged
    OBVIOUS
  <2>1. barrier.degraded # {} => \E k \in poseStart .. now : TimedOut(k)
    <3>1. now \in Nat /\ lastPublished \in Int /\ poseStart \in Nat /\ lastPublished <= now
      BY DEF IInv, TypeOK, WorldTypeOK, PoseTypeOK, FallbackInv
    <3>2. \A j \in poseStart .. lastPublished : j \in poseStart .. now
      BY <3>1
    <3> QED  BY <3>2 DEF FallbackInv, TimedOut, Failed
  <2>2. ASSUME NEW p \in Pending("pose", "controller"), ~ p.steering
        PROVE  Flagged(p.tick)
    <3>1. CtrlSub("pose") \in Subscriptions /\ p \in Contents(queue[CtrlSub("pose")])
      BY <2>2 DEF Pending, CtrlSub
    <3>2. FlaggedIn(verdict, episodeTicks, p.tick)
      BY <2>2, <3>1 DEF FallbackInv
    <3> QED
      BY <3>2 DEF FlaggedIn, Flagged, Failed, TimedOut, EpisodeIn, EpisodeOf
  <2> QED  BY <2>1, <2>2 DEF FallbackOnlyWhenFlagged
<1> QED  BY <1>1, <1>2, <1>3, PTL DEF Spec

-------------------------------------------------------------------------------
(* ---- what the route planner knows of the episodes ----------------------- *)

(* What the route planner knows of the episodes. *)
PlanEpisode ==
  /\ planStart <= now + 1 /\ planEpisode < Len(episodeTicks)
  /\ \A s \in ResetSubs : s[2] = "route_planner" =>
       /\ Known(Episodes, queue[s], planStart)
       /\ \A i \in 1 .. Len(queue[s]) : planEpisode < queue[s][i].episode

(* The route planner starts an episode in the one callback that takes its ResetEvents. *)
LEMMA PlanTakes ==
  ASSUME TypeOK, PlanStep
  PROVE  \/ /\ PlanOnResetEvent
            /\ \A s \in ResetSubs :
                 s[2] = "route_planner" => queue[s] # <<>> /\ queue'[s] = Tail(queue[s])
         \/ UNCHANGED <<planStart, planEpisode>> /\ \A s \in ResetSubs : queue'[s] = queue[s]
<1>1. /\ QueueTypeOK
      /\ \A s \in ResetSubs : /\ s \in Subscriptions /\ s[1] = "reset_event"
                              /\ s = <<"reset_event", s[2]>>
  BY ResetTypes DEF TypeOK, ResetSubs
<1>2. ASSUME NEW topic, topic # "reset_event", Ready(PlanSub(topic))
      PROVE  \A s \in ResetSubs : Take(PlanSub(topic))[s] = queue[s]
  <2> TAKE s \in ResetSubs
  <2>1. s # PlanSub(topic)
    BY <1>1, <1>2 DEF PlanSub
  <2> QED  BY <1>1, <1>2, <2>1, TakeOther
<1>3. CASE PlanOnResetEvent
  <2> DEFINE t == PlanSub("reset_event")
  <2>1. Ready(t) /\ queue' = Take(t) /\ queue[t] # <<>>
    BY <1>3 DEF PlanOnResetEvent, Ready
  <2>2. \A s \in ResetSubs : s[2] = "route_planner" => s = t
    BY <1>1 DEF PlanSub
  <2> QED  BY <1>1, <1>3, <2>1, <2>2, TakeOther
<1>4. CASE OnLaneGraph
  <2>1. /\ Ready(PlanSub("lane_graph")) /\ queue' = Take(PlanSub("lane_graph"))
        /\ UNCHANGED <<planStart, planEpisode>>
    BY <1>4 DEF OnLaneGraph
  <2> QED  BY <1>2, <2>1
<1>5. CASE OnWaypoints
  <2>1. /\ Ready(PlanSub("waypoints")) /\ queue' = Take(PlanSub("waypoints"))
        /\ UNCHANGED <<planStart, planEpisode>>
    BY <1>5 DEF OnWaypoints, planVars
  <2> QED  BY <1>2, <2>1
<1>6. CASE PlanOnPose
  <2> DEFINE t == PlanSub("pose")
             k == Head(queue[t]).tick
  <2>1. Ready(t) /\ UNCHANGED <<planStart, planEpisode>>
    BY <1>6 DEF PlanOnPose
  <2>2. queue' = Take(t) \/ Plan(k, offLineTicks, Take(t)) \/ CheckReroute(k, Take(t))
    BY <1>6 DEF PlanOnPose
  <2>3. CheckReroute(k, Take(t)) => queue' = Take(t) \/ \E n : Plan(k, n, Take(t))
    BY DEF CheckReroute
  <2>4. \A n : Plan(k, n, Take(t))
          => queue' = Take(t) \/ \E m : queue' = Send(Take(t), "reference_line", m)
    BY DEF Plan
  <2>5. queue' = Take(t) \/ \E m : queue' = Send(Take(t), "reference_line", m)
    BY <2>2, <2>3, <2>4
  <2> HIDE DEF k
  <2>6. \A m : \A s \in ResetSubs : Send(Take(t), "reference_line", m)[s] = Take(t)[s]
    BY <1>1, SendOther
  <2> QED  BY <1>2, <2>1, <2>5, <2>6
<1> QED  BY <1>3, <1>4, <1>5, <1>6 DEF PlanStep, PlanNext

(* PlanEpisode is inductive: the planner drops no ResetEvent as one it knows already. *)
LEMMA PlanEpisodeStep ==
  ASSUME MaxEpisode < EventDepth, TypeOK, EpisodeInv, PlanEpisode, [Next]_vars
  PROVE  PlanEpisode'
<1>1. /\ planStart \in Nat /\ now \in Nat /\ Episodes \in SUBSET Nat
      /\ \A s \in ResetSubs : queue[s] \in Seq(ResetMsg) /\ s = <<"reset_event", s[2]>>
      /\ planEpisode \in Int /\ Len(episodeTicks) \in Nat
  BY ResetTypes DEF TypeOK, PlanTypeOK, WorldTypeOK
<1>2. PoseStep \/ CtrlStep \/ PlanStep \/ RunnerStep \/ UNCHANGED vars
         => UNCHANGED <<now, episodeTicks>> /\ Episodes' = Episodes
  BY NodeResets DEF worldVars, Episodes
<1>3. CASE WorldStep
  <2>1. UNCHANGED <<planStart, planEpisode>>
    BY <1>3 DEF WorldStep, planVars
  <2>2. now' \in Nat /\ now <= now'
    BY <1>3, WorldResets
  <2>3. planStart' <= now' + 1
    <3>1. \A a, b, c \in Nat : a <= b /\ c <= a + 1 => c <= b + 1
      OBVIOUS
    <3> QED  BY <1>1, <2>1, <2>2, <3>1 DEF PlanEpisode
  <2>4. ASSUME NEW s \in ResetSubs, s[2] = "route_planner"
        PROVE  /\ Known(Episodes', queue'[s], planStart)
               /\ \A i \in 1 .. Len(queue'[s]) : planEpisode < queue'[s][i].episode
    BY <1>1, <1>3, <2>4, KnownStays DEF PlanEpisode
  <2>5. planEpisode < Len(episodeTicks')
    <3>1. Len(episodeTicks') = Len(episodeTicks) \/ Len(episodeTicks') = Len(episodeTicks) + 1
      BY <1>3, WorldResets DEF TypeOK, WorldTypeOK
    <3> QED  BY <1>1, <3>1 DEF PlanEpisode
  <2> QED  BY <2>1, <2>3, <2>4, <2>5 DEF PlanEpisode, ResetSubs
<1>4. CASE PoseStep \/ CtrlStep \/ UNCHANGED vars
  <2>1. UNCHANGED <<planStart, planEpisode>>
    BY <1>4 DEF PoseStep, CtrlStep, vars, planVars
  <2>2. ASSUME NEW s \in ResetSubs, s[2] = "route_planner"
        PROVE  queue'[s] = queue[s]
    <3>1. s[2] # "gt_pose" /\ s[2] # "controller"
      BY <2>2
    <3>2. CASE UNCHANGED vars
      BY <3>2 DEF vars
    <3> QED  BY <1>4, <3>1, <3>2, PoseResets, CtrlResets
  <2> QED  BY <1>2, <1>4, <2>1, <2>2 DEF PlanEpisode, ResetSubs
<1>5. CASE RunnerStep
  <2>1. UNCHANGED <<planStart, planEpisode>> /\ \E m : queue' = Send(queue, "waypoints", m)
    BY <1>5 DEF RunnerStep, PublishWaypoints, planVars
  <2>2. \A s \in ResetSubs : s \in Subscriptions /\ s[1] # "waypoints"
    BY DEF ResetSubs
  <2>3. \A s \in ResetSubs : queue'[s] = queue[s]
    BY <2>1, <2>2, SendOther
  <2> QED  BY <1>2, <1>5, <2>1, <2>3 DEF PlanEpisode, ResetSubs
<1>6. CASE PlanStep
  <2>1. CASE /\ UNCHANGED <<planStart, planEpisode>>
             /\ \A s \in ResetSubs : queue'[s] = queue[s]
    BY <1>2, <1>6, <2>1 DEF PlanEpisode, ResetSubs
  <2>2. CASE /\ PlanOnResetEvent
             /\ \A s \in ResetSubs :
                  s[2] = "route_planner" => queue[s] # <<>> /\ queue'[s] = Tail(queue[s])
    <3> DEFINE r == PlanSub("reset_event")
    <3>1. r \in ResetSubs /\ r[2] = "route_planner" /\ queue[r] # <<>>
      BY <2>2 DEF PlanOnResetEvent, Ready, PlanSub, ResetSubs
    <3>2. \A s \in ResetSubs : s[2] = "route_planner" => s = r
      BY <1>1 DEF PlanSub
    <3>3. /\ Sorted(queue[r]) /\ Known(Episodes, queue[r], planStart)
          /\ 1 \in 1 .. Len(queue[r]) /\ Head(queue[r]) = queue[r][1]
          /\ \A i \in 1 .. Len(queue[r]) : planEpisode < queue[r][i].episode
      BY <1>1, <3>1 DEF EpisodeInv, PlanEpisode
    <3>4. /\ Known(Episodes, Tail(queue[r]), Head(queue[r]).tick)
          /\ \A i \in 1 .. Len(Tail(queue[r])) :
               Head(queue[r]).episode < Tail(queue[r])[i].episode
      <4> HIDE DEF r
      <4> QED  BY <1>1, <3>1, <3>3, TailOfResets
    <3>5. Head(queue[r]).tick <= now + 1 /\ Head(queue[r]).episode < Len(episodeTicks)
      BY <3>1, <3>3 DEF EpisodeInv
    <3>6. Head(queue[r]) \in ResetMsg
      BY <1>1, <3>1
    <3>7. ~ (Head(queue[r]).episode <= planEpisode)
      BY <1>1, <3>3, <3>6 DEF ResetMsg
    <3>8. planStart' = Head(queue[r]).tick /\ planEpisode' = Head(queue[r]).episode
      BY <2>2, <3>7 DEF PlanOnResetEvent
    <3>9. \A s \in ResetSubs : s[2] = "route_planner" => queue'[s] = Tail(queue[r])
      BY <2>2, <3>2
    <3> HIDE DEF r
    <3> QED  BY <1>2, <1>6, <3>4, <3>5, <3>8, <3>9 DEF PlanEpisode, ResetSubs
  <2> QED  BY <1>6, <2>1, <2>2, PlanTakes
<1> QED  BY <1>3, <1>4, <1>5, <1>6 DEF Next, Finished

(* Initially the planner knows of no episode. *)
LEMMA PlanEpisodeInit == Init => PlanEpisode
<1> SUFFICES ASSUME Init PROVE PlanEpisode
  OBVIOUS
<1>1. /\ now = 0 /\ episodeTicks = <<>> /\ planStart = 0 /\ planEpisode = -1
  BY DEF Init, WorldInit, PlanInit
<1>2. Episodes = {} /\ Len(episodeTicks) = 0
  BY <1>1 DEF Episodes
<1>3. \A s \in ResetSubs : queue[s] = <<>>
  BY SendOther DEF Init, NoMessages, ResetSubs
<1>4. \A s \in ResetSubs : Len(queue[s]) = 0 /\ 1 .. Len(queue[s]) = {}
  BY <1>3
<1> QED  BY <1>1, <1>2, <1>4 DEF PlanEpisode, Known

-------------------------------------------------------------------------------
(* ---- the controller and the planner agree on the line ------------------- *)

LineSub == CtrlSub("reference_line")

(* The line that the planner has in the newest episode is the one on its way to *)
(* the controller, or the one it has.  What every node was told of are episodes. *)
AgreeInv ==
  /\ ctrlStart \in Episodes \cup {0}
  /\ \A s \in ResetSubs : \A i \in 1 .. Len(queue[s]) : queue[s][i].tick \in Episodes
  /\ planLine # NoRoute => planStart <= planLine.tick
  /\ LineSub \notin Subscriptions => ctrlEpisode = -1
  /\ PlanSub("reset_event") \notin Subscriptions => planEpisode = -1
  /\ LineSub \in Subscriptions =>
       /\ Len(queue[LineSub]) <= 1
       /\ planEpisode = episode /\ planLine # NoRoute =>
            IF queue[LineSub] = <<>> THEN line = planLine ELSE Head(queue[LineSub]) = planLine

(* A subscription that keeps one message: what is published replaces what is queued. *)
LEMMA LatestOnly ==
  ASSUME NEW S, NEW q \in Seq(S), Len(q) <= 1, NEW m \in S
  PROVE  /\ Len(KeepLast(Append(q, m), 1)) = 1 /\ KeepLast(Append(q, m), 1) # <<>>
         /\ Head(KeepLast(Append(q, m), 1)) = m
<1> DEFINE a == Append(q, m)
<1>1. /\ a \in Seq(S) /\ Len(q) \in Nat /\ Len(a) = Len(q) + 1 /\ a[Len(q) + 1] = m
  BY AppendAt
<1>2. a # <<>>
  BY <1>1, EmptySeq
<1> HIDE DEF a
<1>3. CASE Len(q) = 0
  <2>1. KeepLast(a, 1) = a
    BY <1>1, <1>3 DEF KeepLast
  <2>2. Head(a) = a[1]
    BY <1>1, <1>2
  <2> QED  BY <1>1, <1>2, <1>3, <2>1, <2>2 DEF a
<1>4. CASE Len(q) = 1
  <2>1. KeepLast(a, 1) = Tail(a)
    BY <1>1, <1>4 DEF KeepLast
  <2>2. Tail(a) \in Seq(S) /\ Len(Tail(a)) = 1 /\ Tail(a)[1] = m
    BY <1>1, <1>2, <1>4, HeadTailProperties
  <2>3. Tail(a) # <<>>
    <3>1. Len(<<>>) # 1
      OBVIOUS
    <3> QED  BY <2>2, <3>1
  <2>4. Head(Tail(a)) = Tail(a)[1]
    BY <2>2, <2>3
  <2> QED  BY <2>1, <2>2, <2>3, <2>4 DEF a
<1>5. Len(q) = 0 \/ Len(q) = 1
  <2> HIDE DEF KeepLast
  <2>1. \A n \in Nat : n <= 1 => n = 0 \/ n = 1
    OBVIOUS
  <2> QED  BY <1>1, <2>1
<1> QED  BY <1>3, <1>4, <1>5, Zenon

(* And taking it leaves none. *)
LEMMA TakenLast ==
  ASSUME NEW S, NEW q \in Seq(S), q # <<>>, Len(q) <= 1
  PROVE  Tail(q) = <<>> /\ Len(Tail(q)) = 0
<1>1. Len(q) = 1
  <2>1. Len(q) \in Nat \ {0}
    BY EmptySeq, Zenon
  <2> QED  BY <2>1
<1>2. Tail(q) \in Seq(S) /\ Len(Tail(q)) = 0
  BY <1>1, HeadTailProperties
<1> QED  BY <1>2, EmptySeq

(* Only the planner publishes lines, and only the controller takes one. *)
LEMMA LineQueueKept ==
  ASSUME TypeOK, LineSub \in Subscriptions,
         \/ WorldStep \/ PoseStep \/ RunnerStep \/ UNCHANGED vars
         \/ CtrlStep /\ ~ OnReferenceLine
  PROVE  queue'[LineSub] = queue[LineSub]
<1>1. QueueTypeOK /\ LineSub[1] = "reference_line" /\ LineSub[2] = "controller"
  BY DEF TypeOK, LineSub, CtrlSub
<1>2. \A q, topic, m : topic # "reference_line" => Send(q, topic, m)[LineSub] = q[LineSub]
  BY <1>1, SendOther
<1>3. ASSUME NEW t, Ready(t), t # LineSub PROVE Take(t)[LineSub] = queue[LineSub]
  BY <1>1, <1>3, TakeOther
<1>4. CASE WorldStep
  <2>1. \/ queue' = queue
        \/ \E topic, m : topic # "reference_line" /\ queue' = Send(queue, topic, m)
        \/ \E a, b : queue' = Send(Send(queue, "ego_odom", a), "vehicle_state", b)
        \/ /\ Ready(<<"command", "world_manager">>)
           /\ queue' = Take(<<"command", "world_manager">>)
    BY <1>4
    DEF WorldStep, WorldNext, TickThread, Startup, ApplyReset, PublishResetEvent, TickWorld,
        PassGate, TimeOutGate, OnControlCommand
  <2>2. <<"command", "world_manager">> # LineSub
    BY <1>1
  <2> QED  BY <1>2, <1>3, <2>1, <2>2
<1>5. CASE PoseStep
  <2>1. \E topic : /\ Ready(PoseSub(topic))
                   /\ \/ queue' = Take(PoseSub(topic))
                      \/ \E k, buf : Run(k, buf, Take(PoseSub(topic)))
    BY <1>5 DEF PoseStep, PoseNext, PoseOnResetEvent, OnInput, PoseOnTickTimeout
  <2>2. PICK topic : /\ Ready(PoseSub(topic))
                     /\ \/ queue' = Take(PoseSub(topic))
                        \/ \E k, buf : Run(k, buf, Take(PoseSub(topic)))
    BY <2>1
  <2>3. PoseSub(topic) # LineSub
    BY <1>1 DEF PoseSub
  <2>4. Take(PoseSub(topic))[LineSub] = queue[LineSub]
    BY <1>3, <2>2, <2>3
  <2> QED  BY <1>2, <2>2, <2>4 DEF Run
<1>6. CASE RunnerStep
  BY <1>2, <1>6 DEF RunnerStep, PublishWaypoints
<1>7. CASE CtrlStep /\ ~ OnReferenceLine
  <2>1. PICK topic \in {"reset_event", "pose", "tick_timeout"} :
          /\ Ready(CtrlSub(topic))
          /\ \/ queue' = Take(CtrlSub(topic))
             \/ \E m : queue' = Send(Take(CtrlSub(topic)), "command", m)
    BY <1>7 DEF CtrlStep, CtrlNext, CtrlOnResetEvent, CtrlOnPose, CtrlOnTickTimeout, Answer
  <2>2. CtrlSub(topic) # LineSub
    BY <1>1 DEF CtrlSub
  <2>3. Take(CtrlSub(topic))[LineSub] = queue[LineSub]
    BY <1>3, <2>1, <2>2
  <2> QED  BY <1>2, <2>1, <2>3
<1> QED  BY <1>4, <1>5, <1>6, <1>7 DEF vars

(* Once the planner is in the newest episode it has been told of all episodes, so its *)
(* line starts in the newest one.                                                       *)
LEMMA PlannerUpToDate ==
  ASSUME IInv, EpisodeInv, PlanEpisode, AgreeInv, planEpisode = episode, planLine # NoRoute
  PROVE  /\ phase # "peers" /\ planLine.tick \in Nat
         /\ \A e \in Episodes : e <= planStart /\ e <= planLine.tick
<1> DEFINE r == PlanSub("reset_event")
<1>1. /\ episode \in Nat /\ planEpisode \in Int /\ planStart \in Nat /\ planLine.tick \in Nat
      /\ Episodes \subseteq Nat
  BY ResetTypes DEF IInv, TypeOK, WorldTypeOK, PlanTypeOK, Routes
<1>2. r \in ResetSubs /\ r[2] = "route_planner"
  BY <1>1 DEF AgreeInv, ResetSubs, PlanSub
<1>3. phase # "peers" /\ Len(episodeTicks) = episode + 1
  BY <1>1 DEF EpisodeInv, PlanEpisode
<1>4. queue[r] \in Seq(ResetMsg)
  BY <1>2, ResetTypes DEF IInv
<1>5. ASSUME NEW i \in 1 .. Len(queue[r]) PROVE FALSE
  <2>1. queue[r][i] \in ResetMsg /\ queue[r][i].episode \in Nat
    <3>1. queue[r][i] \in ResetMsg
      BY <1>4
    <3> QED  BY <3>1 DEF ResetMsg
  <2>2. episode < queue[r][i].episode /\ queue[r][i].episode < episode + 1
    BY <1>2, <1>3 DEF PlanEpisode, EpisodeInv
  <2> QED  BY <1>1, <2>1, <2>2
<1>6. \A e \in Episodes : e <= planStart
  BY <1>2, <1>5 DEF PlanEpisode, Known
<1> QED  BY <1>1, <1>3, <1>6 DEF AgreeInv

(* Nothing that the controller has still to be told starts after the planner's line. *)
LEMMA NoResetBehindLine ==
  ASSUME IInv, EpisodeInv, PlanEpisode, AgreeInv, planEpisode = episode, planLine # NoRoute,
         Before(planLine.tick, "controller"), LineSub \in Subscriptions
  PROVE  ~ Ready(CtrlSub("reset_event"))
<1> DEFINE r == CtrlSub("reset_event")
<1> SUFFICES ASSUME Ready(r) PROVE FALSE
  OBVIOUS
<1>1. r \in ResetSubs /\ r[2] = "controller" /\ queue[r] # <<>>
  BY DEF Ready, ResetSubs, CtrlSub
<1>2. queue[r] \in Seq(ResetMsg)
  BY <1>1, ResetTypes DEF IInv
<1>3. 1 \in 1 .. Len(queue[r])
  BY <1>1, <1>2
<1>4. queue[r][1].tick \in Episodes /\ planLine.tick < queue[r][1].tick
  BY <1>1, <1>3 DEF AgreeInv, Before
<1>5. \A e \in Episodes : e \in Nat /\ e <= planLine.tick
  BY PlannerUpToDate, ResetTypes DEF IInv
<1>6. planLine.tick \in Nat
  BY PlannerUpToDate
<1>7. PICK e \in Episodes : planLine.tick < e
  BY <1>4
<1> QED  BY <1>5, <1>6, <1>7

(* The ResetEvents queued, and those that nodes have taken, are of episodes. *)
LEMMA AgreeEpisodes ==
  ASSUME MaxEpisode < EventDepth, IInv, EpisodeInv, AgreeInv, [Next]_vars
  PROVE  /\ ctrlStart' \in Episodes' \cup {0}
         /\ \A s \in ResetSubs : \A i \in 1 .. Len(queue'[s]) : queue'[s][i].tick \in Episodes'
<1>1. /\ TypeOK /\ \A s \in ResetSubs : queue[s] \in Seq(ResetMsg) /\ Len(queue[s]) \in Nat
      /\ episodeTicks \in Seq(Nat) /\ now \in Nat
  BY ResetTypes DEF IInv, TypeOK, WorldTypeOK
<1>2. CASE WorldStep
  <2>1. ctrlStart' = ctrlStart
    BY <1>2 DEF WorldStep, ctrlVars
  <2>2. CASE UNCHANGED episodeTicks /\ \A s \in ResetSubs : queue'[s] = queue[s]
    BY <2>1, <2>2 DEF AgreeInv, Episodes
  <2>3. ASSUME episodeTicks' = Append(episodeTicks, now + 1),
               \A s \in ResetSubs :
                 queue'[s] = Append(queue[s], [tick |-> now + 1, episode |-> Len(episodeTicks)])
        PROVE  /\ ctrlStart' \in Episodes' \cup {0}
               /\ \A s \in ResetSubs : \A i \in 1 .. Len(queue'[s]) :
                    queue'[s][i].tick \in Episodes'
    <3> DEFINE m == [tick |-> now + 1, episode |-> Len(episodeTicks)]
    <3>1. Episodes \subseteq Episodes' /\ now + 1 \in Episodes'
      <4>1. /\ DOMAIN episodeTicks = 1 .. Len(episodeTicks) /\ Len(episodeTicks) \in Nat
            /\ DOMAIN episodeTicks' = 1 .. Len(episodeTicks) + 1
            /\ episodeTicks'[Len(episodeTicks) + 1] = now + 1
            /\ \A i \in 1 .. Len(episodeTicks) : episodeTicks'[i] = episodeTicks[i]
        BY <1>1, <2>3, AppendAt
      <4>2. Len(episodeTicks) + 1 \in DOMAIN episodeTicks'
        BY <4>1
      <4>3. \A i \in DOMAIN episodeTicks : i \in DOMAIN episodeTicks'
        BY <4>1
      <4> QED  BY <4>1, <4>2, <4>3 DEF Episodes
    <3>2. m.tick = now + 1 /\ m \in ResetMsg
      BY <1>1 DEF ResetMsg
    <3>3. ASSUME NEW s \in ResetSubs, NEW i \in 1 .. Len(queue'[s])
          PROVE  queue'[s][i].tick \in Episodes'
      <4>1. queue'[s] = Append(queue[s], m)
        BY <2>3
      <4> HIDE DEF m
      <4>2. /\ queue'[s][Len(queue[s]) + 1] = m /\ Len(queue'[s]) = Len(queue[s]) + 1
            /\ \A j \in 1 .. Len(queue[s]) : queue'[s][j] = queue[s][j]
        <5>1. Len(Append(queue[s], m)) = Len(queue[s]) + 1
          BY <1>1, <3>2
        <5> QED  BY <1>1, <4>1, <5>1, AppendAt
      <4>3. i = Len(queue[s]) + 1 \/ i \in 1 .. Len(queue[s])
        BY <1>1, <4>2
      <4> QED  BY <3>1, <3>2, <4>2, <4>3 DEF AgreeInv
    <3> QED  BY <2>1, <3>1, <3>3 DEF AgreeInv
  <2> QED  BY <1>1, <1>2, <2>2, <2>3, WorldResets
<1>3. CASE PoseStep \/ CtrlStep \/ PlanStep \/ RunnerStep \/ UNCHANGED vars
  <2>1. Episodes' = Episodes
    BY <1>1, <1>3, NodeResets DEF worldVars, Episodes
  <2>2. ASSUME NEW s \in ResetSubs, NEW i \in 1 .. Len(queue'[s])
        PROVE  queue'[s][i].tick \in Episodes
    <3>1. CASE queue'[s] = queue[s]
      BY <2>2, <3>1 DEF AgreeInv
    <3>2. CASE queue[s] # <<>> /\ queue'[s] = Tail(queue[s])
      <4>1. i + 1 \in 1 .. Len(queue[s]) /\ Tail(queue[s])[i] = queue[s][i + 1]
        BY <1>1, <2>2, <3>2
      <4> QED  BY <3>2, <4>1 DEF AgreeInv
    <3> QED  BY <1>1, <1>3, <3>1, <3>2, NodeResets
  <2>3. ctrlStart' \in Episodes \cup {0}
    <3>1. CASE ctrlStart' = ctrlStart
      BY <3>1 DEF AgreeInv
    <3>2. CASE CtrlOnResetEvent
      <4> DEFINE r == CtrlSub("reset_event")
      <4>1. r \in ResetSubs /\ queue[r] # <<>>
        BY <3>2 DEF CtrlOnResetEvent, Ready, ResetSubs, CtrlSub
      <4>2. queue[r][1].tick \in Episodes /\ Head(queue[r]) = queue[r][1]
        BY <1>1, <4>1 DEF AgreeInv
      <4>3. ctrlStart' = ctrlStart \/ ctrlStart' = Head(queue[r]).tick
        BY <3>2 DEF CtrlOnResetEvent, ctrlVars
      <4> QED  BY <3>1, <4>2, <4>3
    <3>3. ctrlStart' = ctrlStart \/ CtrlOnResetEvent
      BY <1>3
      DEF PoseStep, CtrlStep, PlanStep, RunnerStep, vars, ctrlVars, CtrlNext, OnReferenceLine,
          CtrlOnPose, CtrlOnTickTimeout
    <3> QED  BY <3>1, <3>2, <3>3
  <2> QED  BY <2>1, <2>2, <2>3
<1> QED  BY <1>2, <1>3 DEF Next, Finished

(* A line is planned in the planner's episode, and is the only one on its way. *)
LEMMA AgreePlanStep ==
  ASSUME IInv, EpisodeInv, PlanEpisode, AgreeInv, PlanStep
  PROVE  /\ planLine' # NoRoute => planStart' <= planLine'.tick
         /\ PlanSub("reset_event") \notin Subscriptions => planEpisode' = -1
         /\ LineSub \in Subscriptions =>
              \/ /\ UNCHANGED <<planLine, planEpisode>> /\ queue'[LineSub] = queue[LineSub]
              \/ planLine' = NoRoute /\ queue'[LineSub] = queue[LineSub]
              \/ /\ planLine' # NoRoute /\ Len(queue'[LineSub]) = 1 /\ queue'[LineSub] # <<>>
                 /\ Head(queue'[LineSub]) = planLine'
<1>1. /\ QueueTypeOK /\ now \in Nat /\ planStart \in Nat /\ Flow(queue, now, Answered)
      /\ waypoints.route \in Nat /\ LineSub[1] = "reference_line" /\ LineSub[2] = "controller"
  BY DEF IInv, TypeOK, WorldTypeOK, PlanTypeOK, Routes, GateInv, LineSub, CtrlSub
<1>2. ASSUME NEW topic, Ready(PlanSub(topic)), LineSub \in Subscriptions
      PROVE  Take(PlanSub(topic))[LineSub] = queue[LineSub]
  <2>1. PlanSub(topic) # LineSub
    BY <1>1 DEF PlanSub
  <2> QED  BY <1>1, <1>2, <2>1, TakeOther
<1>3. CASE OnLaneGraph
  <2>1. Ready(PlanSub("lane_graph")) /\ queue' = Take(PlanSub("lane_graph"))
        /\ UNCHANGED <<planLine, planStart, planEpisode>>
    BY <1>3 DEF OnLaneGraph
  <2> QED  BY <1>2, <2>1 DEF AgreeInv
<1>4. CASE PlanOnResetEvent
  <2>1. /\ Ready(PlanSub("reset_event")) /\ queue' = Take(PlanSub("reset_event"))
        /\ \/ UNCHANGED <<planLine, planStart, planEpisode>>
           \/ planLine' = NoRoute
    BY <1>4 DEF PlanOnResetEvent, planVars, ClearRoute
  <2>2. PlanSub("reset_event") \in Subscriptions
    BY <2>1 DEF Ready
  <2> QED  BY <1>2, <2>1, <2>2 DEF AgreeInv
<1>5. CASE OnWaypoints
  <2>1. /\ Ready(PlanSub("waypoints")) /\ queue' = Take(PlanSub("waypoints"))
        /\ UNCHANGED <<planStart, planEpisode>>
        /\ planLine' = planLine \/ planLine' = NoRoute
    BY <1>5 DEF OnWaypoints, planVars, ClearRoute
  <2> QED  BY <1>2, <2>1 DEF AgreeInv
<1>6. CASE PlanOnPose
  <2> DEFINE t == PlanSub("pose")
             k == Head(queue[t]).tick
             l == [tick |-> k, route |-> waypoints.route]
  <2>1. /\ Ready(t) /\ t[1] = "pose" /\ UNCHANGED <<planStart, planEpisode>>
    BY <1>6 DEF PlanOnPose, PlanSub
  <2>2. k \in 1 .. now
    BY <1>1, <2>1, HeadFlow DEF WorldTopics
  <2>3. \/ queue' = Take(t) /\ UNCHANGED planLine
        \/ /\ ~ PlanBeforeEpisode(k, planStart) /\ planLine' = l
           /\ queue' = Send(Take(t), "reference_line", l)
    <3>1. \A n : Plan(k, n, Take(t)) =>
                   \/ queue' = Take(t) /\ UNCHANGED planLine
                   \/ planLine' = l /\ queue' = Send(Take(t), "reference_line", l)
      BY DEF Plan
    <3>2. CheckReroute(k, Take(t)) =>
            (queue' = Take(t) /\ UNCHANGED planLine) \/ \E n : Plan(k, n, Take(t))
      BY DEF CheckReroute
    <3>3. \/ queue' = Take(t) /\ UNCHANGED planLine
          \/ /\ ~ PlanBeforeEpisode(k, planStart)
             /\ Plan(k, offLineTicks, Take(t)) \/ CheckReroute(k, Take(t))
      BY <1>6 DEF PlanOnPose
    <3> HIDE DEF k, l, t
    <3> QED  BY <3>1, <3>2, <3>3
  <2>4. CASE queue' = Take(t) /\ UNCHANGED planLine
    BY <1>2, <2>1, <2>4 DEF AgreeInv
  <2>5. CASE /\ ~ PlanBeforeEpisode(k, planStart) /\ planLine' = l
             /\ queue' = Send(Take(t), "reference_line", l)
    <3>1. k # 0 /\ k \in Nat /\ l.tick = k
      BY <2>2
    <3>2. planStart' <= planLine'.tick /\ planLine' # NoRoute
      BY <1>1, <2>1, <2>5, <3>1 DEF PlanBeforeEpisode, NoRoute
    <3>3. ASSUME LineSub \in Subscriptions
          PROVE  /\ Len(queue'[LineSub]) = 1 /\ queue'[LineSub] # <<>>
                 /\ Head(queue'[LineSub]) = planLine'
      <4> HIDE DEF k, l, t
      <4>1. /\ queue[LineSub] \in Seq(RouteMsg) /\ Len(queue[LineSub]) \in Nat
            /\ Len(queue[LineSub]) <= 1
        BY <1>1, <3>3, PayloadOf DEF AgreeInv, QueueTypeOK
      <4>2. queue'[LineSub] = KeepLast(Append(queue[LineSub], l), 1)
        <5>1. Take(t)[LineSub] = queue[LineSub]
          BY <1>2, <2>1, <3>3 DEF t
        <5> QED  BY <1>1, <2>5, <3>3, <5>1 DEF Send, Depth, LatchedDepth
      <4>3. l \in RouteMsg
        BY <1>1, <3>1 DEF l, RouteMsg
      <4> QED  BY <2>5, <4>1, <4>2, <4>3, LatestOnly
    <3> QED  BY <2>1, <3>2, <3>3 DEF AgreeInv
  <2> QED  BY <2>3, <2>4, <2>5
<1> QED  BY <1>3, <1>4, <1>5, <1>6 DEF PlanStep, PlanNext

(* AgreeInv is inductive. *)
LEMMA AgreeStep ==
  ASSUME ResetFirst, MaxEpisode < EventDepth, IInv, EpisodeInv, CtrlEpisode, LineInv,
         PlanEpisode, AgreeInv, [Next]_vars
  PROVE  AgreeInv'
<1>1. /\ TypeOK /\ QueueTypeOK /\ episode \in Nat /\ planEpisode \in Int /\ ctrlStart \in Nat
      /\ Episodes \subseteq Nat /\ planStart \in Nat /\ Len(episodeTicks) \in Nat
  BY ResetTypes DEF IInv, TypeOK, WorldTypeOK, PlanTypeOK, CtrlTypeOK
<1> DEFINE Told == /\ ctrlStart' \in Episodes' \cup {0}
                   /\ \A s \in ResetSubs : \A i \in 1 .. Len(queue'[s]) :
                        queue'[s][i].tick \in Episodes'
           Planned == planLine' # NoRoute => planStart' <= planLine'.tick
           Apart == /\ LineSub \notin Subscriptions => ctrlEpisode' = -1
                    /\ PlanSub("reset_event") \notin Subscriptions => planEpisode' = -1
           Agreed == LineSub \in Subscriptions =>
                       /\ Len(queue'[LineSub]) <= 1
                       /\ planEpisode' = episode' /\ planLine' # NoRoute =>
                            IF queue'[LineSub] = <<>> THEN line' = planLine'
                            ELSE Head(queue'[LineSub]) = planLine'
<1>2. Told
  BY AgreeEpisodes
<1> HIDE DEF Told
<1>3. Planned /\ Apart /\ Agreed => AgreeInv'
  BY <1>2 DEF Told, AgreeInv, ResetSubs, LineSub, CtrlSub, PlanSub
<1>4. CASE UNCHANGED <<line, planLine, planStart, planEpisode, ctrlEpisode, episode>>
           /\ (WorldStep \/ PoseStep \/ RunnerStep \/ UNCHANGED vars
                 \/ (CtrlStep /\ ~ OnReferenceLine))
  <2>1. LineSub \in Subscriptions => queue'[LineSub] = queue[LineSub]
    BY <1>1, <1>4, LineQueueKept
  <2> QED  BY <1>3, <1>4, <2>1 DEF AgreeInv
<1>5. CASE WorldStep
  <2>1. UNCHANGED <<line, planLine, planStart, planEpisode, ctrlEpisode>>
    BY <1>5 DEF WorldStep, planVars, ctrlVars
  <2>2. CASE UNCHANGED episode
    BY <1>4, <1>5, <2>1, <2>2
  <2>3. CASE episode' = Len(episodeTicks)
    <3>1. planEpisode' # episode'
      BY <1>1, <2>1, <2>3 DEF PlanEpisode
    <3>2. LineSub \in Subscriptions => queue'[LineSub] = queue[LineSub]
      BY <1>1, <1>5, LineQueueKept
    <3> QED  BY <1>3, <2>1, <3>1, <3>2 DEF AgreeInv
  <2> QED  BY <1>1, <1>5, <2>2, <2>3, WorldResets
<1>6. CASE PoseStep \/ RunnerStep \/ UNCHANGED vars
  <2>1. UNCHANGED <<line, planLine, planStart, planEpisode, ctrlEpisode, episode>>
    BY <1>6 DEF PoseStep, RunnerStep, vars, planVars, ctrlVars, worldVars
  <2> QED  BY <1>4, <1>6, <2>1
<1>7. CASE PlanStep
  <2>1. UNCHANGED <<line, ctrlEpisode, episode>>
    BY <1>7 DEF PlanStep, ctrlVars, worldVars
  <2>2. Planned /\ Apart
    BY <1>7, <2>1, AgreePlanStep DEF AgreeInv
  <2>3. Agreed
    <3> SUFFICES ASSUME LineSub \in Subscriptions PROVE Agreed
      OBVIOUS
    <3>1. CASE UNCHANGED <<planLine, planEpisode>> /\ queue'[LineSub] = queue[LineSub]
      BY <2>1, <3>1 DEF AgreeInv
    <3>2. CASE planLine' = NoRoute /\ queue'[LineSub] = queue[LineSub]
      BY <3>2 DEF AgreeInv
    <3>3. CASE /\ planLine' # NoRoute /\ Len(queue'[LineSub]) = 1 /\ queue'[LineSub] # <<>>
               /\ Head(queue'[LineSub]) = planLine'
      BY <3>3
    <3> QED  BY <1>7, <3>1, <3>2, <3>3, AgreePlanStep
  <2> QED  BY <1>3, <2>2, <2>3
<1>8. CASE CtrlStep /\ ~ OnReferenceLine
  <2>1. UNCHANGED <<planLine, planStart, planEpisode, episode>>
    BY <1>8 DEF CtrlStep, planVars, worldVars
  <2>2. CASE CtrlOnPose \/ CtrlOnTickTimeout
    BY <1>4, <1>8, <2>1, <2>2 DEF CtrlOnPose, CtrlOnTickTimeout
  <2>3. CASE CtrlOnResetEvent
    <3> DEFINE r == CtrlSub("reset_event")
    <3>1. Ready(r)
      BY <2>3 DEF CtrlOnResetEvent
    <3>2. LineSub \in Subscriptions
      <4>1. r \in Subscriptions
        BY <3>1 DEF Ready
      <4> QED
        BY <4>1 DEF Subscriptions, LineSub, CtrlSub, TopicNames, Subscribers, AllNodes
    <3>3. queue'[LineSub] = queue[LineSub]
      BY <1>1, <1>8, <3>2, LineQueueKept
    <3>4. ~ (planEpisode = episode /\ planLine # NoRoute /\ queue[LineSub] = <<>>)
      <4> SUFFICES ASSUME planEpisode = episode, planLine # NoRoute, queue[LineSub] = <<>>
                   PROVE  FALSE
        OBVIOUS
      <4>1. line = planLine /\ line # NoLine
        BY <3>2 DEF AgreeInv, NoRoute, NoLine
      <4>2. Before(planLine.tick, "controller")
        BY <4>1 DEF LineInv
      <4> QED  BY <3>1, <3>2, <4>2, NoResetBehindLine
    <3> QED  BY <1>3, <2>1, <3>2, <3>3, <3>4 DEF AgreeInv
  <2> QED  BY <1>8, <2>2, <2>3 DEF CtrlStep, CtrlNext
<1>9. CASE CtrlStep /\ OnReferenceLine
  <2> DEFINE l == Head(queue[LineSub])
  <2>1. /\ UNCHANGED <<planLine, planStart, planEpisode, episode, ctrlEpisode>>
        /\ Ready(LineSub) /\ queue' = Take(LineSub)
        /\ line' = IF CtrlBeforeEpisode(l.tick) THEN line ELSE l
    BY <1>9 DEF CtrlStep, planVars, worldVars, OnReferenceLine, LineSub
  <2>2. LineSub \in Subscriptions /\ queue[LineSub] # <<>> /\ Len(queue[LineSub]) <= 1
    BY <2>1 DEF Ready, AgreeInv
  <2>3. queue'[LineSub] = <<>> /\ Len(queue'[LineSub]) <= 1
    <3>1. queue[LineSub] \in Seq(Message)
      BY <1>1, <2>2 DEF QueueTypeOK
    <3>2. queue'[LineSub] = Tail(queue[LineSub])
      BY <1>1, <2>1, <2>2, TakeOther
    <3> QED  BY <2>2, <3>1, <3>2, TakenLast
  <2>4. ASSUME planEpisode = episode, planLine # NoRoute PROVE line' = planLine
    <3>1. l = planLine
      BY <2>2, <2>4 DEF AgreeInv
    <3>2. planLine.tick \in Nat /\ \A e \in Episodes : e <= planLine.tick
      BY <2>4, PlannerUpToDate
    <3>3. ctrlStart <= planLine.tick
      BY <1>1, <3>2 DEF AgreeInv
    <3>4. ~ CtrlBeforeEpisode(planLine.tick)
      BY <1>1, <3>2, <3>3 DEF CtrlBeforeEpisode
    <3> QED  BY <2>1, <3>1, <3>4
  <2>5. Agreed
    BY <2>1, <2>3, <2>4
  <2> QED  BY <1>3, <2>1, <2>5 DEF AgreeInv
<1> QED  BY <1>5, <1>6, <1>7, <1>8, <1>9 DEF Next, Finished

(* Initially no line was planned. *)
LEMMA AgreeInit == Init => AgreeInv
<1> SUFFICES ASSUME Init PROVE AgreeInv
  OBVIOUS
<1>1. /\ ctrlStart = 0 /\ planLine = NoRoute /\ ctrlEpisode = -1 /\ planEpisode = -1
  BY DEF Init, PlanInit, CtrlInit
<1>2. ASSUME NEW s \in Subscriptions, s[1] # "lane_graph" PROVE queue[s] = <<>>
  BY <1>2, SendOther DEF Init, NoMessages
<1>3. \A s \in ResetSubs : 1 .. Len(queue[s]) = {}
  BY <1>2 DEF ResetSubs
<1>4. LineSub \in Subscriptions => Len(queue[LineSub]) <= 1
  <2>1. LineSub[1] # "lane_graph"
    BY DEF LineSub, CtrlSub
  <2> QED  BY <1>2, <2>1
<1> QED  BY <1>1, <1>3, <1>4 DEF AgreeInv

(* What the agreement on the line rests on. *)
LinesInv == IInv /\ EpisodeInv /\ CtrlEpisode /\ LineInv /\ PlanEpisode /\ AgreeInv

LEMMA LinesInit == Init => LinesInv
<1>1. Init => LineInv
  BY DEF Init, CtrlInit, LineInv
<1> QED  BY <1>1, InitType, InitGate, EpisodeInit, PlanEpisodeInit, AgreeInit DEF LinesInv, IInv

LEMMA LinesStep ==
  ASSUME ResetFirst, MaxEpisode < EventDepth, LinesInv, [Next]_vars
  PROVE  LinesInv'
BY StepGate, EpisodeStep, CtrlEpisodeStep, LineStep, PlanEpisodeStep, AgreeStep DEF LinesInv, IInv

(* A subscription of which nothing pends is empty. *)
LEMMA NothingPends ==
  ASSUME TypeOK, NEW topic, NEW node, <<topic, node>> \in Subscriptions,
         Pending(topic, node) = {}
  PROVE  queue[<<topic, node>>] = <<>>
<1> DEFINE s == <<topic, node>>
<1>1. Contents(queue[s]) = {} /\ queue[s] \in Seq(Message)
  BY DEF Pending, TypeOK, QueueTypeOK
<1> SUFFICES ASSUME queue[s] # <<>> PROVE FALSE
  OBVIOUS
<1>2. 1 \in DOMAIN queue[s]
  BY <1>1
<1>3. queue[s][1] \in Contents(queue[s])
  BY <1>2 DEF Contents
<1> QED  BY <1>1, <1>3

LEMMA LinesInvAgree == LinesInv => LineAgreement
<1> SUFFICES ASSUME LinesInv, ctrlEpisode = episode, planEpisode = episode,
                    Pending("reference_line", "controller") = {}, planLine # NoRoute
             PROVE  line = planLine
  BY DEF LineAgreement
<1>1. LineSub = <<"reference_line", "controller">> /\ episode \in Nat /\ TypeOK
  BY DEF LineSub, CtrlSub, LinesInv, IInv, TypeOK, WorldTypeOK
<1>2. LineSub \in Subscriptions
  BY <1>1 DEF LinesInv, AgreeInv
<1>3. queue[LineSub] = <<>>
  BY <1>1, <1>2, NothingPends
<1> QED  BY <1>2, <1>3 DEF LinesInv, AgreeInv

(* Once both are in the current episode and no line is on its way, the controller *)
(* follows the planner's line, for every number of nodes, ticks and timeouts and up *)
(* to nine resets, if a ResetEvent overtakes no data: what OnReferenceLine drops is   *)
(* never the planner's latest line, and OnResetEvent never wipes it.                    *)
THEOREM LinesAgree ==
  ASSUME ResetFirst, MaxEpisode < EventDepth
  PROVE  Spec => []LineAgreement
<1>1. LinesInv /\ [Next]_vars => LinesInv'
  BY LinesStep
<1> QED  BY <1>1, LinesInit, LinesInvAgree, PTL DEF Spec

-------------------------------------------------------------------------------
(* ---- the newest route takes over ----------------------------------------- *)

WaySub == PlanSub("waypoints")

(* The waypoints m are those of the newest episode, and no planner drops them. *)
NewestRoute(m) ==
  m.route = episode /\ \A e \in Episodes : ~ PlanBeforeEpisode(m.tick, e)

(* The planner's line follows its waypoints; once the route of the newest episode *)
(* is published, it is the one queued for the planner or the one it has.           *)
WaypointInv ==
  /\ routed <= episode
  /\ phase = "gate" \/ ~ startupPending =>
       phase # "peers" /\ \A e \in Episodes : e <= now
  /\ planStart \in Episodes \cup {0}
  /\ planLine # NoRoute => planLine.route = waypoints.route
  /\ WaySub \in Subscriptions =>
       /\ Len(queue[WaySub]) <= 1
       /\ routed = episode /\ episode > 0 =>
            NewestRoute(IF queue[WaySub] = <<>> THEN waypoints ELSE Head(queue[WaySub]))

(* Only the harness publishes waypoints, and only the planner takes them. *)
LEMMA WayQueueKept ==
  ASSUME TypeOK, WaySub \in Subscriptions,
         \/ WorldStep \/ PoseStep \/ CtrlStep \/ UNCHANGED vars
         \/ PlanStep /\ ~ OnWaypoints
  PROVE  queue'[WaySub] = queue[WaySub]
<1>1. QueueTypeOK /\ WaySub[1] = "waypoints" /\ WaySub[2] = "route_planner"
  BY DEF TypeOK, WaySub, PlanSub
<1>2. \A q, topic, m : topic # "waypoints" => Send(q, topic, m)[WaySub] = q[WaySub]
  BY <1>1, SendOther
<1>3. ASSUME NEW t, Ready(t), t # WaySub PROVE Take(t)[WaySub] = queue[WaySub]
  BY <1>1, <1>3, TakeOther
<1>4. CASE WorldStep
  <2>1. \/ queue' = queue
        \/ \E topic, m : topic # "waypoints" /\ queue' = Send(queue, topic, m)
        \/ \E a, b : queue' = Send(Send(queue, "ego_odom", a), "vehicle_state", b)
        \/ /\ Ready(<<"command", "world_manager">>)
           /\ queue' = Take(<<"command", "world_manager">>)
    BY <1>4
    DEF WorldStep, WorldNext, TickThread, Startup, ApplyReset, PublishResetEvent, TickWorld,
        PassGate, TimeOutGate, OnControlCommand
  <2>2. <<"command", "world_manager">> # WaySub
    BY <1>1
  <2> QED  BY <1>2, <1>3, <2>1, <2>2
<1>5. CASE PoseStep
  <2>1. PICK topic : /\ Ready(PoseSub(topic))
                     /\ \/ queue' = Take(PoseSub(topic))
                        \/ \E k, buf : Run(k, buf, Take(PoseSub(topic)))
    BY <1>5 DEF PoseStep, PoseNext, PoseOnResetEvent, OnInput, PoseOnTickTimeout
  <2>2. PoseSub(topic) # WaySub
    BY <1>1 DEF PoseSub
  <2>3. Take(PoseSub(topic))[WaySub] = queue[WaySub]
    BY <1>3, <2>1, <2>2
  <2> QED  BY <1>2, <2>1, <2>3 DEF Run
<1>6. CASE CtrlStep
  <2>1. PICK topic : /\ Ready(CtrlSub(topic))
                     /\ \/ queue' = Take(CtrlSub(topic))
                        \/ \E m : queue' = Send(Take(CtrlSub(topic)), "command", m)
    BY <1>6
    DEF CtrlStep, CtrlNext, CtrlOnResetEvent, OnReferenceLine, CtrlOnPose, CtrlOnTickTimeout,
        Answer
  <2>2. CtrlSub(topic) # WaySub
    BY <1>1 DEF CtrlSub
  <2>3. Take(CtrlSub(topic))[WaySub] = queue[WaySub]
    BY <1>3, <2>1, <2>2
  <2> QED  BY <1>2, <2>1, <2>3
<1>7. CASE PlanStep /\ ~ OnWaypoints
  <2>1. PICK topic \in {"lane_graph", "reset_event", "pose"} :
          /\ Ready(PlanSub(topic))
          /\ \/ queue' = Take(PlanSub(topic))
             \/ \E m : queue' = Send(Take(PlanSub(topic)), "reference_line", m)
    <3>1. \A k, n, q : Plan(k, n, q) \/ CheckReroute(k, q) =>
             queue' = q \/ \E m : queue' = Send(q, "reference_line", m)
      BY DEF Plan, CheckReroute
    <3> QED  BY <1>7, <3>1 DEF PlanStep, PlanNext, OnLaneGraph, PlanOnResetEvent, PlanOnPose
  <2>2. PlanSub(topic) # WaySub
    BY <1>1 DEF PlanSub
  <2>3. Take(PlanSub(topic))[WaySub] = queue[WaySub]
    BY <1>3, <2>1, <2>2
  <2> QED  BY <1>2, <2>1, <2>3
<1> QED  BY <1>4, <1>5, <1>6, <1>7 DEF vars

(* The tick thread announces an episode before the harness has a route for it. *)
LEMMA WaypointWorldStep ==
  ASSUME MaxEpisode < EventDepth, IInv, EpisodeInv, WaypointInv, WorldStep
  PROVE  WaypointInv'
<1>1. /\ TypeOK /\ now \in Nat /\ episode \in Nat /\ routed \in Nat
      /\ episodeTicks \in Seq(Nat) /\ Len(episodeTicks) \in Nat /\ Episodes \subseteq Nat
  BY ResetTypes DEF IInv, TypeOK, WorldTypeOK, RunnerTypeOK
<1>2. UNCHANGED <<routed, planStart, planLine, waypoints>>
  BY DEF WorldStep, planVars
<1>3. WaySub \in Subscriptions => queue'[WaySub] = queue[WaySub]
  BY <1>1, WayQueueKept
<1>4. CASE Startup \/ ApplyReset
  <2>1. /\ episodeTicks' = Append(episodeTicks, now + 1) /\ phase' # "gate" /\ startupPending'
        /\ \/ episode' = 0
           \/ episode' = episode + 1
    <3>1. Startup => startupPending /\ episode = 0
      BY <1>1 DEF Startup, WaypointInv, EpisodeInv, TypeOK, WorldTypeOK
    <3> QED  BY <1>4, <3>1 DEF Startup, ApplyReset, PublishResetEvent
  <2>2. Startup => routed <= episode'
    BY DEF Startup, WaypointInv
  <2>3. ApplyReset => episode' = episode + 1
    BY DEF ApplyReset
  <2>4. routed <= episode' /\ ~ (routed = episode' /\ episode' > 0)
    BY <1>1, <1>4, <2>1, <2>2, <2>3 DEF WaypointInv
  <2>5. Episodes \subseteq Episodes'
    <3>1. /\ DOMAIN episodeTicks = 1 .. Len(episodeTicks)
          /\ DOMAIN episodeTicks' = 1 .. Len(episodeTicks) + 1
          /\ \A i \in 1 .. Len(episodeTicks) : episodeTicks'[i] = episodeTicks[i]
      BY <1>1, <2>1, AppendAt
    <3>2. \A i \in DOMAIN episodeTicks : i \in DOMAIN episodeTicks'
      BY <1>1, <3>1
    <3> QED  BY <3>1, <3>2 DEF Episodes
  <2> QED  BY <1>2, <1>3, <2>1, <2>4, <2>5 DEF WaypointInv, WaySub, PlanSub
<1>5. ASSUME UNCHANGED <<episode, episodeTicks>>,
             phase' = "gate" \/ ~ startupPending' =>
               phase' # "peers" /\ \A e \in Episodes : e <= now'
      PROVE  WaypointInv'
  BY <1>2, <1>3, <1>5 DEF WaypointInv, NewestRoute, Episodes, WaySub, PlanSub
<1>6. CASE TickWorld
  BY <1>5, <1>6 DEF TickWorld, EpisodeInv
<1>7. CASE PassGate \/ TimeOutGate
  BY <1>5, <1>7 DEF PassGate, TimeOutGate, WaypointInv
<1>8. CASE OnControlCommand
  BY <1>5, <1>8 DEF OnControlCommand, WaypointInv
<1> QED  BY <1>4, <1>6, <1>7, <1>8 DEF WorldStep, WorldNext, TickThread

(* The harness publishes the route of the newest episode, without a stamp or with one *)
(* that is not before it: the tick that started the episode has passed.                *)
LEMMA WaypointRunnerStep ==
  ASSUME IInv, WaypointInv, RunnerStep
  PROVE  WaypointInv'
<1>1. /\ QueueTypeOK /\ now \in Nat /\ episode \in Nat /\ Episodes \subseteq Nat
  BY ResetTypes DEF IInv, TypeOK, WorldTypeOK
<1>2. PICK k \in {0, now} : queue' = Send(queue, "waypoints", [tick |-> k, route |-> episode])
  BY DEF RunnerStep, PublishWaypoints
<1> DEFINE w == [tick |-> k, route |-> episode]
<1>3. w \in RouteMsg /\ w.tick = k /\ w.route = episode
  BY <1>1 DEF RouteMsg
<1>4. /\ routed' = episode /\ ~ startupPending
      /\ UNCHANGED <<planStart, planLine, waypoints, episode, episodeTicks, now, phase,
                     startupPending>>
  BY DEF RunnerStep, PublishWaypoints, planVars, worldVars
<1>5. NewestRoute(w)
  BY <1>1, <1>3, <1>4 DEF NewestRoute, WaypointInv, PlanBeforeEpisode
<1> HIDE DEF w
<1>6. ASSUME WaySub \in Subscriptions
      PROVE  Len(queue'[WaySub]) = 1 /\ queue'[WaySub] # <<>> /\ Head(queue'[WaySub]) = w
  <2>1. queue[WaySub] \in Seq(RouteMsg) /\ Len(queue[WaySub]) <= 1
    BY <1>1, <1>6, PayloadOf DEF QueueTypeOK, WaypointInv, WaySub, PlanSub
  <2>2. queue'[WaySub] = KeepLast(Append(queue[WaySub], w), 1)
    BY <1>2, <1>6 DEF Send, Depth, LatchedDepth, WaySub, PlanSub, w
  <2> QED  BY <1>3, <2>1, <2>2, LatestOnly
<1>7. episode <= episode /\ 1 <= 1
  BY <1>1
<1>8. NewestRoute(w)'  <=> NewestRoute(w)
  BY <1>2, <1>4 DEF NewestRoute, Episodes, w
<1> QED  BY <1>4, <1>5, <1>6, <1>7, <1>8 DEF WaypointInv, Episodes, NewestRoute, WaySub, PlanSub

(* The planner keeps the waypoints of the newest episode through a ResetEvent, takes *)
(* them when they come, and plans from those it has.                                  *)
LEMMA WaypointPlanStep ==
  ASSUME IInv, AgreeInv, WaypointInv, PlanStep
  PROVE  WaypointInv'
<1>1. /\ TypeOK /\ QueueTypeOK /\ Episodes \subseteq Nat
      /\ \A s \in ResetSubs : queue[s] \in Seq(ResetMsg)
  BY ResetTypes DEF IInv, TypeOK
<1>2. UNCHANGED <<routed, episode, episodeTicks, now, phase, startupPending>>
  BY DEF PlanStep, worldVars
<1>3. WaySub \in Subscriptions /\ ~ OnWaypoints => queue'[WaySub] = queue[WaySub]
  BY <1>1, WayQueueKept
<1> DEFINE Newest == routed = episode /\ episode > 0
<1>4. ASSUME planStart' \in Episodes \cup {0}, ~ OnWaypoints,
             planLine' # NoRoute => planLine'.route = waypoints'.route,
             WaySub \in Subscriptions /\ Newest /\ queue[WaySub] = <<>> => waypoints' = waypoints
      PROVE  WaypointInv'
  BY <1>2, <1>3, <1>4 DEF WaypointInv, NewestRoute, Episodes, WaySub, PlanSub
<1>5. CASE OnLaneGraph /\ ~ OnWaypoints
  BY <1>4, <1>5 DEF OnLaneGraph, WaypointInv
<1>6. CASE PlanOnPose /\ ~ OnWaypoints
  <2>1. UNCHANGED <<waypoints, planStart>>
    BY <1>6 DEF PlanOnPose
  <2>2. \A k, n, q : Plan(k, n, q) \/ CheckReroute(k, q) =>
          planLine' = planLine \/ planLine'.route = waypoints.route
    <3>1. \A k : [tick |-> k, route |-> waypoints.route].route = waypoints.route
      OBVIOUS
    <3> QED  BY <3>1 DEF Plan, CheckReroute
  <2>3. planLine' = planLine \/ planLine'.route = waypoints.route
    BY <1>6, <2>2 DEF PlanOnPose
  <2> QED  BY <1>4, <1>6, <2>1, <2>3 DEF WaypointInv
<1>7. CASE PlanOnResetEvent /\ ~ OnWaypoints
  <2> DEFINE r == PlanSub("reset_event")
             e == Head(queue[r])
  <2>1. r \in ResetSubs /\ queue[r] # <<>>
    BY <1>7 DEF PlanOnResetEvent, Ready, ResetSubs, PlanSub
  <2>2. e.tick \in Episodes
    <3>1. 1 \in 1 .. Len(queue[r]) /\ e = queue[r][1]
      BY <1>1, <2>1
    <3> QED  BY <2>1, <3>1 DEF AgreeInv
  <2>3. CASE UNCHANGED planVars
    BY <1>4, <1>7, <2>3 DEF planVars, WaypointInv
  <2>4. CASE /\ planStart' = e.tick /\ planLine' = NoRoute
             /\ waypoints' = IF PlanBeforeEpisode(waypoints.tick, e.tick) THEN NoRoute ELSE waypoints
    <3>1. WaySub \in Subscriptions /\ Newest /\ queue[WaySub] = <<>> =>
            ~ PlanBeforeEpisode(waypoints.tick, e.tick)
      BY <2>2 DEF WaypointInv, NewestRoute
    <3> HIDE DEF e
    <3> QED  BY <1>4, <1>7, <2>2, <2>4, <3>1
  <2> QED  BY <1>7, <2>3, <2>4 DEF PlanOnResetEvent, ClearRoute
<1>8. CASE OnWaypoints
  <2> DEFINE w == Head(queue[WaySub])
  <2>1. WaySub \in Subscriptions /\ queue[WaySub] # <<>> /\ Ready(WaySub) /\ queue' = Take(WaySub)
    BY <1>8 DEF OnWaypoints, Ready, WaySub
  <2>2. queue'[WaySub] = <<>> /\ Len(queue'[WaySub]) <= 1
    <3>1. queue[WaySub] \in Seq(Message) /\ Len(queue[WaySub]) <= 1
      BY <1>1, <2>1 DEF QueueTypeOK, WaypointInv
    <3>2. queue'[WaySub] = Tail(queue[WaySub])
      BY <1>1, <2>1, TakeOther
    <3> QED  BY <2>1, <3>1, <3>2, TakenLast
  <2>3. planStart' = planStart /\ (planLine' # NoRoute => planLine'.route = waypoints'.route)
    BY <1>8 DEF OnWaypoints, planVars, ClearRoute, WaypointInv
  <2>4. Newest => NewestRoute(w)
    BY <2>1 DEF WaypointInv
  <2>5. NewestRoute(w) => waypoints' = w
    <3>1. \A k \in Nat : ~ PlanBeforeEpisode(k, 0)
      BY DEF PlanBeforeEpisode
    <3>2. w.tick \in Nat
      BY <1>1, <2>1, HeadType
    <3>3. NewestRoute(w) => ~ PlanBeforeEpisode(w.tick, planStart)
      BY <3>1, <3>2 DEF NewestRoute, WaypointInv
    <3> QED  BY <1>8, <3>3 DEF OnWaypoints, WaySub
  <2>6. Newest => NewestRoute(waypoints')
    BY <2>4, <2>5
  <2> HIDE DEF w
  <2> QED  BY <1>2, <2>1, <2>2, <2>3, <2>6 DEF WaypointInv, NewestRoute, Episodes, WaySub, PlanSub
<1> QED  BY <1>5, <1>6, <1>7, <1>8 DEF PlanStep, PlanNext

(* WaypointInv is inductive. *)
LEMMA WaypointStep ==
  ASSUME MaxEpisode < EventDepth, IInv, EpisodeInv, AgreeInv, WaypointInv, [Next]_vars
  PROVE  WaypointInv'
<1>1. CASE PoseStep \/ CtrlStep \/ UNCHANGED vars
  <2>1. WaySub \in Subscriptions => queue'[WaySub] = queue[WaySub]
    BY <1>1, WayQueueKept DEF IInv
  <2>2. UNCHANGED <<routed, episode, episodeTicks, now, phase, startupPending, planStart,
                    planLine, waypoints>>
    BY <1>1 DEF PoseStep, CtrlStep, vars, worldVars, planVars
  <2> QED  BY <2>1, <2>2 DEF WaypointInv, NewestRoute, Episodes, WaySub, PlanSub
<1> QED
  BY <1>1, WaypointWorldStep, WaypointRunnerStep, WaypointPlanStep DEF Next, Finished

(* Initially no route is published. *)
LEMMA WaypointInit == Init => WaypointInv
<1> SUFFICES ASSUME Init PROVE WaypointInv
  OBVIOUS
<1>1. /\ routed = 0 /\ episode = 0 /\ phase = "peers" /\ startupPending = TRUE
      /\ planStart = 0 /\ planLine = NoRoute
  BY DEF Init, WorldInit, PlanInit, RunnerInit
<1>2. WaySub \in Subscriptions => queue[WaySub] = <<>>
  BY SendOther DEF Init, NoMessages, WaySub, PlanSub
<1> QED  BY <1>1, <1>2 DEF WaypointInv

(* Once the route of the newest episode is published and handled and the planner has a *)
(* line, the controller follows that route, with and without stamps on the waypoints,   *)
(* for every number of nodes, ticks and timeouts and up to nine resets, if a ResetEvent *)
(* overtakes no data: no reset drops the newest waypoints, and no old line outlives      *)
(* them in the planner.                                                                  *)
THEOREM NewestRouteHolds ==
  ASSUME ResetFirst, MaxEpisode < EventDepth
  PROVE  Spec => []NewestRouteFollowed
<1> DEFINE Inv == LinesInv /\ WaypointInv
<1>1. Init => Inv
  BY LinesInit, WaypointInit
<1>2. Inv /\ [Next]_vars => Inv'
  BY LinesStep, WaypointStep DEF LinesInv
<1>3. Inv => NewestRouteFollowed
  <2> SUFFICES ASSUME Inv, routed = episode, episode > 0, ctrlEpisode = episode,
                      planEpisode = episode, Pending("waypoints", "route_planner") = {},
                      Pending("reference_line", "controller") = {}, planLine # NoRoute
               PROVE  line.route = episode
    BY DEF NewestRouteFollowed
  <2>1. TypeOK /\ episode \in Nat
    BY DEF LinesInv, IInv, TypeOK, WorldTypeOK
  <2>2. WaySub \in Subscriptions
    <3>1. PlanSub("reset_event") \in Subscriptions
      BY <2>1 DEF LinesInv, AgreeInv
    <3> QED
      BY <3>1 DEF Subscriptions, WaySub, PlanSub, TopicNames, Subscribers, AllNodes
  <2>3. queue[WaySub] = <<>>
    BY <2>1, <2>2, NothingPends DEF WaySub, PlanSub
  <2>4. planLine.route = episode
    BY <2>2, <2>3 DEF WaypointInv, NewestRoute
  <2> QED  BY <2>4, LinesInvAgree DEF LineAgreement
<1> QED  BY <1>1, <1>2, <1>3, PTL DEF Spec
===============================================================================
