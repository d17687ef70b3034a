-------------------------------- MODULE Stack --------------------------------
(***************************************************************************)
(* The M0 stack around one tick loop: world_manager, gt_pose_node,         *)
(* pure_pursuit_pid_node, route_planner_node and the harness that feeds it *)
(* routes, connected by their topics.  Each step is one callback of one    *)
(* node, or one step of world_manager's tick thread.                       *)
(***************************************************************************)
EXTENDS WorldManager, GtPoseNode, PurePursuitPidNode, RoutePlannerNode,
        RouteRunner, FiniteSets

vars == <<worldVars, poseVars, ctrlVars, planVars, routed, queue>>

TypeOK ==
  /\ WorldTypeOK /\ PoseTypeOK /\ CtrlTypeOK /\ PlanTypeOK /\ RunnerTypeOK
  /\ QueueTypeOK

Init ==
  /\ WorldInit
  /\ PoseInit
  /\ CtrlInit
  /\ PlanInit
  /\ RunnerInit
  /\ queue = Send(NoMessages, "lane_graph", [tick |-> 0])

WorldStep ==
  WorldNext /\ UNCHANGED <<poseVars, ctrlVars, planVars, routed>>

PoseStep ==
  PoseNext /\ UNCHANGED <<worldVars, ctrlVars, planVars, routed>>

CtrlStep ==
  CtrlNext /\ UNCHANGED <<worldVars, poseVars, planVars, routed>>

PlanStep ==
  PlanNext /\ UNCHANGED <<worldVars, poseVars, ctrlVars, routed>>

(* The reset service answers after the episode's first tick, so the harness  *)
(* is past reset_to() only when that tick no longer pends.                   *)
RunnerStep ==
  /\ ~ startupPending
  /\ PublishWaypoints(episode, now)
  /\ UNCHANGED <<worldVars, poseVars, ctrlVars, planVars>>

Finished == phase = "loop" /\ now = MaxTick /\ UNCHANGED vars

Next == WorldStep \/ PoseStep \/ CtrlStep \/ PlanStep \/ RunnerStep \/ Finished

Spec == Init /\ [][Next]_vars

(* Every node's executor keeps spinning and the tick thread keeps looping.  No   *)
(* fairness for a reset, a gate timeout or the harness: nothing has to ask for   *)
(* one.                                                                          *)
Fairness ==
  /\ WF_vars((Startup \/ TickWorld \/ PassGate) /\ WorldStep)
  /\ WF_vars(OnControlCommand /\ WorldStep)
  /\ WF_vars(PoseStep)
  /\ WF_vars(CtrlStep)
  /\ WF_vars(PlanStep)

FairSpec == Spec /\ Fairness

-------------------------------------------------------------------------------
(* The episode that tick k belongs to (0 before the first ResetEvent). *)
EpisodeOf(k) == Cardinality({i \in DOMAIN episodeTicks : episodeTicks[i] <= k}) - 1

TimedOut(k) == k \in DOMAIN verdict /\ verdict[k] = "error"

(* Some tick of k's episode, up to k, was reported as timed out. *)
Flagged(k) == \E j \in 1 .. k : TimedOut(j) /\ EpisodeOf(j) = EpisodeOf(k)

Pending(topic, node) ==
  IF <<topic, node>> \in Subscriptions
  THEN Contents(queue[<<topic, node>>])
  ELSE {}

(* The lockstep implements TickGate: what the controller published and what *)
(* the gate reported add up to one answer at most per tick, in tick order,  *)
(* and no tick is passed as ok without the command computed for it.         *)
Gate == INSTANCE TickGate
          WITH tick     <- now,
               answered <- [i \in 1 .. Len(answers) |-> answers[i].tick]

GateImplemented == Gate!Spec

(* The world leaves a tick as "ok" only with a command stamped with that very *)
(* tick: no command of an earlier tick or of an earlier episode opens the     *)
(* gate, however late it comes.                                               *)
OkMeansAnswered ==
  \A k \in DOMAIN verdict :
    verdict[k] = "ok" => \E i \in DOMAIN answers : answers[i].tick = k

(* In an episode without a TickTimeout no source is degraded and every pose *)
(* is built from both messages of its tick: gt_pose_node falls back only on *)
(* ticks that a flagged route explains (docs/02 section 2, Degradation).    *)
FallbackOnlyWhenFlagged ==
  /\ barrier.degraded # {} => \E k \in poseStart .. now : TimedOut(k)
  /\ \A p \in Pending("pose", "controller") :
       ~ p.steering => Flagged(p.tick)

(* Once planner and controller are both in the current episode and no line is *)
(* on its way, the controller follows the planner's line: neither a reset nor  *)
(* a late line leaves it with another one, or with none for the rest of the    *)
(* episode.                                                                    *)
LineAgreement ==
  /\ ctrlEpisode = episode /\ planEpisode = episode
  /\ Pending("reference_line", "controller") = {}
  /\ planLine # NoRoute
  => line = planLine

(* Every command follows a line planned in the episode of its tick. *)
FollowsLineOfEpisode ==
  \A i \in 1 .. Len(answers) :
    answers[i].line # NoLine =>
      EpisodeOf(answers[i].line.tick) = EpisodeOf(answers[i].tick)

(* An episode that started on an old route leaves it as soon as the planner has *)
(* handled the waypoints of the episode and has a line: the controller then      *)
(* follows the newest route, whether its waypoints carried a stamp or not and    *)
(* whether they were handled before the ResetEvent or after it                   *)
(* (route_planner_node.cc:139-176, pure_pursuit_pid_node.cc:167-214).            *)
NewestRouteFollowed ==
  /\ routed = episode /\ episode > 0
  /\ ctrlEpisode = episode /\ planEpisode = episode
  /\ Pending("waypoints", "route_planner") = {}
  /\ Pending("reference_line", "controller") = {}
  /\ planLine # NoRoute
  => line.route = episode

(* Every command follows the route that the harness meant for its episode. *)
FollowsRouteOfEpisode ==
  \A i \in 1 .. Len(answers) :
    answers[i].line # NoLine =>
      answers[i].line.route = EpisodeOf(answers[i].tick)

(* Nobody starves the gate: with no timeout to help, every tick gets its own  *)
(* command, the first ticks of an episode included.                           *)
EveryTickAnswered ==
  \A k \in 1 .. MaxTick : (now = k) ~> (Len(verdict) >= k /\ verdict[k] = "ok")
===============================================================================
