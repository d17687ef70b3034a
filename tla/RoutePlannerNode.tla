-------------------------- MODULE RoutePlannerNode ---------------------------
(***************************************************************************)
(* route_planner_node.cc: plans a route through the latest waypoints on    *)
(* the first valid pose that finds waypoints and no line, and replans once *)
(* RerouteTicks consecutive poses were off the line.  The geometry (A*,    *)
(* the line's samples, the projection) is abstracted to its outcomes; a    *)
(* line is the tick of the pose it starts from and the route it follows.   *)
(***************************************************************************)
EXTENDS Topics, Integers

CONSTANTS
  RerouteTicks,   \* reroute_ticks_
  PlanOutcomes,   \* whether PlanRoute and BuildReferenceLine may succeed, fail
  OffLine         \* whether a pose may be on, off the line

ASSUME PlannerAssumption ==
  /\ RerouteTicks \in Nat \ {0}
  /\ PlanOutcomes \subseteq BOOLEAN
  /\ OffLine \subseteq BOOLEAN

VARIABLES
  planEpisode,   \* episode_id_, -1 before the first ResetEvent
  planStart,     \* episode_tick_, 0 before the first ResetEvent
  waypoints,     \* waypoints_ with their stamp, NoRoute when empty
  planLine,      \* line_, NoRoute when there is none
  offLineTicks,  \* off_line_ticks_
  hasGraph      \* graph_ is there

planVars == <<planEpisode, planStart, waypoints, planLine, offLineTicks, hasGraph>>

NoRoute == [tick |-> 0, route |-> 0]

Routes == [tick : Nat, route : Nat]

PlanTypeOK ==
  /\ planEpisode \in Int
  /\ planStart \in Nat
  /\ waypoints \in Routes
  /\ planLine \in Routes
  /\ offLineTicks \in Nat
  /\ hasGraph \in BOOLEAN

PlanInit ==
  /\ planEpisode = -1
  /\ planStart = 0
  /\ waypoints = NoRoute
  /\ planLine = NoRoute
  /\ offLineTicks = 0
  /\ hasGraph = FALSE

PlanSub(topic) == <<topic, "route_planner">>

(* A zero stamp is "unknown", not "before". *)
PlanBeforeEpisode(k, start) == k # 0 /\ k < start

ClearRoute == planLine' = NoRoute /\ offLineTicks' = 0

(* OnResetEvent: only a newer episode clears anything; waypoints without a *)
(* stamp, or already stamped for the new episode, survive.                 *)
PlanOnResetEvent ==
  LET reset == PlanSub("reset_event")
      e == Head(queue[reset])
  IN  /\ Ready(reset)
      /\ queue' = Take(reset)
      /\ \/ /\ e.episode <= planEpisode
            /\ UNCHANGED planVars
         \/ /\ e.episode > planEpisode
            /\ planEpisode' = e.episode
            /\ planStart' = e.tick
            /\ waypoints' = IF PlanBeforeEpisode(waypoints.tick, e.tick)
                            THEN NoRoute ELSE waypoints
            /\ ClearRoute
            /\ UNCHANGED hasGraph

(* OnLaneGraph: once per map load. *)
OnLaneGraph ==
  LET sub == PlanSub("lane_graph")
  IN  /\ Ready(sub)
      /\ queue' = Take(sub)
      /\ hasGraph' = TRUE
      /\ UNCHANGED <<planEpisode, planStart, waypoints, planLine, offLineTicks>>

(* Mutant: the line of the old waypoints stays until the next reroute. *)
OnWaypointsKeepsLine ==
  LET sub == PlanSub("waypoints")
      w == Head(queue[sub])
  IN  /\ Ready(sub)
      /\ queue' = Take(sub)
      /\ waypoints' = IF PlanBeforeEpisode(w.tick, planStart) THEN waypoints ELSE w
      /\ UNCHANGED <<planEpisode, planStart, planLine, offLineTicks, hasGraph>>

(* OnWaypoints: the whole route of an episode; the next pose plans afresh. *)
OnWaypoints ==
  LET sub == PlanSub("waypoints")
      w == Head(queue[sub])
  IN  /\ Ready(sub)
      /\ queue' = Take(sub)
      /\ \/ /\ PlanBeforeEpisode(w.tick, planStart)
            /\ UNCHANGED planVars
         \/ /\ ~ PlanBeforeEpisode(w.tick, planStart)
            /\ waypoints' = w
            /\ ClearRoute
            /\ UNCHANGED <<planEpisode, planStart, hasGraph>>

(* Plan from the pose of tick k: publish the line, or keep what there was, and *)
(* the count n of off-line poses with it.                                      *)
Plan(k, n, q) ==
  \/ /\ TRUE \in PlanOutcomes
     /\ planLine' = [tick |-> k, route |-> waypoints.route]
     /\ offLineTicks' = 0
     /\ queue' = Send(q, "reference_line", [tick |-> k, route |-> waypoints.route])
  \/ /\ FALSE \in PlanOutcomes
     /\ offLineTicks' = n
     /\ queue' = q
     /\ UNCHANGED planLine

(* CheckReroute: RerouteTicks off-line poses in a row replan; while the replan *)
(* fails, every further off-line pose tries again.                             *)
CheckReroute(k, q) ==
  \E off \in OffLine :
    LET n == IF off THEN offLineTicks + 1 ELSE 0
    IN  \/ /\ n < RerouteTicks
           /\ offLineTicks' = n
           /\ queue' = q
           /\ UNCHANGED planLine
        \/ /\ n >= RerouteTicks
           /\ Plan(k, n, q)

(* OnPose: nothing without a valid pose of this episode, a graph and waypoints. *)
PlanOnPose ==
  LET pose == PlanSub("pose")
      p    == Head(queue[pose])
      rest == Take(pose)
      idle == \/ PlanBeforeEpisode(p.tick, planStart)
              \/ ~ p.valid
              \/ ~ hasGraph
              \/ waypoints = NoRoute
  IN  /\ Ready(pose)
      /\ \/ /\ idle
            /\ queue' = rest
            /\ UNCHANGED <<planLine, offLineTicks>>
         \/ /\ ~ idle /\ planLine = NoRoute
            /\ Plan(p.tick, offLineTicks, rest)
         \/ /\ ~ idle /\ planLine # NoRoute
            /\ CheckReroute(p.tick, rest)
      /\ UNCHANGED <<planEpisode, planStart, waypoints, hasGraph>>

PlanNext == OnLaneGraph \/ PlanOnResetEvent \/ OnWaypoints \/ PlanOnPose
==============================================================================
