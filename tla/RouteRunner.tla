----------------------------- MODULE RouteRunner -----------------------------
(***************************************************************************)
(* What tools/eval's route_runner.py does to the running stack: once the   *)
(* reset service has answered, which it does after the first tick of the   *)
(* episode, it publishes the whole route of the episode as waypoints.  The *)
(* routes are numbered by the episode they are meant for.                  *)
(***************************************************************************)
EXTENDS Topics

CONSTANT WaypointStamps   \* whether a route may be stamped (TRUE), be without a
                          \* stamp (FALSE), which is what route_runner.py sends

ASSUME RunnerAssumption == WaypointStamps \subseteq BOOLEAN

VARIABLE routed          \* the newest episode whose route was published

RunnerTypeOK == routed \in Nat

RunnerInit == routed = 0

(* drive() after reset_to() returned for episode e, at tick k. *)
PublishWaypoints(e, k) ==
  /\ e > routed
  /\ routed' = e
  /\ \E stamped \in WaypointStamps :
       queue' = Send(queue, "waypoints",
                     [tick |-> IF stamped THEN k ELSE 0, route |-> e])
==============================================================================
