SPECIFICATION Spec
CONSTANTS
  Nodes = {"gt_pose", "controller", "route_planner"}
  ResetFirst = TRUE
  MaxTick = 5
  MaxEpisode = 2
  MaxTimeouts = 0
  TimeoutKinds = {}
  RerouteTicks = 1
  PlanOutcomes = {TRUE}
  OffLine = {FALSE}
  WaypointStamps = {FALSE}
INVARIANT FollowsRouteOfEpisode
