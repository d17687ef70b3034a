SPECIFICATION FairSpec
CONSTANTS
  Nodes = {"gt_pose", "controller", "route_planner"}
  ResetFirst = TRUE
  MaxTick = 5
  MaxEpisode = 2
  MaxTimeouts = 0
  TimeoutKinds = {}
  RerouteTicks = 2
  PlanOutcomes = {TRUE, FALSE}
  OffLine = {TRUE, FALSE}
  WaypointStamps = {TRUE, FALSE}
INVARIANT LineAgreement
INVARIANT FollowsLineOfEpisode
INVARIANT NewestRouteFollowed
PROPERTY EveryTickAnswered
