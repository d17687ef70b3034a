SPECIFICATION Spec
CONSTANTS
  Nodes = {"gt_pose", "controller", "route_planner"}
  ResetFirst = FALSE
  MaxTick = 3
  MaxEpisode = 1
  MaxTimeouts = 0
  TimeoutKinds = {}
  RerouteTicks = 1
  PlanOutcomes = {TRUE}
  OffLine = {FALSE}
  WaypointStamps = {TRUE}
CHECK_DEADLOCK FALSE
INVARIANT LineAgreement
