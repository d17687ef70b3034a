SPECIFICATION Spec
CONSTANTS
  Nodes = {"gt_pose", "controller"}
  ResetFirst = TRUE
  MaxTick = 4
  MaxEpisode = 2
  MaxTimeouts = 2
  TimeoutKinds = {"lockstep", "startup"}
  RerouteTicks = 1
  PlanOutcomes = {TRUE}
  OffLine = {FALSE}
  WaypointStamps = {FALSE}
INVARIANT TypeOK
INVARIANT FallbackOnlyWhenFlagged
INVARIANT OkMeansAnswered
PROPERTY GateImplemented
