SPECIFICATION FairSpec
CONSTANTS
  Routes <- RoutesOfTwoTowns
  Programs = {"run_routes", "run_sweeps"}
  MaxTicks <- TicksPerLaunch
  MaxTimeouts = 1
  SettleTicks = 1
  HoldTicks = 1
  Runs = 2
  ReachV0 = {TRUE}
CHECK_DEADLOCK FALSE
INVARIANT TypeOK
INVARIANT FirstTownRows
INVARIANT NoStackLeft
INVARIANT EveryRouteReported
INVARIANT CleanSweep
PROPERTY OneStackAtMost
PROPERTY ToolsEnd
