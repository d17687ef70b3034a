SPECIFICATION Spec
CONSTANTS
  Routes <- RoutesOfTwoTowns
  Programs = {"run_routes"}
  MaxTicks <- TicksPerLaunch
  MaxTimeouts = 1
  SettleTicks = 1
  HoldTicks = 1
  Runs = 2
  ReachV0 = {TRUE}
CHECK_DEADLOCK FALSE
INVARIANT RowOfItsEpisode
