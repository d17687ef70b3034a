SPECIFICATION Spec
CONSTANTS
  Shapes <- SmallShapes
  Empty = Empty
  Means <- FewMeans
  MaxDemand = 5
CHECK_DEADLOCK FALSE
INVARIANT FitTypeOK
INVARIANT DemandReached
