SPECIFICATION Spec
CONSTANTS
  Worlds <- Maps
  MapName <- NameOf
  Asks <- OneTown
  Opens <- OpensOne
  Stem <- StemOne
  Generated <- NoFile
  Within <- Substrings
  NoWorld = NoWorld
  Torn = Torn
  Sensors = 2
  MaxLaunch = 1
CHECK_DEADLOCK FALSE
INVARIANT ShutdownAlways
