SPECIFICATION FairSpec
CONSTANTS
  Worlds <- Maps
  MapName <- NameOf
  Asks <- AllTowns
  Opens <- OpensAll
  Stem <- StemAll
  Generated <- Straights
  Within <- Substrings
  NoWorld = NoWorld
  Torn = Torn
  Sensors = 1
  MaxLaunch = 2
CHECK_DEADLOCK FALSE
PROPERTY GraphOfItsWorld
