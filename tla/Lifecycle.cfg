SPECIFICATION FairSpec
CONSTANTS
  Worlds <- Maps
  MapName <- NameOf
  Asks <- AllTowns
  Opens <- OpensAll
  Stem <- StemAll
  Generated <- Straights
  Within <- Substrings
  NoWorld = NoWorld
  Torn = Torn
  Sensors = 2
  MaxLaunch = 3
CHECK_DEADLOCK FALSE
INVARIANT TypeOK
INVARIANT ActorsLeft
INVARIANT FrozenServer
INVARIANT GraphMatchesTown
PROPERTY GraphFollows
