SPECIFICATION FairSpec
CONSTANTS
  Scenes <- EachPart
  Lights = {l1, l2}
  Agents = {a1, a2}
  HistoryLen = 2
  BufferTicks = 4
  SpeedHistoryTicks = 3
  MaxTimeouts = 1
CHECK_DEADLOCK FALSE
INVARIANT TypeOK
INVARIANT EvenlySpacedHistory
INVARIANT OneStaleLight
INVARIANT FallbackOnlyAfterTimeout
PROPERTY OwnSpeedOnceSeen
PROPERTY LastTickAnswered
