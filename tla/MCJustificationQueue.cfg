SPECIFICATION FairSpec
CONSTANTS
  Top = 7
  Scheduled = {1, 3, 6}
  Forced = {4}
  RangeStart = 2
  WarpSync = TRUE
  Idle = Idle
INVARIANTS
  NoChangeSkipped
  HeldIsAwaited
PROPERTIES
  CatchesUp
