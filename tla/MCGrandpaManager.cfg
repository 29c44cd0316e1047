SPECIFICATION FairSpec
CONSTANTS
  Rounds <- MCRounds
  Changes = {1}
  u = u
  Voter = {u}
  Me = me
  Top = 3
  MaxRestarts = 1
  kKeepRecentRounds = 3
  kCatchUpThreshold = 2
  None = None
INVARIANTS
  ChainIsConsecutive
  HonestRequestAnswered
  VoteOnRecordKept
PROPERTIES
  RoundsOnlyGoUp
  CatchesUpWithPeers
