SPECIFICATION Spec
CONSTANTS
  Block <- MCBlock
  Parent <- MCParent
  Primary = {1}
  Goal = 5
  Kept = {0, 2}
  Keep = 1
  Reverts = {1}
  Modes = {"warp", "headers", "full", "recover"}
  MaxStops = 1
  None = None
CHECK_DEADLOCK FALSE
INVARIANTS
  
  BestIsHeaviest
  AncestryIsExact
PROPERTIES
  RestartRestoresTree
  RecentBodiesKept
