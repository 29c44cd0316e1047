CONSTANTS
  g = g
  a = a
  b = b
  c = c
  v1 = v1
  v2 = v2
  v3 = v3
  v4 = v4
  None = None
  Block <- MCBlock
  Genesis = g
  Parent <- MCParent
  Voter <- MCVoter
  SetWeight <- MCSetWeight
  Me = v1
  Byzantine = {v4}
  LastFinalized = g
  Proposal = {b}
  Setup <- MCSetup
SPECIFICATION FairSpec
CHECK_DEADLOCK FALSE
INVARIANTS
  EstimateBetween
  HandedOnOneChain
  NoEquivocation
  GhostUpToDate
PROPERTIES
  
  GhostEndsPrecommitStage
