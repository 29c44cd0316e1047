CONSTANTS
  g = g
  a = a
  b = b
  c = c
  d = d
  f = f
  v1 = v1
  v2 = v2
  v3 = v3
  v4 = v4
  None = None
  Block <- MCBlock
  Genesis = g
  Parent <- MCParent
  Voter <- MCVoter
  Weight <- MCWeight
  InitBase = a
  MaxEquivocations = 1
  Ballot <- AllBallots
SYMMETRY VoterSymmetry
SPECIFICATION Spec
CHECK_DEADLOCK FALSE
INVARIANTS
  GraphShape
  
