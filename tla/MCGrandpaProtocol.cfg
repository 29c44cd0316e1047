CONSTANTS
  g = g
  a = a
  b = b
  v1 = v1
  v2 = v2
  v3 = v3
  v4 = v4
  None = None
  Block <- MCBlock
  Genesis = g
  Parent <- MCParent
  Voter <- MCVoter
  Byzantine = {v4}
  SetWeight <- MCSetWeight
  MaxRound = 2
SYMMETRY VoterSymmetry
SPECIFICATION Spec
CHECK_DEADLOCK FALSE
INVARIANTS
  Agreement
  
PROPERTIES
  ImplementsFinality
