CONSTANTS
  r0 = r0  r1 = r1  r2 = r2  r3 = r3  r4 = r4  r5 = r5  r6 = r6
  na = na  nb = nb  nc = nc  ka = ka  kb = kb  va = va  vb = vb
  None = None
  Block <- MCBlock
  Parent <- MCParent
  Primary = {}
  Node <- MCNode
  Value = {va, vb}
  Kids <- MCKids
  ValueOf <- MCValueOf
  Root <- MCRoot
  ChildTries <- MCChildTries
  Depth = 1
  MaxJobs = 2
  MaxFaults = 1
SPECIFICATION Spec
CHECK_DEADLOCK FALSE
INVARIANTS
  LiveStatesKept
  NothingLeaks
