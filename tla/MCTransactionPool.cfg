SPECIFICATION Spec
CONSTANTS
  t1 = t1
  t2 = t2
  t3 = t3
  t4 = t4
  Tx <- Txs
  Tag <- Tags
  Required <- MCRequired
  Provided <- MCProvided
  ValidTill <- MCValidTill
  Capacity = 2
  Submitter = {s1, s2}
  MaxBlock = 1
INVARIANTS
  PendingIsHeld
  CapacityBound
  
