SPECIFICATION Spec
CONSTANTS
  Block <- MCBlock
  Parent <- MCParent
  Primary = {}
  Peer = {1, 2}
  PeerBest <- MCPeerBest
  Recent = {1, 3}
  Final = {1, 2}
  Portion = 2
  Preload = 2
  MaxParallel = 2
  Methods = {"full", "fast"}
  MaxRequests = 1
  Fetches = {"headers"}
  MaxTasks = 1
  MaxFaults = 1
CHECK_DEADLOCK FALSE
INVARIANTS
  NothingLost
  BusyIsOwned
  WorkIsScheduled
  
