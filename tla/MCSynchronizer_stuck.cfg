SPECIFICATION Spec
CONSTANTS
  Block <- MCBlock
  Parent <- MCParent
  Primary = {}
  Peer = {1, 2}
  PeerBest <- MCPeerBest
  Recent = {1, 3}
  Final = {1}
  Portion = 2
  Preload = 2
  MaxParallel = 2
  Methods = {"full"}
  MaxRequests = 1
  Fetches = {"headers"}
  MaxTasks = 1
  MaxFaults = 0
CHECK_DEADLOCK FALSE
INVARIANTS
  QueueIsNotStuck
