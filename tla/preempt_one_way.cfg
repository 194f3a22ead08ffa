SPECIFICATION FairSpec
CONSTANTS
  a = a
  b = b
  NoPeer = NoPeer
  Node <- MCNode
  Config <- MCConfig
  Peer <- MCPeer
  Preempt = TRUE
  EqualPriority = FALSE
  IntervalA = 2
  IntervalB = 2
  DeadFactor = 2
  HoldDown = 0
  Jitter = 0
  MaxDelay = 1
  Prompt = TRUE
  Fifo = TRUE
  FaultKinds = {"crash", "cut"}
  MaxFaults = 1
PROPERTIES PairConverges
