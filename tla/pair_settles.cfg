SPECIFICATION TimedSpec
CONSTANTS
  a = a
  b = b
  NoPeer = NoPeer
  Node <- MCNode
  Config <- MCConfig
  Peer <- MCPeer
  Preempt = TRUE
  EqualPriority = TRUE
  IntervalA = 2
  IntervalB = 2
  DeadFactor = 2
  HoldDown = 0
  Jitter = 1
  MaxDelay = 1
  Prompt = TRUE
  Fifo = TRUE
  FaultKinds = {"crash", "stop"}
  MaxFaults = 1
  Cap = 10
INVARIANTS PairSettles DualOwnershipIsBrief TakeoverIsBounded
