SPECIFICATION TimedSpec
CONSTANTS
  a = a
  b = b
  NoPeer = NoPeer
  Node <- MCNode
  Config <- MCConfig
  Peer <- MCPeer
  Preempt = FALSE
  EqualPriority = FALSE
  IntervalA = 2
  IntervalB = 3
  DeadFactor = 2
  HoldDown = 2
  Jitter = 0
  MaxDelay = 2
  Prompt = TRUE
  Fifo = FALSE
  FaultKinds = {"crash"}
  MaxFaults = 1
  Cap = 14
INVARIANTS TakeoverIsBounded DualOwnershipIsBrief NoFalseTimeout
PROPERTIES EstablishedOwnerKeeps
