SPECIFICATION Spec
CONSTANTS
  a = a
  b = b
  NoPeer = NoPeer
  Node <- MCNode
  Config <- MCConfig
  Peer <- MCPeer
  Preempt = TRUE
  EqualPriority = FALSE
  IntervalA = 1
  IntervalB = 1
  DeadFactor = 2
  HoldDown = 0
  Jitter = 0
  MaxDelay = 0
  Prompt = FALSE
  Fifo = FALSE
  FaultKinds = {"crash", "stop", "fatal", "sendError", "loss", "duplicate", "cut", "wake"}
  MaxFaults = 1
INVARIANTS TypeOK NoInitAdvertised ConflictMeansYielded
PROPERTIES ConflictIsSticky YieldsOnlyToALiveClaim ImplementsOwnership
