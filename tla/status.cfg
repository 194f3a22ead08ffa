SPECIFICATION StatusSpec
CONSTANTS
  a = a
  b = b
  c = c
  NoPeer = NoPeer
  NoStatus = NoStatus
  Node <- StrayNode
  Config <- StrayConfig
  Peer <- StrayPeer
  Preempt = TRUE
  EqualPriority = FALSE
  IntervalA = 1
  IntervalB = 1
  IntervalC = 1
  DeadFactor = 2
  HoldDown = 0
  Jitter = 0
  MaxDelay = 0
  Prompt = TRUE
  Fifo = FALSE
  FaultKinds = {"crash", "stop", "fatal", "sendError", "wake"}
  MaxFaults = 1
  Faulty = {a}
  MaxTasks = 0
  MaxCount = 1
  Cap = 3
INVARIANTS StatusTypeOK StatusIsCoherent PeerAliveIsTrue DuplicateIdIsShown
