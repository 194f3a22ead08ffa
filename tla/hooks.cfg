SPECIFICATION StatusSpec
CONSTANTS
  a = a
  b = b
  c = c
  NoPeer = NoPeer
  NoStatus = NoStatus
  Node <- MCNode
  Config <- MCConfig
  Peer <- MCPeer
  Preempt = TRUE
  EqualPriority = FALSE
  IntervalA = 1
  IntervalB = 1
  IntervalC = 1
  DeadFactor = 2
  HoldDown = 0
  Jitter = 0
  MaxDelay = 0
  Prompt = TRUE
  Fifo = FALSE
  FaultKinds = {"crash", "stop", "fatal", "loss", "wake"}
  MaxFaults = 2
  Faulty = {a}
  MaxTasks = 2
  MaxCount = 1
  Cap = 0
PROPERTIES HooksFormAChain
