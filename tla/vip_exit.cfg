SPECIFICATION Spec
CONSTANTS
  AddressCount = 2
  MaxTasks = 2
  MaxFailures = 0
  MaxStarts = 1
  Endings = {"graceful"}
INVARIANTS GracefulExitRemovesVip
CHECK_DEADLOCK FALSE
