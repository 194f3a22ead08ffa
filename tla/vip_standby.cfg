SPECIFICATION Spec
CONSTANTS
  AddressCount = 2
  MaxTasks = 3
  MaxFailures = 0
  MaxStarts = 1
  Endings = {}
INVARIANTS StandbyHoldsNoVip
CHECK_DEADLOCK FALSE
