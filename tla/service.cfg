SPECIFICATION FairServiceSpec
CONSTANTS
  AddressCount = 2
  MaxTasks = 2
  MaxFailures = 2
  MaxStarts = 1
  Endings = {"graceful", "fault", "crash"}
  Wildcard = TRUE
  MaxAttempts = 2
INVARIANTS
  TypeOK UndisturbedTaskSettles
  ServiceTypeOK GivesUpAfterItsAttempts CleanupIsAwaited
PROPERTIES CleanupEnds ServiceStops
CHECK_DEADLOCK FALSE
