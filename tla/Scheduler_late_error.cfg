SPECIFICATION Spec
CONSTANTS
  MaxU32 = 15
  AppendOptions <- OneRetryOptions
  RescheduleOptions <- NoOptions
  Timeouts = {0}
  DefaultTimeout = 1
  E9 = 1
  U64 = 64
  CallbackReenters = FALSE
  MaxTasks = 1
  MaxBatch = 1
  MaxFailures = 2
  MaxClock = 4
INVARIANT RemovedStaysRemoved
