SPECIFICATION Spec
CONSTANTS
  MaxU32 = 15
  AppendOptions <- SafetyOptions
  RescheduleOptions <- OnceOptions
  Timeouts = {0}
  DefaultTimeout = 1
  E9 = 1
  U64 = 64
  CallbackReenters = FALSE
  MaxTasks = 2
  MaxBatch = 2
  MaxFailures = 2
  MaxClock = 3
INVARIANTS
  TypeOK
  OneFuturePerTask
  ActiveTaskHasItsFuture
  NoTaskLost
  FinalIsFinal
  AttemptsBounded
