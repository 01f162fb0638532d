SPECIFICATION LibrariesSpec
CONSTANTS
  MaxU32 = 31
  Policies <- AllPolicies
  Backoffs <- SmallBackoffs
  MaxFailed = 5
  NanosPerSec = 4
  Nanos64 = 16
  MetricSeconds = {0, 1, 2, 3}
  HistoryLength = 8
  MaxClock = 9
  MaxSamples = 4
  Byte = 4
  Mantissa = 4
  Bidders = {alice, bob}
  Owner = alice
  Bids = {1, 2}
  MinBid = 1
  Seconds = {1, 2}
  NanosPerMilli = 2
  MaxTime = 6
  MaxBid = 2
  CanisterId = "canister"
  OtherId = "other"
  MethodNames = {"m", "n"}
  CallArgs = {1}
  Amounts = {0, 1, 2}
  StartBalance = 1
  MaxAtoms = 1
  MaxHandlers = 2
  MaxBuild = 3
  MaxCalls = 1
  MaxHeld = 2
  Closures <- SmallClosures
  Unset = Unset
  Types = {"t1"}
  Data = {0, 1}
  DefaultData = 0
  Callers = {carol}
  Anonymous = anonymous
  Getters = {"id"}
  CertBytes <- SmallCertBytes
  CertLen = 2
  MaxFlags = 1
  Empty = Empty
  Canisters = {a, b}
  Virtual = {v}
  Test = test
  MaxDepth = 3
  Newest = 3
  Contents = {x, y}
  Sizes = {1, 2, 3}
  PageCells = 2
  MaxPages = 2
  ApiNames = {"m1", "m2"}
  InitArgs <- SmallInitArgs
  MaxMethods = 2
  MaxIdls = 2
  Nothing = Nothing
  Principal = {p1, p2}
  Creator = p1
  Capacities = {0, 1, 2, 3, 5}
  Usize = 16
  None = None
  Invalid = Invalid
  MaxRecords = 10
INVARIANTS
  LibrariesTypeOK
  ScheduleAsDocumented
  NewestIsLast
  TokenArithmetic
  BidsSettledOnce
  CyclesConserved
  WatcherIsTruthful
  CallIsolation
  UpgradesKeepState
  IdlListsEachMethodOnce
  IdsAreAbsolute
  PageFromOffset
  ConfigAsStored
PROPERTY LockedForGood
CHECK_DEADLOCK FALSE
