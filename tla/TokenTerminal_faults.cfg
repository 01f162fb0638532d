SPECIFICATION Spec
CONSTANTS
  Flow = {f1, f2}
  Amounts = {7, 9}
  DistinctAmounts = TRUE
  Funds = 16
  InitialFee = 1
  LedgerFees = {1}
  AdminFees = {}
  NRetries = 2
  DedupPeriod = 3
  TxWindow = 1
  MaxLatency = 1
  FailingQueries = {}
  LostReplies = TRUE
  MaxFaults = 3
  MaxTransfers = 2
  MaxClock = 6
SYMMETRY AnyFlow
INVARIANTS
  TypeOK
  ExactlyOnce
  SettledRight
  Solvent
  OneOwner
CHECK_DEADLOCK FALSE
