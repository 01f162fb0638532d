SPECIFICATION Spec
CONSTANTS
  Flow = {f1, f2}
  Amounts = {7, 9}
  DistinctAmounts = TRUE
  Funds = 16
  InitialFee = 2
  LedgerFees = {1}
  AdminFees = {}
  NRetries = 2
  DedupPeriod = 3
  TxWindow = 1
  MaxLatency = 1
  FailingQueries = {}
  LostReplies = TRUE
  MaxFaults = 1
  MaxTransfers = 2
  MaxClock = 4
INVARIANT SettledRight
CHECK_DEADLOCK FALSE
