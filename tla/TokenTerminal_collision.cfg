SPECIFICATION Spec
CONSTANTS
  Flow = {f1, f2}
  Amounts = {7}
  DistinctAmounts = FALSE
  Funds = 14
  InitialFee = 1
  LedgerFees = {1}
  AdminFees = {}
  NRetries = 2
  DedupPeriod = 3
  TxWindow = 1
  MaxLatency = 1
  FailingQueries = {}
  LostReplies = TRUE
  MaxFaults = 4
  MaxTransfers = 2
  MaxClock = 3
INVARIANT RecoverableIsKept
CHECK_DEADLOCK FALSE
