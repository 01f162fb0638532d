SPECIFICATION Spec
CONSTANTS
  Flow = {f1}
  Amounts = {7}
  DistinctAmounts = TRUE
  Funds = 14
  InitialFee = 1
  LedgerFees = {1, 2}
  AdminFees = {}
  NRetries = 2
  DedupPeriod = 3
  TxWindow = 1
  MaxLatency = 1
  FailingQueries = {}
  LostReplies = TRUE
  MaxFaults = 1
  MaxTransfers = 1
  MaxClock = 5
INVARIANT ExactlyOnce
CHECK_DEADLOCK FALSE
