SPECIFICATION FairSpec
CONSTANTS
  Flow = {f1, f2}
  Amounts = {7}
  DistinctAmounts = TRUE
  Funds = 14
  InitialFee = 1
  LedgerFees = {1, 2}
  AdminFees = {1, 2}
  NRetries = 2
  DedupPeriod = 3
  TxWindow = 1
  MaxLatency = 1
  FailingQueries = {}
  LostReplies = FALSE
  MaxFaults = 3
  MaxTransfers = 1
  MaxClock = 5
INVARIANT SettledOrKept
PROPERTY AllRecovered
CHECK_DEADLOCK FALSE
