SPECIFICATION FairSpec
CONSTANTS
  Flow = {f1, f2}
  Amounts = {7}
  DistinctAmounts = TRUE
  Funds = 14
  InitialFee = 1
  LedgerFees = {1}
  AdminFees = {}
  NRetries = 2
  DedupPeriod = 3
  TxWindow = 1
  MaxLatency = 1
  FailingQueries = {"deposit_balance"}
  LostReplies = TRUE
  MaxFaults = 3
  MaxTransfers = 1
  MaxClock = 7
INVARIANT SettledOrKept
PROPERTY AllRecovered
CHECK_DEADLOCK FALSE
