SPECIFICATION PutOrScan
CONSTANTS
  TxWrap = 8
  PutRequests <- Lists
  MaxPuts = 2
  Transactions = 2
INVARIANTS
  ReadsBackWhole
  OnlyFlagsRefuse
  ScanIsLastWriteWins
CHECK_DEADLOCK FALSE
