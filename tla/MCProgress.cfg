SPECIFICATION PartsSpec
CONSTANTS
  TxWrap = 8
  NsSize = 2
  NsArgs = {0}
  Selected = {0}
  Requests <- ReaderRequests
  ReadArgs <- Asked
  Readers = {r1}
  MaxTx = 1
  s1 = s1
  s2 = s2
  r2 = r2
INVARIANTS
  LinesInOrder
  RepliesWhole
PROPERTIES
  TransactionEnds
  RequestAnswered
  ShutdownEnds
  AllTaken
CHECK_DEADLOCK FALSE
