SPECIFICATION PlanSpec
CONSTANTS
  TxWrap = 8
  NsSize = 2
  NsArgs <- HistoryNsArgs
  Selected = {0, 1}
  Requests <- AllRequests
  ReadArgs <- ReaderArgs
  Readers = {r1}
  MaxTx = 4
INVARIANTS
  TypeOK
  SchemaIndexInSync
  ResponseIsStored
  AnswersReproducible
  HistoryInv
  IdentsUnique
  IdentsProtected
PROPERTIES
  AsOfStable
  IdsHandedOutOnce
  ImplementsLog
