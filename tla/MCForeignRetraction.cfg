SPECIFICATION Spec
CONSTANTS
  TxWrap = 8
  NsSize = 2
  NsArgs = {1}
  Selected = {0}
  Requests <- ForeignRetraction
  ReadArgs = {}
  Readers = {}
  MaxTx = 4
INVARIANT IdentsUnique
