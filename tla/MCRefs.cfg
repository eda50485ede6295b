SPECIFICATION Spec
CONSTANTS
  TxWrap = 8
  NsSize = 2
  NsArgs = {0}
  Selected = {0}
  Requests <- ValueAttribute
  ReadArgs = {}
  Readers = {}
  MaxTx = 3
INVARIANT OnlyRefsResolved
