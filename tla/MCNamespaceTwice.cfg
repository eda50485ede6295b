SPECIFICATION FairSpec
CONSTANTS
  TxWrap = 8
  NsSize = 2
  NsArgs = {1}
  Selected = {0}
  Requests <- ValueAttribute
  ReadArgs = {}
  Readers = {}
  MaxTx = 1
PROPERTY NamespaceCreatedOnce
