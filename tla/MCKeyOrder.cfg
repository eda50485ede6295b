SPECIFICATION Spec
CONSTANTS
  IntHalf = 256
  Keys <- WindowKeys
  MaxKeys = 3
INVARIANT NoKeyLost
INVARIANT CursorOrder
INVARIANT GroupsContiguous
