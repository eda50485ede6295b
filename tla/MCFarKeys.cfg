SPECIFICATION Spec
CONSTANTS
  IntHalf = 256
  Keys <- FarKeys
  MaxKeys = 3
INVARIANT DifferentKeysDiffer
