CONSTANTS
  Runtime = {r1}
  MaxLsn = 3
  MaxToken = 2
  MaxGen = 1
  MaxBatch = 1
  MaxRetained = 3
  Exclusive = FALSE
SPECIFICATION Spec
INVARIANT MirrorIsPrefix
CHECK_DEADLOCK FALSE
