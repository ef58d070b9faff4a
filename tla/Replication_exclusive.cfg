CONSTANTS
  Runtime = {r1}
  MaxLsn = 4
  MaxToken = 2
  MaxGen = 2
  MaxBatch = 2
  MaxRetained = 2
  Exclusive = TRUE
SPECIFICATION FairSpec
INVARIANTS MirrorIsPrefix BarrierNotCrossed
PROPERTIES RefinesMirror JobSettles CatchesUp
CHECK_DEADLOCK FALSE
