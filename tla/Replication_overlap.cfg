CONSTANTS
  Runtime = {r1, r2}
  MaxLsn = 3
  MaxToken = 2
  MaxGen = 3
  MaxBatch = 1
  MaxRetained = 2
  Exclusive = FALSE
SPECIFICATION Spec
INVARIANTS TypeOK AckedIsDurable AppliedOnce CompletedRebuildIsLive
PROPERTIES OnlyFenceHolderWrites MirrorNeverRegresses
CHECK_DEADLOCK FALSE
