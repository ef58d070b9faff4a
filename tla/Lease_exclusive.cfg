CONSTANTS
  Holder = {h1, h2}
  NoHolder = NoHolder
  Ttl = 6
  Renew = 2
  Delay = 1
  BackoffInitial = 1
  BackoffMax = 2
  MaxOrphans = 1
  MaxToken = 3
  MaxVersion = 1
SYMMETRY Symmetry
SPECIFICATION Spec
INVARIANTS ExclusiveJobs LeaseCoversJob
PROPERTIES RefinesOwnership
CHECK_DEADLOCK FALSE
