CONSTANTS
  Holder = {h1, h2}
  NoHolder = NoHolder
  Ttl = 3
  Renew = 1
  Delay = 0
  BackoffInitial = 1
  BackoffMax = 1
  MaxOrphans = 0
  MaxToken = 2
  MaxVersion = 2
SPECIFICATION FairSpec
PROPERTIES EventuallyRuns StaleJobStops
CHECK_DEADLOCK FALSE
