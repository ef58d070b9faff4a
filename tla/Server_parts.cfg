CONSTANTS
  Address = {a1, a2}
  Caller = {c1, c2}
  LoginWindow = 1
  MaxLoginFailures = 1
  MaxFailureAddresses = 1
  MaxSessions = 1
  SessionTtl = 1
  MaxClock = 2
  MaxTokens = 2
  Client = {r1, r2}
  Name = {n1, n2}
  Prefix = {x1, x2}
  TestPermits = 1
  MaxRows = 2
  MaxOperations = 2
  Pipeline = {p1}
  Viewer = {v1}
  MaxLsn = 2
  Migrator = {m1, m2}
  LatestVersion = 3
  Table = {t1, t2}
  Writer = {w1}
  MaxLog = 3
  MaxRelation = 2
  MaxAttempts = 2
SPECIFICATION MCSpec
INVARIANTS
  GuessesAreLimited
  EveryRebuildIsAudited
  TaskIsReported ReportedCheckpointIsDurable ExitLeavesNoJob
  MigrationsAgree
  SnapshotMeetsStream
PROPERTIES AdmittedOnlyWhileOpen GateReopens ShutdownStopsJobs
CHECK_DEADLOCK FALSE
