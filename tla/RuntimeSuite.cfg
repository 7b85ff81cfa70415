SPECIFICATION RuntimeSpec
CONSTANTS
  MaxJobs = 2
  Keys = {}
  ExternalIDs = {}
  NoValue = NoValue
  AttemptLimits = {2}
  Concurrency = 2
  OutsideCalls = FALSE
  Deletes = FALSE
  MaxCrashes = 1
  Calls = {c1, c2, c3}
  ModelKeys = {k1, k2, k3}
  MaxWorkers = 2
  MaxQueue = 1
  Artifacts = {a1}
  TaskIds = {t1, t2}
  MaxWork = 2
  MaxWrites = 2
CHECK_DEADLOCK FALSE
INVARIANTS RuntimeTypeOK OneHandlerOnTime PoolServes
PROPERTIES JobsEndAudited AnsweredOnce WorkIsOwned
