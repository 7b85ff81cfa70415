SPECIFICATION Spec
CONSTANTS
  MaxJobs = 2
  Keys = {}
  ExternalIDs = {}
  NoValue = NoValue
  AttemptLimits = {2}
  Concurrency = 2
  OutsideCalls = FALSE
  Deletes = TRUE
  MaxCrashes = 1
CHECK_DEADLOCK FALSE
INVARIANT TerminalIsAudited
PROPERTY FencesDecide
