SPECIFICATION Spec
CONSTANTS
  MaxJobs = 2
  Keys = {k}
  ExternalIDs = {x}
  NoValue = NoValue
  AttemptLimits = {2}
  Concurrency = 1
  OutsideCalls = TRUE
  Deletes = FALSE
  MaxCrashes = 1
CHECK_DEADLOCK FALSE
INVARIANTS TypeOK AttemptsBounded DedupeHolds AuditMatches
PROPERTY TerminalIsFinal
