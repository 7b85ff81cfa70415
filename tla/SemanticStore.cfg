CONSTANTS
  Ops = {o1, o2, o3}
  Tables = {clips, edits}
  TagTables = {}
  StrayTables = {}
  TargetVersion = 1
  SpareOps = 1
  MaxFaults = 2
SPECIFICATION FairSpec
INVARIANTS TypeOK HistoryIsExact NothingIsOwed
PROPERTIES ImplementsHistory RecoveryFinishes
