CONSTANTS
  Ops = {o1, o2, o3, o4, o5}
  Tables = {clips, tags}
  TagTables = {tags}
  StrayTables = {clips, tags}
  TargetVersion = 2
  SpareOps = 2
  MaxFaults = 1
SPECIFICATION Spec
SYMMETRY OpSymmetry
PROPERTY OpenExposesCleanWorktree
