SPECIFICATION FkSpec
CONSTANTS
  FkObjects = {o}
  FkArtifacts = {a}
  FkClips = {k}
  FkTranscripts = {1, 2}
  MaxStamps = 4
CHECK_DEADLOCK FALSE
INVARIANT RerunIsNoOp
