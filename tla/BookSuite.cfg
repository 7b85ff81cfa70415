SPECIFICATION BookSpec
CONSTANTS
  Editors = {p1, p2}
  Intents <- ShortIntents
  StartTracks <- ShortTracks
  StartClips <- ShortClips
  SpareTracks <- ShortSpare
  StreamTicks = 5
  MaxRevisions = 3
  StartOrder = {1, 2}
  SpareOrder = {3}
  Movers = {p1, p2}
  DigitBase = 4
  IntegerLimit = 12
  MaxMoves = 5
  NbCallers = {p1, p2}
  Drafts <- BoardDrafts
  Links <- BoardLinks
  Gens = {n1}
  Rows = 2
  Columns = 2
  MaxAsked = 5
  FkObjects = {o}
  FkArtifacts = {a}
  FkClips = {k}
  FkTranscripts = {1, 2}
  MaxStamps = 4
  TagIds = {u, v}
  TagBytes = {b1, b2}
  Analyzers = {n}
  MaxManual = 1
  MaxDismissed = 1
  MaxTagWrites = 3
  MaxTagClock = 1
  HistArtifacts = {h1}
  HistObjects = {x, y}
  HistJobs = {j1}
  MaxRevs = 6
SYMMETRY BookSymmetry
CHECK_DEADLOCK FALSE
INVARIANT BookTypeOK
PROPERTIES
  SequenceStaysWhole EditsAreFaithful BoardKeepsPlaces MergesKeepPromises
  TagsKeepConsent HistoryKeeps
