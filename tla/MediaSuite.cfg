SPECIFICATION MediaSpec
CONSTANTS
  Callers = {p1, p2}
  Paths = {f, g}
  Objects = {x, y}
  Absent = Absent
  MaxChanges = 1
  Engines = {p1, p2}
  Objs = {x}
  MaxHead = 1
  MaxPids = 2
  MaxCatalogWrites = 5
  MaxMishaps = 2
  Manifests = {m1, m2}
  SpaceOf <- OwnSpace
  GenNames = {g1, g2, g3}
  NamedBy <- OwnGenerations
  Sources = {a}
  Contents = {c1, c2}
  Searchers = {q}
  MaxIndexWrites = 6
  Media = {u, v}
  Documents = {d1}
  Originals = {x, y}
  Indexers = {p1, p2}
  MaxEmbedIds = 2
  MaxOriginals = 1
  VecKeys = {u, v}
  Digests = {x, y}
  DirectLimit = 0
  CheckpointChanges = 2
  MaxVecChanges = 4
  Workers = {p1, p2}
  MaxDamage = 1
  Resources = {r1, r2}
  LockOwners = {p1, p2}
  MaxLeases = 4
SYMMETRY MediaSymmetry
CHECK_DEADLOCK FALSE
INVARIANTS
  MediaTypeOK ArchiveIsWhole SimilarityIsExact VectorsAreServed CacheIsVerified
  LocksAreFenced 
PROPERTIES CloseIsTruthful SearchIsCurrent
