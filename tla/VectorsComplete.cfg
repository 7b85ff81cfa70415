SPECIFICATION SearchSpec
CONSTANTS
  Manifests = {m1}
  SpaceOf <- OwnSpace
  GenNames = {g1, g2}
  NamedBy <- OwnGenerations
  Sources = {a}
  Contents = {c1, c2}
  Searchers = {q}
  MaxIndexWrites = 7
SYMMETRY ContentSymmetry
CHECK_DEADLOCK FALSE
INVARIANT VectorsComplete
