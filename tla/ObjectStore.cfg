SPECIFICATION MCSpec
CONSTANTS
  Hashes = {h1, h2}
  Forgets = {"deleteObject", "gc"}
  Backups = TRUE
  Overlaps = {}
  MaxFaults = 2
SYMMETRY Symmetry
INVARIANTS TypeOK LiveHasBytes StatusIsTruthful
PROPERTIES NoResurrection SeveredByForce
