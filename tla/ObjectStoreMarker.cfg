CONSTANTS
  Hashes = {h1}
  Forgets = {"deleteObject", "gc"}
  Backups = TRUE
  Overlaps = {}
  MaxFaults = 1
SPECIFICATION Spec
SYMMETRY Symmetry
PROPERTY DeletionClearsMarker
