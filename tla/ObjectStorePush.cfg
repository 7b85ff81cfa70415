CONSTANTS
  Hashes = {h1, h2}
  Forgets = {}
  Backups = TRUE
  Overlaps = {}
  MaxFaults = 0
SPECIFICATION Spec
SYMMETRY Symmetry
PROPERTY RestorableWhenPushed
