CONSTANTS
  Table = {t1}
  Fingerprint = {f1}
  NoTable = NoTable
  Foreign = Foreign
  MaxToken = 2
  MaxGen = 1
  MaxDdl = 0
  MaxForeign = 0
SYMMETRY Symmetry
SPECIFICATION Spec
INVARIANTS ResumesUnchangedCatalog
CHECK_DEADLOCK FALSE
