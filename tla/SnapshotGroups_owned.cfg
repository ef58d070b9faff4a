CONSTANTS
  Table = {t1, t2}
  Fingerprint = {f1, f2}
  NoTable = NoTable
  Foreign = Foreign
  MaxToken = 3
  MaxGen = 2
  MaxDdl = 2
  MaxForeign = 1
SYMMETRY Symmetry
SPECIFICATION Spec
INVARIANTS ActiveTablesAreOneGroup QuarantineIsCollectable ShadowsAreAccountedFor OwnerIsNotBlocked
PROPERTIES ForeignNeverDropped
CHECK_DEADLOCK FALSE
