CONSTANTS
  Label = {a, b}
  Tables = 2
  NoType = NoType
  NoRecord = NoRecord
  MaxToken = 2
  MaxLabels = 3
  MaxStatements = 1
  MaxRows = 1
SYMMETRY Symmetry
SPECIFICATION TypesSpec
INVARIANTS AddedLabelsAreLoaded
CHECK_DEADLOCK FALSE
