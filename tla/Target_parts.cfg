CONSTANTS
  Key = {k1, k2, k3}
  Value = {v1, v2}
  Toast = Toast
  NoRow = NoRow
  NoKey = NoKey
  MaxChanges = 6
  Label = {a, b, c}
  Tables = 2
  NoType = NoType
  NoRecord = NoRecord
  MaxToken = 2
  MaxLabels = 3
  MaxStatements = 2
  MaxRows = 1
SYMMETRY Symmetry
SPECIFICATION MCSpec
INVARIANTS
  FoldIsExact ReplayDoesNoHarm
  PlanReachesSource RefusesOnlyMixedChanges
CHECK_DEADLOCK FALSE
