CONSTANTS
  Rel = {a}
  Shape = {s1, s2, full}
  DefaultIdentity = {s1, s2}
  NoShape = NoShape
  MaxChanges = 2
  MaxRows = 2
  MaxTx = 3
  MaxLen = 3
  MaxWal = 3
SYMMETRY Symmetry
SPECIFICATION Spec
INVARIANTS AppliedIsLog OneShapePerGeneration RefusesOnlyTheUnsupported DeliveredIsOutstanding
CHECK_DEADLOCK FALSE
