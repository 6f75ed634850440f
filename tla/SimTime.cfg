SPECIFICATION Spec
CONSTANTS
  MaxCount = 31
  NoCount = NoCount
INVARIANTS
  AddIsExact
  SubtractIsExact
  ScaleIsExact
