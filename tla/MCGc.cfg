CONSTANTS
  GcStart = 1
  MaxId = 3
  Shapes <- MCShapes
  MaxRoots = 2
  Limit = 4
SPECIFICATION Spec
INVARIANTS
  TypeOK
  KeepsReachable
  MarksCleared
PROPERTIES
  FreesGarbage
  LimitIsFar
