CONSTANTS
  Ids <- MCIds
  Parent <- MCParent
  Size = 4
  MaxSize = 8
SPECIFICATION Spec
INVARIANTS
  TypeOK
  ProbesEnd
  KeysFound
PROPERTY
  ImplementsScopes
