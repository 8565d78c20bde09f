CONSTANTS
  Strings <- MCStrings
  Null <- MCNull
  Hash <- MCHash
  Size = 2
  MaxSize = 8
SPECIFICATION Spec
INVARIANTS
  TypeOK
  ProbesEnd
  KeysFound
PROPERTY
  ImplementsInterning
