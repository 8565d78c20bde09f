CONSTANTS
  Ids <- DeletedIds
  Parent <- MCParent
  Size = 4
  MaxSize = 8
SPECIFICATION Spec
PROPERTY
  OthersStay
