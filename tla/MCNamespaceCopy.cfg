CONSTANTS
  Ids <- CopyIds
  Parent <- OneSpace
  Size = 8
  MaxSize = 16
SPECIFICATION Spec
PROPERTY
  GrowthKeeps
