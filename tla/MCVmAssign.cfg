CONSTANTS
  Programs <- MCPrograms
  Started <- NothingAssigned
  BuiltinNames <- MCBuiltinNames
  Contents <- MCContents
  StackSize = 16
  Margin = 6
  Garbage = {0}
  MaxCollections = 1
  MaxDepth = 40
SPECIFICATION FairSpec
PROPERTY
  AssignmentBinds
