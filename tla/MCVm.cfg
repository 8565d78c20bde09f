CONSTANTS
  Programs <- MCPrograms
  Started <- MCStarted
  BuiltinNames <- MCBuiltinNames
  Contents <- MCContents
  StackSize = 16
  Margin = 6
  Garbage = {0}
  MaxCollections = 1
  MaxDepth = 40
SPECIFICATION FairSpec
INVARIANTS
  TypeOK
  StackBalance
  NoDangling
  NoEscape
  StackBounded
  PrintsAsExpected
  ProperUse
PROPERTY
  Terminates
  KeepsProtocol
