CONSTANTS
  BufferSize = 7
  BuiltinNames <- MCBuiltinNames
  ModuleNames <- MCModuleNames
  CModules <- MCCModules
  PlainOps <- MCPlainOps
  Counted <- MCCounted
  NamedOps <- MCNamedOps
  Parameters <- MCParameters
  Reals <- MCReals
  Strings <- MCStrings
  MaxCalls <- MCMaxCalls
  MaxLines = 2
  MaxDepth = 2
SPECIFICATION Spec
INVARIANTS
  TypeOK
  PosIsAddress
  StringsInPlace
  RunsWhatWasMeant

  
CHECK_DEADLOCK FALSE
