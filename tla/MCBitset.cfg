CONSTANTS
  ENTSIZ = 2
  InitTables = 1
  MaxTables = 5
  NoId = NoId
SPECIFICATION Spec
INVARIANTS
  TypeOK
  SummaryExact
  RoomAhead
  DirsCoverTables
PROPERTIES
  GrowsOnlyWhenFull
  ImplementsIdPool
