SPECIFICATION Spec
CONSTANTS
  Node = {1, 2}
  Record = {r1}
  c1 = c1
  v1 = v1
  Column <- OneColumn
  Null = Null
  NullText = NullText
  NoColumn = NoColumn
  Value <- ValuesSeen
  UserCell <- CellsWritten
  MaxClock = 3
  MaxBatches = 2
INVARIANTS
  TypeOK
  ClockDominates
  StampsFromThePast
  HoldsNewest
  SameVersionSameValue
  RowsTracked
  RowOutlivesTombstone
PROPERTIES
  TombstonesAdvance
  VersionsAdvance
  OwnWritesPassCursors
  DeletionsScreenThePast
