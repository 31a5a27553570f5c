SPECIFICATION Spec
CONSTANTS
  Node = {1, 2}
  r1 = r1
  c1 = c1
  c2 = c2
  v1 = v1
  v2 = v2
  k1 = k1
  k2 = k2
  Record = {r1}
  Column <- TwoColumns
  Null = Null
  NullText = NullText
  NoColumn = NoColumn
  Value <- ValuesSeen
  UserCell <- CellsWritten
  Connection = {k1}
  NoConnection = NoConnection
  Self = 1
  Incoming <- RemoteChanges
  Faults = {"rollback", "failure", "crash"}
  ClockMax = 4
  MaxClock = 4
  MaxVersion = 3
  MaxQueue = 1
INVARIANTS
  TypeOK
  AheadByOne
PROPERTIES
  ClockAdvances
  VersionsAdvance
  LossesAreDrops
  MismatchesAreDrops
