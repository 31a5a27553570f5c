SPECIFICATION FairSpec
CONSTANTS
  Node = {1, 2}
  r1 = r1
  c1 = c1
  c2 = c2
  v1 = v1
  v2 = v2
  k1 = k1
  k2 = k2
  Record = {r1}
  Column <- OneColumn
  Null = Null
  NullText = NullText
  NoColumn = NoColumn
  Value <- ValuesSeen
  UserCell <- CellsWritten
  Connection <- TwoConnections
  NoConnection = NoConnection
  Self = 1
  Incoming <- ChangesPassed
  Faults = {}
  ClockMax = 9
  MaxClock = 2
  MaxVersion = 2
  MaxQueue = 1
CHECK_DEADLOCK FALSE
PROPERTIES
  TombstonesStay
  ProcessingEnds
