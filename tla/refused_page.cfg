SPECIFICATION FairSpec
CONSTANTS
  Node = {1, 2}
  Record = {r1}
  c1 = c1
  c2 = c2
  v1 = v1
  v2 = v2
  Column <- NumberColumn
  Null = Null
  NullText = NullText
  NoColumn = NoColumn
  Value <- ValuesSeen
  UserCell <- CellsWritten
  Parsed <- NumberColumn
  Contract = "settled"
  MaxWrites = 3
  MaxFaults = 0
  MaxClock = 8
CHECK_DEADLOCK FALSE
PROPERTIES
  EventuallySynced
