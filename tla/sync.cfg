SPECIFICATION FairSpec
CONSTANTS
  Node = {1, 2}
  Record = {r1}
  c1 = c1
  c2 = c2
  v1 = v1
  v2 = v2
  Column <- TwoColumns
  Null = Null
  NullText = NullText
  NoColumn = NoColumn
  Value <- ValuesSeen
  UserCell <- CellsWritten
  Parsed <- NumberColumn
  Contract = "settled"
  MaxWrites = 3
  MaxFaults = 1
  MaxClock = 8
CHECK_DEADLOCK FALSE
INVARIANTS
  TypeOK
  CursorsLeaveNoGap
  SyncedReplicasAgree
PROPERTIES
  NoResurrection
  SyncedOrRefused
