SPECIFICATION Spec
CONSTANTS
  Node = {1, 2, 3}
  Record = {r1}
  c1 = c1
  c2 = c2
  v1 = v1
  v2 = v2
  Column <- OneColumn
  Null = Null
  NullText = NullText
  NoColumn = NoColumn
  Value <- ValuesSeen
  UserCell = {v1}
  Parsed = {}
  Contract = "settled"
  MaxWrites = 1
  MaxFaults = 0
  MaxClock = 8
CHECK_DEADLOCK FALSE
PROPERTIES
  NoEcho
