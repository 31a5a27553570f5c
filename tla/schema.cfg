SPECIFICATION Spec
CONSTANTS
  Column = {a}
  Types = {"INTEGER", "REAL", "TEXT", "BLOB", "blob"}
  Written <- ValuesWritten
  Half <- Halves
  Bytes = {"no bytes", "bytes"}
  Word = {"NULL", "word"}
  Faults = {"rollback", "failure", "crash"}
INVARIANTS
  TypeOK
  CacheLagsWhileDue
  ConformingValuesArrive
  ConformingValuesAreTaken
PROPERTIES
  MissesAreKnown
  GhostsAreRollbacks
