SPECIFICATION FairSpec
CONSTANTS
  Files = 6
  Workers = 2
  Terms = 1
  MaxRows = 3
INVARIANTS
  TypeOK
  MemoryBounded
  ReturnsComplete
  QuietAtEnd
PROPERTIES
  SearchesInTurn
  Terminates
CHECK_DEADLOCK FALSE
