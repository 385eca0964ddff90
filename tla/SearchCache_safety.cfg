SPECIFICATION Spec
CONSTANTS
  Objects <- MCObjects
  MaxGen = 2
  Terms = {"t", "u"}
  Hits <- MCHits
  Execs = {"low", "high"}
  Roots = {"r1", "r2"}
  Below <- MCBelow
  MaxFiles <- Limits
  MaxRows <- Limits
  Stamps = {1, 2}
  NoRun = NoRun
  SearchType = "content"
  NoAnswer = NoAnswer
INVARIANTS
  TypeOK
  SnapshotCoherent
  ResultsExact
  DeliveryAudited
  CacheInv
PROPERTY KeepsPromise
CHECK_DEADLOCK FALSE
