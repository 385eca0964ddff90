SPECIFICATION Spec
CONSTANTS
  Jobs = {j1}
  Workers = {w1, w2, w3}
  NoJob = NoJob
  Faults = {"store", "queue", "crash", "duplicate"}
INVARIANTS
  TypeOK
  AtMostOnce
  SucceededHasReport
  CancelledNeverRuns
  AcceptedKeepsTask
  ServiceInv
PROPERTIES
  ClosedIsFinal
  RevocationHolds
  OrphanedByFaultOnly
  StrandedByFaultOnly
  KeepsPromise
  AcceptedIsSettled
CHECK_DEADLOCK FALSE
