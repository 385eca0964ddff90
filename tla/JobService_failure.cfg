SPECIFICATION Spec
CONSTANTS
  Jobs = {j1}
  Workers = {w1}
  NoJob = NoJob
  Faults = {"queue"}
PROPERTY FailureFitsPhase
CHECK_DEADLOCK FALSE
