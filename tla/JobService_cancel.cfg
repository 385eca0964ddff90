SPECIFICATION Spec
CONSTANTS
  Jobs = {j1}
  Workers = {w1}
  NoJob = NoJob
  Faults = {}
PROPERTY RunningCancelConflicts
CHECK_DEADLOCK FALSE
