SPECIFICATION Spec
CONSTANTS
  Jobs = {j1}
  Workers = {w1}
  NoJob = NoJob
  Faults = {"crash"}
PROPERTY RunningIsClosed
CHECK_DEADLOCK FALSE
