SPECIFICATION Spec
CONSTANTS
  Jobs = {j1}
  Workers = {w1}
  NoJob = NoJob
  Faults = {}
PROPERTY RevocationTakesEffect
CHECK_DEADLOCK FALSE
