SPECIFICATION Spec
CONSTANTS
  Execs = {"first", "second", "other process"}
  Procs = {"p1", "p2"}
  Sets = {"t1"}
  ProcOf <- MCProcOf
  SetOf <- MCSetOf
  NoExec = NoExec
INVARIANTS
  ReadyIsComplete
  TablesInv
PROPERTIES
  StatementsOnce
  Settles
CHECK_DEADLOCK FALSE
