CONSTANTS
  Clients = {k1, k2}
  Threads = {main, t1}
  Main = main
SPECIFICATION Spec
INVARIANTS ProgramTypeOK RunLastsUntilClose
PROPERTIES CloseEndsRun PerformReturns ClientsServed
CHECK_DEADLOCK FALSE
