SPECIFICATION Spec
CHECK_DEADLOCK FALSE
CONSTANTS
  Conns = {"c1", "c2"}
  MaxConnections = 1
  Callers = {"p1", "p2"}
INVARIANTS
  TypeOK
  Accounting
  CapRespected
  ServeNilDrained
  ShutdownNilDrained
PROPERTIES
  ServeReturns
  ShutdownEnds
