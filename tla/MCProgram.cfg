SPECIFICATION ProgramSpec
CHECK_DEADLOCK FALSE
CONSTANTS
  CloseFirst = TRUE
  Conns = {"c1", "c2"}
  MaxConnections = 1
  Callers = {"p1"}
INVARIANTS
  GracefulShutdown
