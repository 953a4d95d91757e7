SPECIFICATION Spec
CONSTANTS
  QueueDepth = 2
  MaxCommands = 1
  MaxAstray = 1
  Window = 2
  WriteTimeouts = {TRUE}
  Listeners = {"tls"}
PROPERTIES
  IdleClosesAlways
