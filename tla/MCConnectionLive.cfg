SPECIFICATION Spec
CONSTANTS
  QueueDepth = 1
  MaxCommands = 2
  MaxAstray = 1
  Window = 1
  WriteTimeouts = {TRUE, FALSE}
  Listeners = {"plain", "tls"}
PROPERTIES
  ShutdownDrains
  IdleCloses
