SPECIFICATION Spec
CONSTANTS
  QueueDepth = 2
  MaxCommands = 3
  MaxAstray = 2
  Window = 2
  WriteTimeouts = {TRUE}
  Listeners = {"plain"}
PROPERTIES
  PipelinedDiscarded
