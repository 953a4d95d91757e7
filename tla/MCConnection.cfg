SPECIFICATION Spec
CONSTANTS
  QueueDepth = 2
  MaxCommands = 3
  MaxAstray = 2
  Window = 1
  WriteTimeouts = {TRUE}
  Listeners = {"plain"}
INVARIANTS
  TypeOK
  HandoffInv
  ExclusiveRead
  SignalNeverBlocks
  NoLostWakeup
  ContentNeverCommand
  ClearNeverTrusted
PROPERTIES
  InOrder
