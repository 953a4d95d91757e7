SPECIFICATION Spec
CONSTANTS
  Addr = {"a", "b"}
  NoAddr = "none"
  Byte = {"7bit", "8bit"}
  EightBit = {"8bit"}
  Sizes = {0, 1, 2, 3, 4, 5}
  MaxMessageSize = 2
  MaxChunk = 3
  MaxInt = 5
  MaxRecipients = 2
  RcptBound = 3
  TLSAvailable = TRUE
  RequireTLS = TRUE
  Responses = {250, 503, 550}
INVARIANTS
  TypeOK
  TxInv
  SizeLimit
PROPERTIES
  Implements
