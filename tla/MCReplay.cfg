SPECIFICATION Spec
CONSTANTS
  Messages <- MCMessages
  RawContent <- MCRawContent
  Limits = {0, 3}
  MaxLine = 2
CHECK_DEADLOCK FALSE
INVARIANTS
  TypeOK
  RoundTrip
  
  OkDelivered
  EndOfData
  FailsForCause
PROPERTIES
  AcceptedAsSent
  Finishes
