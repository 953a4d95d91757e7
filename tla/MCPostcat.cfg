SPECIFICATION Spec
CONSTANTS
  Writers = {w1, w2, w3}
INVARIANTS
  TypeOK
  WholeOrNothing
  Durable
  NoLitter
PROPERTIES
  Implements
