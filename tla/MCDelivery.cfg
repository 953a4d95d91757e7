SPECIFICATION Spec
CONSTANTS
  Digest <- MCDigest
  Calls = {c1, c2}
  GzWriters = {g1, g2}
  LastSecond = 1
  Mails = {m1, m2}
CHECK_DEADLOCK FALSE
INVARIANTS
  TypeOK
  AckedIsStored
  NeverMixed
  CopyIsStored
