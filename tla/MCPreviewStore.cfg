SPECIFICATION Spec
CONSTANTS
  n1 = n1
  n2 = n2
  n3 = n3
  planA = planA
  planB = planB
  garbled = garbled
  None = None
  Nonces = {n1, n2, n3}
  Bodies = {planA, planB, garbled}
  Readable = {planA, planB}
  TTL = 1
  MaxTracked = 2
  MaxClock = 2
SYMMETRY Symmetry
INVARIANTS
  TypeOK
  AppliedOnce
  AppliedAsShown
  NeverRevived
  WithinCapacity
  Retained
  ReplyHonest
PROPERTY
  ImplementsSingleUse
