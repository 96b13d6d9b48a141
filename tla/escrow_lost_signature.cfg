CONSTANTS
  Shipment = {s1}
  User = {u1, u2, u3}
  Request = {r1, r2, r3}
  Consumer = consumer
  Null = null
  Amount = {1}
  AutoAmount = 1
  Int4Max = 1
  THRESHOLD = 2
  MaxEvents = 0
  MaxLog = 6
  MaxCrashes = 0
SPECIFICATION Spec
SYMMETRY Symmetry
CHECK_DEADLOCK FALSE
INVARIANTS
  AcceptedSignatureIsStored
