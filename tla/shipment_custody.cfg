CONSTANTS
  Shipment = {s1}
  User = {u1, u2, admin}
  Admin = {admin}
  Key = {k1, k2}
  None = none
  Request = {r1, r2, r3}
  MaxCrashes = 1
SPECIFICATION Spec
SYMMETRY Symmetry
CHECK_DEADLOCK FALSE
INVARIANTS
  TypeOK
  EventsMatchDevice
  HandoffIsAtomic
  EffectsAreBacked
  ProvenanceIsConnected
PROPERTIES
  ImplementsLedger
