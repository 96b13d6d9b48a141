CONSTANTS
  Shipment = {s1}
  User = {u1, u2, admin}
  Admin = {admin}
  Key = {k1}
  None = none
  Request = {r1, r2, r3}
  MaxCrashes = 0
SPECIFICATION Spec
SYMMETRY Symmetry
CHECK_DEADLOCK FALSE
PROPERTIES
  OnlyCustodianHandsOff
