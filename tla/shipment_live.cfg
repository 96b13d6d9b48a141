CONSTANTS
  Shipment = {s1}
  User = {u1}
  Admin = {}
  Key = {k1}
  None = none
  Request = {r1, r2, r3}
  MaxCrashes = 1
SPECIFICATION FairSpec
CHECK_DEADLOCK FALSE
PROPERTIES
  RequestsEnd
