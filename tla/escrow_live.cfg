CONSTANTS
  Shipment = {s1}
  User = {u1}
  Request = {r1}
  Consumer = consumer
  Null = null
  Amount = {1, 2, 3}
  AutoAmount = 1
  Int4Max = 2
  THRESHOLD = 1
  MaxEvents = 1
  MaxLog = 4
  MaxCrashes = 1
SPECIFICATION FairSpec
CHECK_DEADLOCK FALSE
INVARIANTS
  RequestHasRow
  OnlyCrashesLoseMessages
PROPERTIES
  EventuallyQuiet
  RequestsEnd
  TermsAreFixed
