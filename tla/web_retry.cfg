CONSTANTS
  Account = {a1}
  Prefix <- MCPrefix
  RegisterRole = {"COMPANY"}
  Tab = {t1}
  Call = {c1, c2}
  None = none
  AccessLife = 1
  MaxNow = 2
  MaxReloads = 0
SPECIFICATION Spec
CHECK_DEADLOCK FALSE
PROPERTIES
  RetryCarriesFreshToken
