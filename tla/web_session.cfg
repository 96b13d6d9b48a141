CONSTANTS
  Account = {a1, a2}
  Prefix <- MCPrefix
  RegisterRole = {"COMPANY"}
  Tab = {t1, t2}
  Call = {c1, c2, c3}
  None = none
  AccessLife = 1
  MaxNow = 2
  MaxReloads = 1
SPECIFICATION Spec
SYMMETRY Symmetry
CONSTRAINT FewCalls
CHECK_DEADLOCK FALSE
INVARIANTS
  TypeOK
  SessionIsWhole
  DeadSessionHasCause
  SnapshotIsCurrent
