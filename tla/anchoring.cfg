CONSTANTS
  Leaf = {l1, l2}
  Job = {j1, j2}
  MaxFaults = 1
SPECIFICATION FairSpec
CHECK_DEADLOCK FALSE
INVARIANTS
  TypeOK
  CommittedIsCovered
  AnchoredIsStored
  AnchorsAreReal
PROPERTIES
  EveryLeafIsCommitted
