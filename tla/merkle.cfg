CONSTANTS
  Leaf = {x, y}
  MaxLeaves = 7
SPECIFICATION Spec
CHECK_DEADLOCK FALSE
INVARIANTS
  RootIsBalancedTree
  RootBindsLeaves
