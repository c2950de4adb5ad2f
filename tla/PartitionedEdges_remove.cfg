CONSTANTS
  Partition = {0, 1}
  Node = {1, 2}
  Home <- ByParity
  MaxLate = 0
SPECIFICATION Spec
INVARIANTS RemovedHalfFits
