CONSTANTS
  Partition = {0, 1}
  Node = {1, 2}
  Home <- ByParity
  MaxLate = 2
SPECIFICATION Spec
INVARIANTS TypeOK HalvesAgree ExitsOnlyOnRaces
PROPERTIES StrandedForGood EveryRequestEnds
