CONSTANTS
  Entry = {e1}
  ZeroEntry = zero
  BlockEntries = 1
  DeviceBlocks = 2
  MaxGeneration = 2
SPECIFICATION Spec
INVARIANTS ReadsOnlyThisGeneration
