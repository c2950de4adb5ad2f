CONSTANTS
  Entry = {e1, e2}
  ZeroEntry = zero
  BlockEntries = 2
  DeviceBlocks = 3
  MaxGeneration = 2
SPECIFICATION Spec
INVARIANTS TypeOK ReadsBack NothingWrittenIsLost StartsAgain
PROPERTIES GenerationsOnlyGrow ReaderFinishes
