CONSTANTS
  Local = {1, 2, 3}
  Remote = {}
  Entry <- AllGraphOps
  BlockEntries = 3
  DeviceBlocks = 2
  LogBlocks = 1
  MaxGeneration = 1
  CheckpointWords = 5
SPECIFICATION Spec
INVARIANTS RecoversTheLog
