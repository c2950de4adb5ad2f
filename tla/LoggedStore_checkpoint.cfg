CONSTANTS
  Local = {1, 2, 3}
  Remote = {}
  Entry <- GraphOps
  BlockEntries = 1
  DeviceBlocks = 2
  LogBlocks = 1
  MaxGeneration = 3
  CheckpointWords = 8
SPECIFICATION Spec
INVARIANTS EnablesDurability
