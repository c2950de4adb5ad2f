CONSTANTS
  Local = {1, 2, 3}
  Remote = {}
  Entry <- AllGraphOps
  BlockEntries = 1
  DeviceBlocks = 3
  LogBlocks = 2
  MaxGeneration = 3
  CheckpointWords = 7
SPECIFICATION Spec
INVARIANTS TypeOK Durable ServesAGraph StartsAgain RestoresWhole
