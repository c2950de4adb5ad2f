CONSTANTS
  Id = {1, 2, 3}
  BlockWords = 2
  Blocks = 5
SPECIFICATION Spec
INVARIANTS FitsOrNot RestoresWritten StaysInBlocks
