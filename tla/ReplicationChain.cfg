CONSTANTS
  N = 3
  Id = {1, 2}
  MaxLate = 1
SPECIFICATION Spec
INVARIANTS TypeOK ReplicasAgree AnsweredMeansCommitted NeverStuck
PROPERTIES StrandedForGood EveryWriteEnds
