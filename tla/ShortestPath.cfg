CONSTANTS
  Id = {1, 2, 3, 4, 5}
SPECIFICATION Spec
INVARIANTS DistanceIsShortest NoneMeansApart
PROPERTIES SearchEnds
