\* One partition of two: nodes whose edges may lead to the other partition.
CONSTANTS
  Local = {n1, n2, n3}
  Remote = {r1, r2}
SPECIFICATION Spec
INVARIANTS TypeOK StaysWellFormed
PROPERTY Refines
