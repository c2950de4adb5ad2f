\* One store with the whole graph: no edge parts, removeNode allowed.
CONSTANTS
  Local = {n1, n2, n3, n4}
  Remote = {}
SPECIFICATION Spec
INVARIANTS StaysWellFormed NoAssertionFails
PROPERTY Refines
