CONSTANTS
  Promises = {p1, p2}
  Handlers = {h1, h2, h3, h4}
  NULL = NULL
  MaxDepth = 5
SPECIFICATION Spec
CHECK_DEADLOCK FALSE
SYMMETRY Symmetry
INVARIANT ListsConsistent
INVARIANT CalledAtMostOnce
INVARIANT MetInOrder
