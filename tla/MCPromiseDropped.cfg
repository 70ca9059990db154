CONSTANTS
  Promises = {p1, p2}
  Handlers = {h1, h2, h3}
  NULL = NULL
  MaxDepth = 6
SPECIFICATION Spec
CHECK_DEADLOCK FALSE
SYMMETRY Symmetry
INVARIANT NoHandlerDropped
