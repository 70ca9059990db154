CONSTANTS
  Lists = {l1, l2}
  Handlers = {h1, h2, h3, h4}
  NULL = NULL
SYMMETRY Symmetry
SPECIFICATION Spec
INVARIANT WellFormed
INVARIANT EnumeratorsLive
INVARIANT NoLeak
PROPERTY ImplementsSequences
