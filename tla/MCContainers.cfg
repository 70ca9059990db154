CONSTANTS
  k1 = k1
  k2 = k2
  k3 = k3
  Key = {k1, k2, k3}
  Object = {o1, o2}
  Value = {o1, o2}
  Nil = Nil
  ZeroKey = k1
  Hash <- MCHash
  MaxItems = 2
  MaxArgs = 1
  MaxGrow = 1
SPECIFICATION Spec
CHECK_DEADLOCK FALSE
SYMMETRY Symmetry
INVARIANT Placed
INVARIANT CopyEqual
INVARIANT Counted
PROPERTY ImplementsMap
