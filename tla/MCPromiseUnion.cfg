CONSTANTS
  Sources = {s1, s2, s3}
  MaxLen = 3
  NULL = NULL
  Array = Array
  User = User
SPECIFICATION UnionSpec
CHECK_DEADLOCK FALSE
INVARIANT WellCounted
INVARIANT CompleteResult
PROPERTY ValueStable
PROPERTY UnionSettles
