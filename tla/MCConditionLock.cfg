SPECIFICATION LockSpec
CONSTANTS
  Threads = {t1, t2, t3}
  None = None
  Conditions = {c0, c1}
  First = c0
  Any = Any
  MaxDepth = 2
  MaxCalls = 4
CHECK_DEADLOCK FALSE
INVARIANT OneHolder
INVARIANT ConditionMet
INVARIANT NoLostWakeup
PROPERTY Served
