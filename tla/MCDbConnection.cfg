CONSTANTS
  Ops = {o1, o2, o3}
  NULL = NULL
  Threads = {t1, t2}
  None = None
  Observers = {w1}
  Connected = Connected
  Disconnected = Disconnected
  Names = {Connected, Disconnected}
  AnyName = AnyName
  Entries = {e1, e2}
  Connections = {c1, c2}
  MaxDepth = 2
  MaxWork = 6
SPECIFICATION DbSpec
CHECK_DEADLOCK FALSE
SYMMETRY Symmetry
INVARIANT RegisteredAlive
INVARIANT NoneDisconnected
INVARIANT OneTransaction
INVARIANT FlagFollowsDatabase
INVARIANT AllOrNothing
INVARIANT OneUser
INVARIANT ObserversLive
INVARIANT NoWaitCycle
