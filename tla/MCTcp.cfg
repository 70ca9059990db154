SPECIFICATION TcpSpec
CONSTANTS
  c1 = c1
  Nil = Nil
  Conns <- MCConns
  MaxLength = 2
  MaxBytes = 4
  MaxPending = 3
INVARIANT BytesInOrder
INVARIANT StreamsOwned
PROPERTY EndsDelivered
CHECK_DEADLOCK FALSE
