------------------------------ MODULE Database ------------------------------
(***************************************************************************)
(* The database layer: one connection in detail (DbConnection), and the    *)
(* pool with several (ConnectionPool), of which it knows whether they are  *)
(* connected and have operations.  A connection belongs to one thread at a *)
(* time, which is what the pool is for (OneUser): so the two are looked at *)
(* one at a time, while nothing happens in the other.                      *)
(***************************************************************************)
EXTENDS DbConnection, ConnectionPool

DbInit == Init /\ PoolInit

DbNext ==
  \/ Next /\ PoolInit /\ UNCHANGED poolVars
  \/ PoolNext /\ Init /\ UNCHANGED vars

DbSpec == DbInit /\ [][DbNext]_<<vars, poolVars>>
=============================================================================
