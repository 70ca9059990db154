------------------------------- MODULE MCTcp -------------------------------
(* One connection, made by a peer or by the program.                       *)
EXTENDS Tcp
CONSTANTS c1
MCConns == {c1}
=============================================================================
