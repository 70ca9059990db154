------------------------------- MODULE Lists -------------------------------
(***************************************************************************)
(* Lists in which nothing occurs twice: the queue of a pool, the           *)
(* operations of a connection.                                             *)
(***************************************************************************)
EXTENDS Naturals, Sequences, SequencesExt

(* s without e.  (RemoveFirst says the same by way of a LAMBDA, which the  *)
(* provers cannot follow.)                                                 *)
Without(s, e) ==
  IF \E i \in DOMAIN s : s[i] = e
  THEN RemoveAt(s, CHOOSE i \in DOMAIN s : s[i] = e)
  ELSE s

(* s without the elements of E, looked at one after the other.             *)
WithoutAll(s, E) ==
  LET kept[n \in 0 .. Len(s)] ==
        IF n = 0 THEN <<>>
        ELSE IF s[n] \in E THEN kept[n - 1] ELSE Append(kept[n - 1], s[n])
  IN  kept[Len(s)]
=============================================================================
