------------------------------ MODULE SeqLists ------------------------------
(***************************************************************************)
(* What the handler lists of MSNode promise their users: each list is a    *)
(* sequence; handlers are added at its end; a promise hands the tail of    *)
(* its sequence over to the end of another; a call goes through the        *)
(* sequence in order and also meets what is added meanwhile.               *)
(***************************************************************************)
EXTENDS Naturals, Sequences, SequencesExt

CONSTANTS Lists, Handlers

VARIABLES
  seq,   \* seq[l]: the handlers of l
  pos    \* pos[l]: the handlers the call that runs on l has met; -1: no call

vars == <<seq, pos>>

NoCall == 0 - 1

Free == Handlers \ UNION {ToSet(seq[l]) : l \in Lists}

Init ==
  /\ seq = [l \in Lists |-> <<>>]
  /\ pos = [l \in Lists |-> NoCall]

Add(l) ==
  /\ \E h \in Free : seq' = [seq EXCEPT ![l] = Append(@, h)]
  /\ UNCHANGED pos

Move(l, m) ==
  /\ pos[l] = NoCall
  /\ \E i \in 1 .. Len(seq[l]) :
       seq' = [seq EXCEPT ![l] = SubSeq(@, 1, i - 1),
                          ![m] = @ \o SubSeq(seq[l], i, Len(seq[l]))]
  /\ UNCHANGED pos

FreeInside(l) ==
  /\ pos[l] = NoCall
  /\ seq' = [seq EXCEPT ![l] = <<>>]
  /\ UNCHANGED pos

Call(l) ==
  /\ pos' = [pos EXCEPT ![l] = IF @ = Len(seq[l]) THEN NoCall ELSE @ + 1]
  /\ UNCHANGED seq

Next ==
  \E l \in Lists :
    \/ Add(l)
    \/ \E m \in Lists \ {l} : Move(l, m)
    \/ FreeInside(l)
    \/ Call(l)

Spec == Init /\ [][Next]_vars
=============================================================================
