-------------------------- MODULE Database_proofs --------------------------
(***************************************************************************)
(* Proofs about DbConnection, for any set of operations: nothing is active *)
(* without a connection, the transaction flag misses no open transaction,  *)
(* there is one transaction at a time, and only save commits.  Then about  *)
(* ConnectionPool and NotificationCenter, for any threads: a connection    *)
(* has one user, observers live as long as they are told, and threads do   *)
(* not wait in a circle.                                                   *)
(***************************************************************************)
EXTENDS Database, Lists_proofs, FiniteSetTheorems

(* The invariant, in parts. *)
Typed ==
  /\ connected \in BOOLEAN /\ inTx \in BOOLEAN /\ dbTx \in BOOLEAN
  /\ direct \in BOOLEAN /\ rolledBack \in BOOLEAN
  /\ ops \in Seq(Ops) /\ IsInjective(ops)
  /\ kind \in [Ops -> Kinds \cup {NULL}]
  /\ stmt \in [Ops -> Ops \cup {NULL}]
  /\ active \in SUBSET Ops /\ txWrites \in SUBSET Ops /\ committed \in SUBSET Ops
  /\ loop \in Nat \cup {NULL}
  /\ result \in [Ops -> {NULL, "saved", "failed", "cancelled"}]

(* The list holds the active operations, and the loop has passed over none *)
(* that is left; an operation has its class from its creation on.          *)
Listed ==
  /\ ToSet(ops) = active
  /\ loop # NULL => Len(ops) <= loop
  /\ \A o \in active : kind[o] # NULL

(* The writes of an open transaction belong to the one transaction there   *)
(* is, or to one that failed to save and keeps any other from opening.     *)
Single ==
  ~direct => \A t \in active :
    kind[t] = Transaction =>
      /\ inTx
      /\ \A u \in active : kind[u] = Transaction => u = t
      /\ ~rolledBack => txWrites \subseteq {t}

Writes ==
  /\ ~dbTx => txWrites = {}
  /\ ~direct /\ ~rolledBack => \A t \in committed : result[t] = "saved" /\ t \notin active
  /\ \A t \in txWrites \cup committed : kind[t] # NULL

IInv == Typed /\ Listed /\ NoneDisconnected /\ FlagFollowsDatabase /\ Single /\ Writes

-----------------------------------------------------------------------------
(* A new operation joins the list and the active operations. *)
LEMMA RegisterJoins ==
  ASSUME IInv, NEW o \in Ops, NEW k \in Kinds, NEW s \in Ops \cup {NULL}, NEW db,
         Register(o, k, s, db)
  PROVE  /\ ops' \in Seq(Ops) /\ IsInjective(ops')
         /\ ToSet(ops') = active' /\ active' = active \cup {o}
         /\ o \notin active /\ o \notin txWrites \cup committed
         /\ kind' \in [Ops -> Kinds \cup {NULL}] /\ kind'[o] = k
         /\ \A p \in Ops : p # o => kind'[p] = kind[p]
         /\ stmt' \in [Ops -> Ops \cup {NULL}]
<1>1. o \notin active /\ o \notin txWrites \cup committed
  BY DEF IInv, Listed, Writes, Register
<1>2. ops \in Seq(Ops) /\ IsInjective(ops) /\ o \notin ToSet(ops)
  BY <1>1 DEF IInv, Typed, Listed
<1>3. /\ ops' \in Seq(Ops) /\ IsInjective(ops')
      /\ ToSet(ops') = ToSet(ops) \cup {o}
  BY <1>2, AppendElements DEF Register
<1>4. active' = active \cup {o} /\ ToSet(ops) = active
  BY DEF IInv, Listed, Register
<1>5. /\ kind' \in [Ops -> Kinds \cup {NULL}] /\ kind'[o] = k
      /\ \A p \in Ops : p # o => kind'[p] = kind[p]
      /\ stmt' \in [Ops -> Ops \cup {NULL}]
  BY DEF IInv, Typed, Register
<1> QED BY <1>1, <1>3, <1>4, <1>5

(* What ends leaves the list and the active operations, and the list gets  *)
(* shorter.                                                                *)
LEMMA LeaveParts ==
  ASSUME IInv, NEW o \in Ops, NEW s \in Ops \cup {NULL}, Leave(o, s)
  PROVE  /\ ops' \in Seq(Ops) /\ IsInjective(ops')
         /\ ToSet(ops') = active' /\ active' = active \ {o, s}
         /\ Len(ops') <= Len(ops)
         /\ o \in active => Len(ops') < Len(ops)
         /\ stmt' \in [Ops -> Ops \cup {NULL}]
<1> DEFINE w == Without(ops, s)
<1>1. ops \in Seq(Ops) /\ IsInjective(ops) /\ ToSet(ops) = active /\ Len(ops) \in Nat
  BY LenProperties DEF IInv, Typed, Listed
<1>2. /\ w \in Seq(Ops) /\ IsInjective(w) /\ ToSet(w) = ToSet(ops) \ {s}
      /\ Len(w) = IF s \in ToSet(ops) THEN Len(ops) - 1 ELSE Len(ops)
  BY <1>1, WithoutElements
<1> HIDE DEF w
<1>3. /\ Without(w, o) \in Seq(Ops) /\ IsInjective(Without(w, o))
      /\ ToSet(Without(w, o)) = ToSet(w) \ {o}
      /\ Len(Without(w, o)) = IF o \in ToSet(w) THEN Len(w) - 1 ELSE Len(w)
  BY <1>2, WithoutElements
<1>4. ops' = Without(w, o) /\ active' = active \ {o, s}
  BY DEF Leave, w
<1>5. ToSet(ops') = active'
  BY <1>1, <1>2, <1>3, <1>4
<1>6. Len(ops') <= Len(ops) /\ (o \in active => Len(ops') < Len(ops))
  <2>1. CASE s \in ToSet(ops)
    BY <1>1, <1>2, <1>3, <1>4, <2>1
  <2>2. CASE s \notin ToSet(ops)
    BY <1>1, <1>2, <1>3, <1>4, <2>2
  <2> QED BY <2>1, <2>2
<1>7. stmt' \in [Ops -> Ops \cup {NULL}]
  BY DEF IInv, Typed, Leave
<1> QED BY <1>3, <1>4, <1>5, <1>6, <1>7

LEMMA InitIInv == Init => IInv
<1> SUFFICES ASSUME Init PROVE IInv
  OBVIOUS
<1>1. /\ <<>> \in Seq(Ops) /\ IsInjective(<<>>) /\ ToSet(<<>>) = {}
  BY DEF IsInjective, ToSet
<1> QED
  BY <1>1 DEF Init, IInv, Typed, Listed, NoneDisconnected, FlagFollowsDatabase, Single, Writes

-----------------------------------------------------------------------------
(* An operation is created. *)
LEMMA RegisterStep ==
  ASSUME IInv, NEW o \in Ops, NEW k \in Kinds, NEW s \in Ops \cup {NULL}, NEW db,
         Register(o, k, s, db), loop = NULL, connected' = TRUE,
         UNCHANGED <<loop, committed, result, txWrites, direct, rolledBack>>,
         \/ k # Transaction /\ UNCHANGED <<inTx, dbTx>>
         \/ k = Transaction /\ ~inTx /\ ~dbTx /\ inTx' = TRUE /\ dbTx' = TRUE
  PROVE  IInv'
<1>1. /\ ops' \in Seq(Ops) /\ IsInjective(ops')
      /\ ToSet(ops') = active' /\ active' = active \cup {o}
      /\ o \notin active /\ o \notin txWrites \cup committed
      /\ kind' \in [Ops -> Kinds \cup {NULL}] /\ kind'[o] = k
      /\ \A p \in Ops : p # o => kind'[p] = kind[p]
      /\ stmt' \in [Ops -> Ops \cup {NULL}]
  BY RegisterJoins
<1>2. k # NULL
  BY KindAssumption
<1>3. Typed'
  BY <1>1 DEF IInv, Typed
<1>4. Listed'
  BY <1>1, <1>2 DEF IInv, Typed, Listed
<1>5. NoneDisconnected'
  BY DEF NoneDisconnected
<1>6. FlagFollowsDatabase'
  BY DEF IInv, FlagFollowsDatabase
<1>7. Single'
  <2> SUFFICES ASSUME ~direct, NEW t \in active', kind'[t] = Transaction
      PROVE  /\ inTx'
             /\ \A u \in active' : kind'[u] = Transaction => u = t
             /\ ~rolledBack => txWrites \subseteq {t}
    BY DEF Single
  <2>1. CASE k # Transaction
    BY <1>1, <2>1 DEF IInv, Typed, Single
  <2>2. CASE k = Transaction
    <3>1. ~inTx /\ ~dbTx /\ inTx'
      BY <2>2
    <3>2. \A u \in active : kind[u] # Transaction
      BY <3>1 DEF IInv, Single
    <3>3. t = o /\ \A u \in active' : kind'[u] = Transaction => u = o
      BY <1>1, <3>2 DEF IInv, Typed
    <3> QED BY <3>1, <3>3 DEF IInv, Writes
  <2> QED BY <2>1, <2>2
<1>8. Writes'
  BY <1>1, <1>2 DEF IInv, Typed, Writes
<1> QED BY <1>3, <1>4, <1>5, <1>6, <1>7, <1>8 DEF IInv

(* An operation leaves: the parts that do not speak of transactions. *)
LEMMA LeaveStep ==
  ASSUME IInv, NEW o \in active, NEW s \in Ops \cup {NULL}, Leave(o, s),
         UNCHANGED <<connected, kind>>,
         loop' = loop \/ (loop # NULL /\ loop > 0 /\ loop' = loop - 1)
  PROVE  /\ ops' \in Seq(Ops) /\ IsInjective(ops') /\ stmt' \in [Ops -> Ops \cup {NULL}]
         /\ active' \in SUBSET Ops /\ loop' \in Nat \cup {NULL}
         /\ active' \subseteq active /\ o \notin active'
         /\ Listed' /\ NoneDisconnected'
<1>1. o \in Ops
  BY DEF IInv, Typed
<1>2. /\ ops' \in Seq(Ops) /\ IsInjective(ops')
      /\ ToSet(ops') = active' /\ active' = active \ {o, s}
      /\ Len(ops') < Len(ops)
      /\ stmt' \in [Ops -> Ops \cup {NULL}]
  BY <1>1, LeaveParts
<1>3. Len(ops) \in Nat /\ Len(ops') \in Nat
  BY <1>2, LenProperties DEF IInv, Typed
<1>4. loop' \in Nat \cup {NULL} /\ (loop' # NULL => Len(ops') <= loop')
  <2>1. CASE loop' = loop
    BY <1>2, <1>3, <2>1 DEF IInv, Typed, Listed
  <2>2. CASE loop # NULL /\ loop > 0 /\ loop' = loop - 1
    BY <1>2, <1>3, <2>2 DEF IInv, Typed, Listed
  <2> QED BY <2>1, <2>2
<1>5. Listed'
  BY <1>2, <1>4 DEF IInv, Listed
<1>6. NoneDisconnected'
  BY <1>2 DEF IInv, NoneDisconnected
<1> QED BY <1>2, <1>4, <1>5, <1>6 DEF IInv, Typed

(* terminateOperation, by the program, by dealloc or by the loop. *)
LEMMA TerminateStep ==
  ASSUME IInv, NEW o \in active, NEW keep, Terminate(o, keep),
         UNCHANGED <<connected, kind, committed, direct, rolledBack>>,
         loop' = loop \/ (loop # NULL /\ loop > 0 /\ loop' = loop - 1)
  PROVE  IInv'
<1> DEFINE s == Orphan(o, keep)
<1>0. o \in Ops /\ s \in Ops \cup {NULL} /\ Leave(o, s)
  BY DEF IInv, Typed, Terminate, Orphan
<1> HIDE DEF s
<1>1. /\ ops' \in Seq(Ops) /\ IsInjective(ops') /\ stmt' \in [Ops -> Ops \cup {NULL}]
      /\ active' \in SUBSET Ops /\ loop' \in Nat \cup {NULL}
      /\ active' \subseteq active /\ o \notin active'
      /\ Listed' /\ NoneDisconnected'
  BY <1>0, LeaveStep
<1>2. CASE kind[o] # Transaction
  <2>1. UNCHANGED txVars /\ result' = result
    BY <1>0, <1>2 DEF Terminate, IInv, Typed
  <2>2. Typed'
    BY <1>1, <2>1 DEF IInv, Typed, txVars
  <2>3. FlagFollowsDatabase'
    BY <2>1 DEF IInv, FlagFollowsDatabase, txVars
  <2>4. Single'
    BY <1>1, <2>1 DEF IInv, Single, txVars
  <2>5. Writes'
    BY <1>1, <2>1 DEF IInv, Writes, txVars
  <2> QED BY <1>1, <2>2, <2>3, <2>4, <2>5 DEF IInv
<1>3. CASE kind[o] = Transaction
  <2>1. Rollback /\ result' = [result EXCEPT ![o] = "cancelled"]
    BY <1>3 DEF Terminate
  <2>2. \/ UNCHANGED txVars
        \/ inTx' = FALSE /\ dbTx' = FALSE /\ txWrites' = {}
    BY <2>1 DEF Rollback
  <2>3. Typed'
    BY <1>0, <1>1, <2>1, <2>2 DEF IInv, Typed, txVars
  <2>4. FlagFollowsDatabase'
    BY <2>2 DEF IInv, FlagFollowsDatabase, txVars
  <2>5. ~direct => \A u \in active' : kind[u] # Transaction
    BY <1>1, <1>3 DEF IInv, Single
  <2>6. Single'
    BY <2>5 DEF Single
  <2>7. Writes'
    <3>1. ~direct /\ ~rolledBack => o \notin committed
      BY DEF IInv, Writes
    <3>2. \A t \in Ops : t # o => result'[t] = result[t]
      BY <2>1 DEF IInv, Typed
    <3>3. ~direct' /\ ~rolledBack' => \A t \in committed' : result'[t] = "saved" /\ t \notin active'
      BY <1>1, <3>1, <3>2 DEF IInv, Typed, Writes
    <3> QED BY <2>2, <3>3 DEF IInv, Writes, txVars
  <2> QED BY <1>1, <2>3, <2>4, <2>6, <2>7 DEF IInv
<1> QED BY <1>2, <1>3

(* The program lets an operation go. *)
LEMMA ReleaseStep == ASSUME IInv, NEW o \in Ops, Release(o) PROVE IInv'
<1>1. UNCHANGED <<connected, kind, loop, committed, direct, rolledBack>>
  BY DEF Release, notes
<1>2. CASE o \in active /\ Retains(o) = {}
  <2>1. Terminate(o, user')
    BY <1>2 DEF Release
  <2> QED BY <1>1, <1>2, <2>1, TerminateStep
<1>3. CASE ~(o \in active /\ Retains(o) = {})
  <2>1. UNCHANGED <<opsVars, txVars, result>>
    BY <1>3 DEF Release
  <2> QED
    BY <1>1, <2>1 DEF opsVars, txVars, IInv, Typed, Listed, NoneDisconnected,
                      FlagFollowsDatabase, Single, Writes
<1> QED BY <1>2, <1>3

(* One turn of terminateAllOperations. *)
LEMMA TerminateNextStep == ASSUME IInv, TerminateNext PROVE IInv'
<1>1. /\ loop # NULL /\ loop \in Nat /\ loop > 0 /\ loop' = loop - 1
      /\ UNCHANGED <<connected, kind, committed, direct, rolledBack>>
  BY DEF TerminateNext, notes, IInv, Typed
<1>2. Len(ops) \in Nat /\ DOMAIN ops = 1..Len(ops) /\ ToSet(ops) = active
  BY LenProperties DEF IInv, Typed, Listed
<1>3. CASE loop <= Len(ops)
  <2>1. Terminate(AtIndex(loop), user)
    BY <1>3 DEF TerminateNext
  <2>2. AtIndex(loop) \in active
    BY <1>1, <1>2, <1>3 DEF AtIndex, ToSet
  <2> QED BY <1>1, <2>1, <2>2, TerminateStep
<1>4. CASE ~(loop <= Len(ops))
  <2>1. UNCHANGED <<opsVars, txVars, result>>
    BY <1>4 DEF TerminateNext
  <2>2. Len(ops') <= loop' /\ loop' \in Nat
    BY <1>1, <1>2, <1>4, <2>1 DEF opsVars
  <2> QED
    BY <1>1, <2>1, <2>2 DEF opsVars, txVars, IInv, Typed, Listed, NoneDisconnected,
                            FlagFollowsDatabase, Single, Writes
<1> QED BY <1>3, <1>4

(* The loop has ended every operation when disconnect closes the database. *)
LEMMA EndTerminatingStep == ASSUME IInv, EndTerminating PROVE IInv'
<1>1. /\ loop = 0 /\ loop' = NULL
      /\ UNCHANGED <<kind, committed, result, ops, active, stmt, direct>>
  BY DEF EndTerminating, opsVars
<1>2. active = {}
  <2>1. loop # NULL /\ Len(ops) \in Nat /\ Len(ops) <= 0
    BY <1>1, OpsAssumption, LenProperties DEF IInv, Typed, Listed
  <2>2. DOMAIN ops = {}
    BY <2>1, LenProperties DEF IInv, Typed
  <2>3. ToSet(ops) = {}
    BY <2>2 DEF ToSet
  <2> QED BY <2>3 DEF IInv, Listed
<1>3. \/ UNCHANGED <<connected, inTx, dbTx, txWrites, rolledBack>>
      \/ /\ inTx' = FALSE /\ dbTx' = FALSE /\ txWrites' = {}
         /\ connected' \in {connected, FALSE} /\ rolledBack' = rolledBack
      \/ /\ inTx' = inTx /\ dbTx' = FALSE /\ txWrites' = {}
         /\ connected' = FALSE /\ rolledBack' = (rolledBack \/ dbTx)
  BY DEF EndTerminating, Rollback, txVars
<1>4. Typed'
  BY <1>1, <1>3 DEF IInv, Typed
<1>5. Listed' /\ NoneDisconnected' /\ Single'
  BY <1>1, <1>2 DEF IInv, Listed, NoneDisconnected, Single
<1>6. FlagFollowsDatabase'
  <2>1. (dbTx => inTx) /\ (inTx /\ ~dbTx => rolledBack)
    BY DEF IInv, FlagFollowsDatabase
  <2>2. CASE UNCHANGED <<connected, inTx, dbTx, txWrites, rolledBack>>
    BY <2>1, <2>2 DEF FlagFollowsDatabase
  <2>3. CASE inTx' = FALSE /\ dbTx' = FALSE
    BY <2>3 DEF FlagFollowsDatabase
  <2>4. CASE inTx' = inTx /\ dbTx' = FALSE /\ rolledBack' = (rolledBack \/ dbTx)
    BY <2>1, <2>4, Zenon DEF FlagFollowsDatabase
  <2> QED BY <1>3, <2>2, <2>3, <2>4
<1>7. Writes'
  <2>1. txWrites' = {} \/ UNCHANGED <<dbTx, txWrites>>
    BY <1>3
  <2>2. ~rolledBack' => ~rolledBack
    BY <1>3 DEF IInv, Typed
  <2> QED BY <1>1, <2>1, <2>2 DEF IInv, Writes
<1> QED BY <1>4, <1>5, <1>6, <1>7 DEF IInv

-----------------------------------------------------------------------------
(* A command of a transaction is executed within it, or for good only when *)
(* the database has rolled the transaction back before.                    *)
LEMMA AppendCommandStep == ASSUME IInv, NEW t \in Ops, AppendCommand(t) PROVE IInv'
<1>1. /\ kind[t] = Transaction /\ kind[t] # NULL
      /\ UNCHANGED <<connected, kind, loop, result, ops, active, stmt, inTx, direct>>
  BY KindAssumption DEF AppendCommand, opsVars, Kinds
<1>2. \/ /\ t \in active /\ dbTx /\ txWrites' = txWrites \cup {t}
         /\ UNCHANGED <<dbTx, committed, rolledBack>>
      \/ /\ t \in active /\ ~dbTx /\ committed' = committed \cup {t}
         /\ UNCHANGED <<dbTx, txWrites, rolledBack>>
      \/ /\ dbTx' = FALSE /\ txWrites' = {} /\ rolledBack' = TRUE
         /\ UNCHANGED committed
  BY DEF AppendCommand
<1>3. Typed'
  BY <1>1, <1>2 DEF IInv, Typed
<1>4. Listed' /\ NoneDisconnected'
  BY <1>1 DEF IInv, Listed, NoneDisconnected
<1>5. FlagFollowsDatabase'
  BY <1>1, <1>2 DEF IInv, FlagFollowsDatabase
<1>6. Single'
  <2> SUFFICES ASSUME ~direct, NEW u \in active, kind[u] = Transaction
      PROVE  /\ inTx
             /\ \A v \in active : kind[v] = Transaction => v = u
             /\ ~rolledBack' => txWrites' \subseteq {u}
    BY <1>1 DEF Single
  <2>1. /\ inTx /\ \A v \in active : kind[v] = Transaction => v = u
        /\ ~rolledBack => txWrites \subseteq {u}
    BY DEF IInv, Single
  <2>2. ~rolledBack' => txWrites' \subseteq {u}
    BY <1>1, <1>2, <2>1
  <2> QED BY <2>1, <2>2
<1>7. Writes'
  <2>1. t \in active /\ ~dbTx /\ ~direct => rolledBack
    BY <1>1 DEF IInv, Single, FlagFollowsDatabase
  <2>2. ~direct' /\ ~rolledBack' => UNCHANGED committed /\ ~rolledBack
    BY <1>1, <1>2, <2>1
  <2>3. txWrites' \cup committed' \subseteq txWrites \cup committed \cup {t}
    BY <1>2
  <2>4. ~dbTx' => txWrites' = {}
    BY <1>2 DEF IInv, Writes
  <2> QED BY <1>1, <2>2, <2>3, <2>4 DEF IInv, Writes
<1> QED BY <1>3, <1>4, <1>5, <1>6, <1>7 DEF IInv

(* save: what is committed was written by the transaction that is saved.   *)
LEMMA SaveStep == ASSUME IInv, NEW t \in Ops, Save(t) PROVE IInv'
<1>1. /\ t \in active /\ kind[t] = Transaction /\ Leave(t, NULL)
      /\ UNCHANGED <<connected, kind, loop, direct>>
  BY DEF Save
<1>2. /\ ops' \in Seq(Ops) /\ IsInjective(ops') /\ stmt' \in [Ops -> Ops \cup {NULL}]
      /\ active' \in SUBSET Ops /\ loop' \in Nat \cup {NULL}
      /\ active' \subseteq active /\ t \notin active'
      /\ Listed' /\ NoneDisconnected'
  BY <1>1, LeaveStep
<1>3. ~direct => \A u \in active' : kind[u] # Transaction
  BY <1>1, <1>2 DEF IInv, Single
<1>4. Single'
  BY <1>1, <1>3 DEF Single
<1>5. ~direct /\ ~rolledBack => txWrites \subseteq {t} /\ t \notin committed
  BY <1>1 DEF IInv, Single, Writes
<1>6. CASE CommitDone /\ result' = [result EXCEPT ![t] = "saved"]
  <2>1. Typed' /\ FlagFollowsDatabase'
    BY <1>1, <1>2, <1>6 DEF CommitDone, IInv, Typed, FlagFollowsDatabase
  <2>2. /\ result'[t] = "saved"
        /\ \A p \in Ops : p # t => result'[p] = result[p]
    BY <1>6 DEF IInv, Typed
  <2>3. Writes'
    BY <1>1, <1>2, <1>5, <1>6, <2>2 DEF CommitDone, IInv, Typed, Writes
  <2> QED BY <1>2, <1>4, <2>1, <2>3 DEF IInv
<1>7. CASE CommitFailed /\ result' = [result EXCEPT ![t] = "failed"]
  <2>0. \/ UNCHANGED <<inTx, dbTx, txWrites, rolledBack, committed>>
        \/ /\ dbTx' = FALSE /\ txWrites' = {} /\ rolledBack' = TRUE
           /\ UNCHANGED <<inTx, committed>>
    BY <1>7 DEF CommitFailed
  <2>1. Typed' /\ FlagFollowsDatabase'
    <3>1. result' \in [Ops -> {NULL, "saved", "failed", "cancelled"}]
      BY <1>7 DEF IInv, Typed
    <3>2. Typed'
      BY <1>1, <1>2, <2>0, <3>1 DEF IInv, Typed
    <3>3. FlagFollowsDatabase'
      BY <2>0 DEF IInv, FlagFollowsDatabase
    <3> QED BY <3>2, <3>3
  <2>2. \A p \in Ops : p # t => result'[p] = result[p]
    BY <1>7 DEF IInv, Typed
  <2>3. /\ ~rolledBack' => ~rolledBack
        /\ committed' = committed
        /\ txWrites' = {} \/ UNCHANGED <<dbTx, txWrites>>
    BY <1>7 DEF CommitFailed
  <2>4. Writes'
    BY <1>1, <1>2, <1>5, <2>2, <2>3 DEF IInv, Typed, Writes
  <2> QED BY <1>2, <1>4, <2>1, <2>4 DEF IInv
<1> QED BY <1>6, <1>7 DEF Save

(* The connection's own commands. *)
LEMMA DirectCommandStep == ASSUME IInv, DirectCommand PROVE IInv'
<1>1. /\ direct' = TRUE
      /\ UNCHANGED <<connected, kind, loop, result, ops, active, stmt>>
  BY DEF DirectCommand, opsVars
<1>2. \/ /\ inTx' = TRUE /\ dbTx' = TRUE /\ txWrites' = txWrites
         /\ committed' = committed /\ rolledBack' = rolledBack
      \/ /\ inTx' = FALSE /\ dbTx' = FALSE /\ txWrites' = {}
         /\ committed' \in {committed, committed \cup txWrites} /\ rolledBack' = rolledBack
      \/ UNCHANGED <<inTx, dbTx, txWrites, committed, rolledBack>>
  BY DEF DirectCommand, Begin, CommitDone, Rollback, txVars
<1>3. Typed'
  BY <1>1, <1>2 DEF IInv, Typed
<1>4. Listed' /\ NoneDisconnected' /\ Single'
  BY <1>1 DEF IInv, Listed, NoneDisconnected, Single
<1>5. FlagFollowsDatabase'
  BY <1>2 DEF IInv, FlagFollowsDatabase
<1>6. Writes'
  BY <1>1, <1>2 DEF IInv, Writes
<1> QED BY <1>3, <1>4, <1>5, <1>6 DEF IInv

-----------------------------------------------------------------------------
LEMMA NextIInv == IInv /\ [Next]_vars => IInv'
<1> SUFFICES ASSUME IInv, [Next]_vars PROVE IInv'
  OBVIOUS
<1> USE DEF opsVars, txVars, notes
<1>1. CASE Connect
  BY <1>1 DEF Connect, IInv, Typed, Listed, NoneDisconnected, FlagFollowsDatabase, Single, Writes
<1>2. ASSUME NEW o \in Ops, Prepare(o) PROVE IInv'
  <2>1. Register(o, Statement, NULL, {o}) /\ Statement \in Kinds /\ Statement # Transaction
    BY <1>2 DEF Prepare, Kinds, Statement, ResultSet, Transaction
  <2>2. /\ loop = NULL /\ connected' = TRUE
        /\ UNCHANGED <<loop, committed, result, txWrites, direct, rolledBack, inTx, dbTx>>
    BY <1>2 DEF Prepare, Calls
  <2> QED BY <2>1, <2>2, RegisterStep
<1>3. ASSUME NEW o \in Ops, FetchRequest(o) PROVE IInv'
  <2>1. Register(o, ResultSet, NULL, {o}) /\ ResultSet \in Kinds /\ ResultSet # Transaction
    BY <1>3 DEF FetchRequest, Kinds, Statement, ResultSet, Transaction
  <2>2. /\ loop = NULL /\ connected' = TRUE
        /\ UNCHANGED <<loop, committed, result, txWrites, direct, rolledBack, inTx, dbTx>>
    BY <1>3 DEF FetchRequest, Calls, IInv, Typed
  <2> QED BY <2>1, <2>2, RegisterStep
<1>4. ASSUME NEW o \in Ops, OpenTransaction(o) PROVE IInv'
  <2>1. Register(o, Transaction, NULL, {}) /\ Transaction \in Kinds
    BY <1>4 DEF OpenTransaction, Kinds
  <2>2. /\ loop = NULL /\ connected' = TRUE
        /\ UNCHANGED <<loop, committed, result, txWrites, direct, rolledBack>>
        /\ ~inTx /\ ~dbTx /\ inTx' = TRUE /\ dbTx' = TRUE
    BY <1>4 DEF OpenTransaction, Begin, Calls, IInv, Typed
  <2> QED BY <2>1, <2>2, RegisterStep
<1>5. ASSUME NEW s \in Ops, NEW o \in Ops, Fetch(s, o) PROVE IInv'
  <2>1. Register(o, ResultSet, s, {}) /\ ResultSet \in Kinds /\ ResultSet # Transaction
    BY <1>5 DEF Fetch, Kinds, Statement, ResultSet, Transaction
  <2>2. /\ loop = NULL /\ connected' = TRUE
        /\ UNCHANGED <<loop, committed, result, txWrites, direct, rolledBack, inTx, dbTx>>
    BY <1>5 DEF Fetch, Calls, IInv, Typed, NoneDisconnected
  <2> QED BY <2>1, <2>2, RegisterStep
<1>6. ASSUME NEW o \in Ops, TerminateOperation(o) PROVE IInv'
  BY <1>6, TerminateStep DEF TerminateOperation
<1>7. ASSUME NEW o \in Ops, NextRow(o) PROVE IInv'
  BY <1>7 DEF NextRow, IInv, Typed, Listed, NoneDisconnected, FlagFollowsDatabase, Single, Writes
<1>8. CASE StartTerminating
  <2>1. loop' = Len(ops) /\ Len(ops) \in Nat
    BY <1>8, LenProperties DEF StartTerminating, IInv, Typed
  <2>2. UNCHANGED <<connected, kind, committed, result, ops, active, stmt, inTx, dbTx,
                    txWrites, direct, rolledBack>>
    BY <1>8 DEF StartTerminating
  <2> QED
    BY <2>1, <2>2 DEF IInv, Typed, Listed, NoneDisconnected, FlagFollowsDatabase, Single, Writes
<1>9. CASE UNCHANGED vars
  BY <1>9 DEF vars, IInv, Typed, Listed, NoneDisconnected, FlagFollowsDatabase, Single, Writes
<1> QED
  BY <1>1, <1>2, <1>3, <1>4, <1>5, <1>6, <1>7, <1>8, <1>9, AppendCommandStep, SaveStep,
     ReleaseStep, DirectCommandStep, TerminateNextStep, EndTerminatingStep DEF Next

LEMMA IInvHolds == Spec => []IInv
<1>1. Init => IInv
  BY InitIInv
<1>2. IInv /\ [Next]_vars => IInv'
  BY NextIInv
<1> QED BY <1>1, <1>2, PTL DEF Spec

-----------------------------------------------------------------------------
(* The second part of the invariant: who keeps what alive.  A result set   *)
(* stands behind its statement in the list, as long as the program did not *)
(* terminate the statement under it: terminateAllOperations, which goes    *)
(* backwards, meets it first.                                              *)
Handles ==
  /\ user \in SUBSET Ops /\ handle = {o \in active : OwnsHandle(o)}
  /\ closing \in BOOLEAN /\ undefined \in BOOLEAN /\ early \in BOOLEAN
  /\ loop # NULL => loop <= Cardinality(Ops)
  /\ ~undefined => active \subseteq Alive
  /\ undefined => early
  /\ \A r \in Ops : stmt[r] # NULL =>
       r \in active /\ kind[r] = ResultSet /\ kind[stmt[r]] = Statement
  /\ \A o \in user : kind[o] # NULL
  /\ ~early => \A r \in active : stmt[r] # NULL => Precedes(ops, stmt[r], r)

LEMMA KindsDiffer ==
  /\ Statement # ResultSet /\ Statement # Transaction /\ ResultSet # Transaction
  /\ Statement # NULL /\ ResultSet # NULL /\ Transaction # NULL
  BY KindAssumption DEF Kinds, Statement, ResultSet, Transaction

(* What precedes another in the list is active. *)
LEMMA PrecedesActive ==
  ASSUME IInv, NEW a, NEW b, Precedes(ops, a, b) PROVE a \in active
<1>1. DOMAIN ops = 1..Len(ops) /\ ToSet(ops) = active
  BY LenProperties DEF IInv, Typed, Listed
<1> QED BY <1>1 DEF Precedes, ToSet

(* A new operation. *)
LEMMA RegisterHandles ==
  ASSUME IInv, Handles, NEW o \in Ops, NEW k \in Kinds, NEW s \in Ops \cup {NULL},
         NEW db, Register(o, k, s, db),
         UNCHANGED <<loop, closing, undefined, early>>,
         db = IF k = Statement \/ (k = ResultSet /\ s = NULL) THEN {o} ELSE {},
         s # NULL => k = ResultSet /\ s \in active /\ kind[s] = Statement
  PROVE  Handles'
<1>1. /\ active' = active \cup {o} /\ o \notin active
      /\ kind'[o] = k /\ kind[o] = NULL
      /\ \A p \in Ops : p # o => kind'[p] = kind[p]
  BY RegisterJoins DEF Register
<1>2. /\ user' = user \cup {o} /\ handle' = handle \cup db /\ ops' = Append(ops, o)
      /\ stmt'[o] = s /\ \A p \in Ops : p # o => stmt'[p] = stmt[p]
  BY DEF Register, IInv, Typed
<1>3. o \notin user /\ \A r \in Ops : stmt[r] # o
  BY <1>1, KindsDiffer, OpsAssumption DEF Handles
<1>4. handle' = {p \in active' : OwnsHandle(p)'}
  <2>1. OwnsHandle(o)' <=> db = {o}
    BY <1>1, <1>2, KindsDiffer DEF OwnsHandle
  <2>2. \A p \in active : OwnsHandle(p)' <=> OwnsHandle(p)
    BY <1>1, <1>2 DEF OwnsHandle, IInv, Typed
  <2> QED BY <1>1, <1>2, <2>1, <2>2 DEF Handles
<1>5. ~undefined' => active' \subseteq Alive'
  <2>1. \A p \in active : Retains(p) \subseteq Retains(p)'
    BY <1>1, <1>2 DEF Retains, IInv, Typed
  <2> QED BY <1>1, <1>2, <2>1 DEF Handles, Alive
<1>6. \A r \in Ops : stmt'[r] # NULL =>
        r \in active' /\ kind'[r] = ResultSet /\ kind'[stmt'[r]] = Statement
  <2>1. CASE s = NULL
    BY <1>1, <1>2, <1>3, <2>1 DEF Handles, IInv, Typed
  <2>2. CASE s # NULL
    BY <1>1, <1>2, <1>3, <2>2 DEF Handles, IInv, Typed
  <2> QED BY <2>1, <2>2
<1>7. \A p \in user' : kind'[p] # NULL
  BY <1>1, <1>2, KindAssumption DEF Handles
<1>8. ~early' => \A r \in active' : stmt'[r] # NULL => Precedes(ops', stmt'[r], r)
  <2>1. ops \in Seq(Ops) /\ ToSet(ops) = active
    BY DEF IInv, Typed, Listed
  <2>2. /\ \A a, b : Precedes(ops, a, b) => Precedes(ops', a, b)
        /\ \A a \in active : Precedes(ops', a, o)
    BY <1>2, <2>1, AppendOrder
  <2> QED BY <1>1, <1>2, <2>2 DEF Handles, IInv, Typed
<1> QED BY <1>2, <1>4, <1>5, <1>6, <1>7, <1>8 DEF Handles

(* An operation ends, and perhaps the statement only it has retained.      *)
LEMMA TerminateHandles ==
  ASSUME IInv, Handles, ~undefined, NEW o \in active, Terminate(o, user'),
         user' \in SUBSET user, user \ {o} \subseteq user',
         UNCHANGED <<kind, closing>>,
         loop' # NULL => loop # NULL /\ loop \in Nat /\ loop' \in Nat /\ loop' <= loop,
         early' \in BOOLEAN, ~early' => ~early /\ Retains(o) = {}
  PROVE  Handles'
<1> DEFINE s == Orphan(o, user')
           ended == {o, s}
<1>0. /\ o \in Ops /\ s \in Ops \cup {NULL}
      /\ s # NULL => s = stmt[o] /\ s \notin user' /\ Retains(s) = {o}
      /\ stmt[o] # NULL /\ stmt[o] \notin user' /\ Retains(stmt[o]) = {o} => s = stmt[o]
  BY DEF IInv, Typed, Orphan
<1>1. Leave(o, s) /\ undefined' = ResetsFreed(o)
  BY DEF Terminate
<1> HIDE DEF s
<1>2. /\ ops' = Without(Without(ops, s), o)
      /\ active' = active \ ended
      /\ handle' = handle \ {p \in ended \cap Ops : OwnsHandle(p)}
      /\ \A p \in Ops : stmt'[p] = IF p \in ended THEN NULL ELSE stmt[p]
  BY <1>1 DEF Leave
<1>3. handle' = {p \in active' : OwnsHandle(p)'}
  <2>1. \A p \in active' : OwnsHandle(p)' <=> OwnsHandle(p)
    BY <1>2 DEF OwnsHandle, IInv, Typed
  <2> QED BY <1>2, <2>1 DEF Handles, IInv, Typed
<1>4. active' \subseteq Alive'
  <2> SUFFICES ASSUME NEW p \in active', p \notin user' PROVE Retains(p)' # {}
    BY <1>2 DEF Alive, IInv, Typed
  <2>1. p \in active /\ p # o /\ p # s /\ p \notin user
    BY <1>2
  <2>2. p \in Ops /\ Retains(p) # {}
    BY <2>1 DEF Handles, Alive
  <2>3. \E r \in Retains(p) : r # o
    <3>1. SUFFICES ASSUME Retains(p) = {o} PROVE FALSE
      BY <2>2
    <3>2. stmt[o] = p
      BY <3>1 DEF Retains
    <3>3. s = p
      BY <1>0, <2>2, <3>1, <3>2, OpsAssumption
    <3> QED BY <2>1, <3>3
  <2>4. PICK r \in active : stmt[r] = p /\ r # o
    BY <2>3 DEF Retains
  <2>5. r # s
    <3> SUFFICES ASSUME r = s PROVE FALSE
      OBVIOUS
    <3>1. kind[r] = ResultSet
      BY <2>2, <2>4, OpsAssumption DEF Handles, IInv, Typed
    <3>2. kind[s] = Statement
      BY <1>0, OpsAssumption DEF Handles, IInv, Typed
    <3> QED BY <3>1, <3>2, KindsDiffer
  <2>6. r \in active' /\ stmt'[r] = p
    BY <1>2, <2>4, <2>5 DEF IInv, Typed
  <2> QED BY <2>6 DEF Retains
<1>5. \A r \in Ops : stmt'[r] # NULL =>
        r \in active' /\ kind'[r] = ResultSet /\ kind'[stmt'[r]] = Statement
  BY <1>2 DEF Handles
<1>6. ~early' => \A r \in active' : stmt'[r] # NULL => Precedes(ops', stmt'[r], r)
  <2> SUFFICES ASSUME ~early, Retains(o) = {}, NEW r \in active', stmt'[r] # NULL
               PROVE  Precedes(ops', stmt'[r], r)
    OBVIOUS
  <2>1. r \in active /\ r \notin ended /\ stmt'[r] = stmt[r]
    BY <1>2 DEF IInv, Typed
  <2>2. stmt[r] # o
    BY <2>1 DEF Retains
  <2>3. stmt[r] # s
    BY <1>0, <2>1 DEF Retains
  <2>4. /\ ops \in Seq(Ops) /\ IsInjective(ops) /\ Precedes(ops, stmt[r], r)
    BY <2>1 DEF IInv, Typed, Handles
  <2>5. Without(ops, s) \in Seq(Ops) /\ IsInjective(Without(ops, s))
    BY <2>4, WithoutElements
  <2>6. Precedes(Without(ops, s), stmt[r], r)
    BY <2>1, <2>3, <2>4, WithoutOrder
  <2>7. Precedes(Without(Without(ops, s), o), stmt[r], r)
    BY <2>1, <2>2, <2>5, <2>6, WithoutOrder
  <2> QED BY <1>2, <2>1, <2>7
<1>7. undefined' \in BOOLEAN /\ (undefined' => early')
  <2>1. undefined' => early
    <3> SUFFICES ASSUME stmt[o] # NULL, stmt[o] \notin handle, ~early PROVE FALSE
      BY <1>1 DEF ResetsFreed, Handles
    <3>1. Precedes(ops, stmt[o], o) /\ kind[stmt[o]] = Statement
      BY <1>0 DEF Handles
    <3>2. stmt[o] \in active
      BY <3>1, PrecedesActive
    <3> QED BY <3>1, <3>2 DEF Handles, OwnsHandle
  <2> QED BY <1>1, <2>1 DEF ResetsFreed, Handles
<1>8. loop' # NULL => loop' <= Cardinality(Ops)
  <2>1. Cardinality(Ops) \in Nat
    BY OpsAssumption, FS_CardinalityType
  <2> QED BY <2>1 DEF Handles
<1> QED BY <1>3, <1>4, <1>5, <1>6, <1>7, <1>8 DEF Handles

(* terminateAllOperations takes the last operation, which no other needs.  *)
LEMMA TerminateNextHandles == ASSUME IInv, Handles, TerminateNext PROVE Handles'
<1>1. /\ ~undefined /\ loop # NULL /\ loop \in Nat /\ loop > 0 /\ loop' = loop - 1
      /\ UNCHANGED <<kind, user, closing, early>>
  BY DEF TerminateNext, notes, IInv, Typed
<1>2. /\ Len(ops) \in Nat /\ DOMAIN ops = 1..Len(ops) /\ ToSet(ops) = active
      /\ Len(ops) <= loop /\ IsInjective(ops)
  BY <1>1, LenProperties DEF IInv, Typed, Listed
<1>3. CASE loop <= Len(ops)
  <2> DEFINE o == ops[loop]
  <2>1. Terminate(o, user)
    BY <1>3 DEF TerminateNext, AtIndex
  <2>2. o \in active
    BY <1>1, <1>2, <1>3 DEF ToSet
  <2>3. ~early => Retains(o) = {}
    <3> SUFFICES ASSUME ~early, NEW r \in active, stmt[r] = o PROVE FALSE
      BY DEF Retains
    <3>1. Precedes(ops, o, r)
      BY <2>2, OpsAssumption DEF Handles, IInv, Typed
    <3>2. PICK i \in 1..Len(ops), j \in 1..Len(ops) : i < j /\ ops[i] = ops[loop]
      BY <3>1 DEF Precedes
    <3>3. i = loop
      BY <1>1, <1>2, <1>3, <3>2 DEF IsInjective
    <3> QED BY <1>1, <1>2, <3>2, <3>3
  <2>4. early' \in BOOLEAN /\ (~early' => ~early /\ Retains(o) = {})
    BY <1>1, <2>3 DEF Handles
  <2> HIDE DEF o
  <2> QED BY <1>1, <2>1, <2>2, <2>4, TerminateHandles DEF Handles
<1>4. CASE ~(loop <= Len(ops))
  <2>1. UNCHANGED <<ops, active, stmt, handle, undefined>>
    BY <1>4 DEF TerminateNext, opsVars
  <2>2. Cardinality(Ops) \in Nat
    BY OpsAssumption, FS_CardinalityType
  <2> QED BY <1>1, <2>1, <2>2 DEF Handles, Alive, Retains, OwnsHandle
<1> QED BY <1>3, <1>4

LEMMA ReleaseHandles == ASSUME IInv, Handles, NEW o \in Ops, Release(o) PROVE Handles'
<1>1. /\ ~undefined /\ loop = NULL /\ user' = user \ {o}
      /\ UNCHANGED <<kind, loop, closing, early>>
  BY DEF Release, Calls, notes
<1>2. CASE o \in active /\ Retains(o) = {}
  <2>1. Terminate(o, user')
    BY <1>2 DEF Release
  <2> QED BY <1>1, <1>2, <2>1, TerminateHandles DEF Handles
<1>3. CASE ~(o \in active /\ Retains(o) = {})
  <2>1. UNCHANGED <<ops, active, stmt, handle, undefined>>
    BY <1>3 DEF Release, opsVars
  <2> QED BY <1>1, <1>3, <2>1 DEF Handles, Alive, Retains, OwnsHandle
<1> QED BY <1>2, <1>3

LEMMA TerminateOperationHandles ==
  ASSUME IInv, Handles, NEW o \in Ops, TerminateOperation(o) PROVE Handles'
<1>1. /\ ~undefined /\ loop = NULL /\ o \in active /\ Terminate(o, user) /\ user' = user
      /\ early' = (early \/ (kind[o] = Statement /\ Retains(o) # {}))
      /\ UNCHANGED <<kind, loop, closing>>
  BY DEF TerminateOperation, Calls
<1>2. kind[o] # Statement => Retains(o) = {}
  <2> SUFFICES ASSUME NEW r \in active, stmt[r] = o PROVE kind[o] = Statement
    BY DEF Retains
  <2> QED BY OpsAssumption DEF Handles, IInv, Typed
<1>3. early' \in BOOLEAN /\ (~early' => ~early /\ Retains(o) = {})
  BY <1>1, <1>2 DEF Handles
<1> QED BY <1>1, <1>3, TerminateHandles DEF Handles

(* save terminates a transaction, which nothing retains.                   *)
LEMMA SaveHandles == ASSUME IInv, Handles, NEW t \in Ops, Save(t) PROVE Handles'
<1>1. /\ ~undefined /\ loop = NULL /\ t \in active /\ kind[t] = Transaction
      /\ Leave(t, NULL)
      /\ UNCHANGED <<kind, user, loop, closing, undefined, early>>
  BY DEF Save, Calls
<1>2. /\ ops' = Without(Without(ops, NULL), t)
      /\ active' = active \ {t, NULL} /\ NULL \notin active
      /\ handle' = handle \ {p \in {t, NULL} \cap Ops : OwnsHandle(p)}
      /\ \A p \in Ops : stmt'[p] = IF p \in {t, NULL} THEN NULL ELSE stmt[p]
  BY <1>1, OpsAssumption DEF Leave, IInv, Typed
<1>3. stmt[t] = NULL /\ \A r \in Ops : stmt[r] # t
  BY <1>1, KindsDiffer, OpsAssumption DEF Handles
<1>4. handle' = {p \in active' : OwnsHandle(p)'}
  <2>1. \A p \in active' : OwnsHandle(p)' <=> OwnsHandle(p)
    BY <1>1, <1>2, <1>3 DEF OwnsHandle, IInv, Typed
  <2> QED BY <1>2, <2>1 DEF Handles, IInv, Typed
<1>5. active' \subseteq Alive'
  <2> SUFFICES ASSUME NEW p \in active', p \notin user PROVE Retains(p)' # {}
    BY <1>1, <1>2 DEF Alive, IInv, Typed
  <2>1. PICK r \in active : stmt[r] = p
    BY <1>1, <1>2 DEF Handles, Alive, Retains
  <2>2. p # NULL
    BY <1>2
  <2>3. r # t /\ r \in active' /\ stmt'[r] = p
    BY <1>2, <1>3, <2>1, <2>2 DEF IInv, Typed
  <2> QED BY <2>3 DEF Retains
<1>6. \A r \in Ops : stmt'[r] # NULL =>
        r \in active' /\ kind'[r] = ResultSet /\ kind'[stmt'[r]] = Statement
  BY <1>1, <1>2, <1>3 DEF Handles
<1>7. ~early' => \A r \in active' : stmt'[r] # NULL => Precedes(ops', stmt'[r], r)
  <2> SUFFICES ASSUME ~early, NEW r \in active', stmt'[r] # NULL
               PROVE  Precedes(ops', stmt'[r], r)
    BY <1>1
  <2>1. r \in active /\ r \in Ops /\ r # t /\ r # NULL /\ stmt'[r] = stmt[r] /\ stmt[r] # t
    BY <1>2, <1>3 DEF IInv, Typed
  <2>2. ops \in Seq(Ops) /\ IsInjective(ops) /\ Precedes(ops, stmt[r], r)
    BY <2>1 DEF IInv, Typed, Handles
  <2>3. Without(ops, NULL) \in Seq(Ops) /\ IsInjective(Without(ops, NULL))
    BY <2>2, WithoutElements
  <2>4. Precedes(Without(ops, NULL), stmt[r], r)
    BY <2>1, <2>2, WithoutOrder
  <2>5. Precedes(Without(Without(ops, NULL), t), stmt[r], r)
    BY <2>1, <2>3, <2>4, WithoutOrder
  <2> QED BY <1>2, <2>1, <2>5
<1> QED BY <1>1, <1>4, <1>5, <1>6, <1>7 DEF Handles

(* As many numbers are between 1 and n as n says.                          *)
LEMMA NumbersUpTo == ASSUME NEW n \in Nat PROVE Cardinality(1..n) = n
<1>1. 1 \in Int /\ n \in Int
  OBVIOUS
<1>2. Cardinality(1..n) = IF 1 > n THEN 0 ELSE n - 1 + 1
  BY <1>1, FS_Interval
<1> QED BY <1>2

(* The index the loop starts with is no larger than the list can be.       *)
LEMMA StartHandles == ASSUME IInv, Handles, StartTerminating PROVE Handles'
<1>1. /\ closing' \in BOOLEAN /\ loop' = Len(ops)
      /\ UNCHANGED <<kind, user, undefined, ops, active, stmt, handle, early>>
  BY DEF StartTerminating, opsVars, notes
<1>2. Len(ops) <= Cardinality(Ops)
  <2>1. ops \in Seq(Ops) /\ IsInjective(ops) /\ Len(ops) \in Nat
    BY LenProperties DEF IInv, Typed
  <2>2. ops \in [1..Len(ops) -> Ops]
    BY <2>1, LenProperties
  <2>3. ops \in Injection(1..Len(ops), Ops)
    BY <2>1, <2>2 DEF Injection, IsInjective
  <2>4. Cardinality(1..Len(ops)) <= Cardinality(Ops)
    BY <2>3, OpsAssumption, FS_Injection
  <2>5. Cardinality(1..Len(ops)) = Len(ops)
    BY <2>1, NumbersUpTo
  <2> QED BY <2>4, <2>5
<1> QED BY <1>1, <1>2 DEF Handles, Alive, Retains, OwnsHandle

LEMMA HandlesStep == IInv /\ Handles /\ [Next]_vars => Handles'
<1> SUFFICES ASSUME IInv, Handles, [Next]_vars PROVE Handles'
  OBVIOUS
<1>1. ASSUME UNCHANGED <<kind, user, undefined, ops, active, stmt, handle, early>>,
             closing' \in BOOLEAN, loop' \in {loop, NULL}
      PROVE  Handles'
  BY <1>1 DEF Handles, Alive, Retains, OwnsHandle
<1> USE DEF opsVars, txVars, notes
<1>2. CASE Connect
  BY <1>1, <1>2 DEF Connect, Handles
<1>3. ASSUME NEW o \in Ops, Prepare(o) PROVE Handles'
  BY <1>3, RegisterHandles DEF Prepare, Kinds
<1>4. ASSUME NEW o \in Ops, FetchRequest(o) PROVE Handles'
  BY <1>4, RegisterHandles, KindsDiffer DEF FetchRequest, Kinds
<1>5. ASSUME NEW s \in Ops, NEW o \in Ops, Fetch(s, o) PROVE Handles'
  BY <1>5, RegisterHandles, KindsDiffer, OpsAssumption DEF Fetch, Kinds
<1>6. ASSUME NEW o \in Ops, OpenTransaction(o) PROVE Handles'
  BY <1>6, RegisterHandles, KindsDiffer DEF OpenTransaction, Kinds
<1>7. ASSUME NEW o \in Ops, AppendCommand(o) PROVE Handles'
  BY <1>1, <1>7 DEF AppendCommand, Handles
<1>8. ASSUME NEW o \in Ops, NextRow(o) PROVE Handles'
  <2>1. /\ o \in active /\ stmt[o] # NULL /\ stmt[o] \notin handle
        /\ undefined' = TRUE
        /\ UNCHANGED <<kind, user, loop, closing, ops, active, stmt, handle, early>>
    BY <1>8 DEF NextRow, ResetsFreed
  <2>2. early
    <3> SUFFICES ASSUME ~early PROVE FALSE
      BY DEF Handles
    <3>1. Precedes(ops, stmt[o], o) /\ kind[stmt[o]] = Statement
      BY <2>1 DEF Handles
    <3>2. stmt[o] \in active
      BY <3>1, PrecedesActive
    <3> QED BY <2>1, <3>1, <3>2 DEF Handles, OwnsHandle
  <2> QED BY <2>1, <2>2 DEF Handles, Alive, Retains, OwnsHandle
<1>9. CASE DirectCommand
  BY <1>1, <1>9 DEF DirectCommand, Handles
<1>10. CASE EndTerminating
  BY <1>1, <1>10 DEF EndTerminating
<1>11. CASE UNCHANGED vars
  BY <1>1, <1>11 DEF vars, Handles
<1> QED
  BY <1>2, <1>3, <1>4, <1>5, <1>6, <1>7, <1>8, <1>9, <1>10, <1>11, SaveHandles, ReleaseHandles,
     TerminateOperationHandles, StartHandles, TerminateNextHandles DEF Next

LEMMA HandlesHold == Spec => []Handles
<1>1. Init => Handles
  BY DEF Init, Handles
<1>2. IInv /\ Handles /\ [Next]_vars => Handles'
  BY HandlesStep
<1> QED BY <1>1, <1>2, IInvHolds, PTL DEF Spec

-----------------------------------------------------------------------------
(* No operation is active on a connection that has disconnected: the loop  *)
(* of terminateAllOperations misses none, whatever the operations that     *)
(* disappear while it runs.                                                *)
THEOREM NothingPending == Spec => []NoneDisconnected
<1>1. IInv => NoneDisconnected
  BY DEF IInv
<1> QED BY <1>1, IInvHolds, PTL

(* _intransaction misses no transaction that the database has open, and    *)
(* outlives one only when the database rolled back by itself.              *)
THEOREM FlagFollows == Spec => []FlagFollowsDatabase
<1>1. IInv => FlagFollowsDatabase
  BY DEF IInv
<1> QED BY <1>1, IInvHolds, PTL

(* openTransaction never makes a second active transaction, and the        *)
(* connection knows of the one there is.                                   *)
THEOREM TransactionsAlone == Spec => []OneTransaction
<1>1. ASSUME IInv PROVE OneTransaction
  <2> DEFINE T == active \cap OfKind(Transaction)
  <2> SUFFICES ASSUME ~direct PROVE Cardinality(T) <= 1 /\ (T # {} => inTx)
    BY DEF OneTransaction
  <2>1. \A t \in T : inTx /\ \A u \in T : u = t
    BY <1>1 DEF IInv, Single, OfKind
  <2> HIDE DEF T
  <2>2. CASE T = {}
    BY <2>2, FS_EmptySet
  <2>3. CASE T # {}
    <3>1. PICK t : t \in T
      BY <2>3
    <3>2. T = {t} /\ inTx
      BY <2>1, <3>1
    <3>3. Cardinality({t}) = 1
      BY FS_Singleton
    <3> QED BY <3>2, <3>3
  <2> QED BY <2>2, <2>3
<1> QED BY <1>1, IInvHolds, PTL

(* Only save commits: what a transaction wrote that failed to save, was    *)
(* cancelled or was dropped is never committed, by a later transaction     *)
(* either.                                                                 *)
THEOREM OnlySaveCommits == Spec => []AllOrNothing
<1>1. IInv => AllOrNothing
  BY DEF IInv, Writes, AllOrNothing
<1> QED BY <1>1, IInvHolds, PTL

(* The list of a connection holds exactly the operations that are active,  *)
(* and none that was deallocated; every prepared statement has its owner   *)
(* there, and is finalized before its result sets only by the program      *)
(* itself.                                                                 *)
THEOREM OperationsAlive == Spec => []RegisteredAlive
<1>1. ASSUME IInv, Handles PROVE RegisteredAlive
  <2>1. loop \in 0..Cardinality(Ops) \cup {NULL}
    <3>1. Cardinality(Ops) \in Nat
      BY OpsAssumption, FS_CardinalityType
    <3> QED BY <1>1, <3>1 DEF IInv, Typed, Handles
  <2>2. active \cup user \cup handle \cup txWrites \cup committed \subseteq Ops
    BY <1>1 DEF IInv, Typed, Handles
  <2>3. ToSet(ops) \subseteq Ops
    BY <1>1, <2>2 DEF IInv, Listed
  <2>4. TypeOK
    BY <1>1, <2>1, <2>2, <2>3 DEF IInv, Typed, Handles, TypeOK
  <2> QED BY <1>1, <2>4 DEF IInv, Listed, Handles, RegisteredAlive
<1> QED BY <1>1, IInvHolds, HandlesHold, PTL

-----------------------------------------------------------------------------
(* The calls a thread may be in.  Only a post is ever told of anything, or *)
(* stands on an entry.                                                     *)
FrameType ==
  {f \in [what : CenterCalls \cup {"require", "give"},
          with : Observers \cup Connections \cup {None},
          name : Names \cup {AnyName},
          stage : {"waits", "inside", "told"},
          at : Entries \cup {None}] :
     /\ f.stage = "told" => f.what = "post"
     /\ f.at # None => f.what = "post" /\ f.stage # "waits"
     /\ f.what \in {"add", "remove", "leave"} => f.with \in Observers
     /\ f.what = "leave" => f.name = AnyName
     /\ f.what = "give" => f.with \in Connections}

(* The calls of a thread: what is below the innermost one is a post that   *)
(* tells an observer.                                                      *)
Stack(s) ==
  /\ s \in Seq(FrameType)
  /\ \A i \in 1 .. Len(s) - 1 : s[i].stage = "told"

(* How many of them hold the mutex of the center, and what they stand on.  *)
HoldsCenter(f) == f.what \in CenterCalls /\ f.stage # "waits"
Within(s) ==
  IF s = <<>> THEN 0 ELSE IF HoldsCenter(Last(s)) THEN Len(s) ELSE Len(s) - 1
Stood(s) == {f.at : f \in ToSet(s)} \ {None}
InPool(s) == s # <<>> /\ Last(s).what \in {"require", "give"} /\ Last(s).stage = "inside"

(* Front leaves out the last element, and only that.                       *)
LEMMA FrontElements ==
  ASSUME NEW S, NEW s \in Seq(S), s # <<>>
  PROVE  /\ Front(s) \in Seq(S) /\ Len(Front(s)) = Len(s) - 1 /\ Len(s) \in Nat \ {0}
         /\ \A i \in 1 .. Len(s) - 1 : Front(s)[i] = s[i]
         /\ Last(s) = s[Len(s)] /\ Last(s) \in S /\ Last(s) \in ToSet(s)
         /\ ToSet(s) = ToSet(Front(s)) \cup {Last(s)}
<1>1. Len(s) \in Nat \ {0} /\ DOMAIN s = 1 .. Len(s) /\ Len(s) \in 1 .. Len(s)
  BY EmptySeq, LenProperties
<1>2. /\ Front(s) \in Seq(S) /\ Len(Front(s)) = Len(s) - 1
      /\ \A i \in 1 .. Len(s) - 1 : Front(s)[i] = s[i]
  BY <1>1 DEF Front
<1>3. DOMAIN Front(s) = 1 .. Len(s) - 1
  BY <1>1, <1>2
<1>4. 1 .. Len(s) = 1 .. Len(s) - 1 \cup {Len(s)}
  BY <1>1
<1>5. Last(s) = s[Len(s)]
  BY DEF Last
<1>6. ToSet(s) = ToSet(Front(s)) \cup {Last(s)}
  BY <1>1, <1>2, <1>3, <1>4, <1>5 DEF ToSet
<1> QED BY <1>1, <1>2, <1>5, <1>6

(* A call that is made: nothing below waits, or is inside.                 *)
LEMMA Pushed ==
  ASSUME NEW s, Stack(s), s # <<>> => Last(s).stage = "told",
         NEW f \in FrameType, f.stage = "waits"
  PROVE  /\ Stack(Append(s, f)) /\ Within(Append(s, f)) = Within(s)
         /\ Stood(Append(s, f)) = Stood(s)
         /\ ToSet(Append(s, f)) = ToSet(s) \cup {f}
         /\ Append(s, f) # <<>> /\ Last(Append(s, f)) = f
<1> DEFINE r == Append(s, f)
<1>1. /\ s \in Seq(FrameType) /\ Len(s) \in Nat
      /\ r \in Seq(FrameType) /\ Len(r) = Len(s) + 1 /\ r # <<>>
      /\ \A i \in 1 .. Len(s) : r[i] = s[i]
      /\ r[Len(s) + 1] = f
  BY AppendProperties, LenProperties DEF Stack
<1>2. ToSet(r) = ToSet(s) \cup {f}
  BY <1>1, AppendToSet
<1> HIDE DEF r
<1>3. Last(r) = f
  BY <1>1 DEF Last
<1>4. Stack(r)
  <2>1. ASSUME NEW i \in 1 .. Len(s) PROVE r[i].stage = "told"
    <3>1. i < Len(s) \/ i = Len(s)
      BY <1>1
    <3>2. s # <<>>
      BY <1>1
    <3> QED BY <1>1, <3>1, <3>2 DEF Stack, Last
  <2> QED BY <1>1, <2>1 DEF Stack
<1>5. Within(r) = Within(s)
  <2>1. Within(r) = Len(s)
    BY <1>1, <1>3 DEF Within, HoldsCenter
  <2>2. CASE s = <<>>
    BY <1>1, <2>1, <2>2 DEF Within
  <2>3. CASE s # <<>>
    <3>1. Last(s) \in FrameType
      BY <1>1, <2>3, FrontElements
    <3>2. HoldsCenter(Last(s))
      BY <2>3, <3>1 DEF HoldsCenter, FrameType, CenterCalls
    <3> QED BY <2>1, <2>3, <3>2 DEF Within
  <2> QED BY <2>2, <2>3
<1>6. f.at = None
  BY DEF FrameType
<1>7. Stood(r) = Stood(s)
  BY <1>2, <1>6 DEF Stood
<1> QED BY <1>1, <1>2, <1>3, <1>4, <1>5, <1>7 DEF r

(* A call that returns: a post goes on below it.                           *)
LEMMA Popped ==
  ASSUME NEW s, Stack(s), s # <<>>
  PROVE  /\ Stack(Front(s)) /\ Within(Front(s)) = Len(s) - 1
         /\ ToSet(Front(s)) \subseteq ToSet(s) /\ Stood(Front(s)) \subseteq Stood(s)
         /\ Front(s) # <<>> => Last(Front(s)).stage = "told" /\ Last(Front(s)).what = "post"
<1> DEFINE r == Front(s)
<1>1. /\ r \in Seq(FrameType) /\ Len(r) = Len(s) - 1 /\ Len(s) \in Nat \ {0}
      /\ \A i \in 1 .. Len(s) - 1 : r[i] = s[i]
      /\ ToSet(r) \subseteq ToSet(s)
  BY FrontElements DEF Stack
<1> HIDE DEF r
<1>2. \A i \in 1 .. Len(r) : r[i].stage = "told"
  BY <1>1 DEF Stack
<1>3. Stack(r)
  BY <1>1, <1>2 DEF Stack
<1>4. r # <<>> => Last(r).stage = "told" /\ Last(r).what = "post" /\ Len(r) > 0
  <2>1. ASSUME r # <<>> PROVE Last(r) = r[Len(r)] /\ Last(r) \in FrameType /\ Len(r) \in 1 .. Len(r)
    BY <1>1, <2>1, FrontElements
  <2> QED BY <1>1, <1>2, <2>1 DEF FrameType
<1>5. Within(r) = Len(s) - 1
  <2>1. r = <<>> => Len(r) = 0
    BY <1>1
  <2> QED BY <1>1, <1>4, <2>1 DEF Within, HoldsCenter, CenterCalls
<1>6. Stood(r) \subseteq Stood(s)
  BY <1>1 DEF Stood
<1> QED BY <1>1, <1>3, <1>4, <1>5, <1>6 DEF r

(* A call that goes on.                                                    *)
LEMMA Changed ==
  ASSUME NEW s, Stack(s), s # <<>>, NEW f \in FrameType
  PROVE  LET r == [s EXCEPT ![Len(s)] = f] IN
         /\ Stack(r) /\ Len(r) = Len(s) /\ r # <<>> /\ Last(r) = f
         /\ Stood(r) \subseteq Stood(s) \cup ({f.at} \ {None})
<1> DEFINE r == [s EXCEPT ![Len(s)] = f]
           n == Len(s)
<1>1. s \in Seq(FrameType) /\ n \in Nat \ {0} /\ n \in 1 .. n
  BY FrontElements DEF Stack
<1>2. r \in Seq(FrameType) /\ Len(r) = n /\ \A j \in 1 .. n : r[j] = IF j = n THEN f ELSE s[j]
  BY <1>1, ExceptSeq
<1>3. DOMAIN r = 1 .. n /\ DOMAIN s = 1 .. n
  BY <1>1, <1>2
<1> HIDE DEF r
<1>4. r[n] = f /\ \A i \in 1 .. n - 1 : r[i] = s[i]
  BY <1>1, <1>2
<1>5. Stack(r) /\ r # <<>> /\ Last(r) = f
  BY <1>1, <1>2, <1>4 DEF Stack, Last
<1>6. ToSet(r) \subseteq ToSet(s) \cup {f}
  BY <1>2, <1>3 DEF ToSet
<1>7. Stood(r) \subseteq Stood(s) \cup ({f.at} \ {None})
  BY <1>6 DEF Stood
<1> QED BY <1>2, <1>5, <1>7 DEF r

-----------------------------------------------------------------------------
(* The invariant, in parts. *)
PoolTyped ==
  /\ platform \in {"posix", "vista"}
  /\ owner \in Threads \cup {None} /\ depth \in Nat
  /\ poolOwner \in Threads \cup {None}
  /\ list \in Seq(Entries)
  /\ entry \in [Entries -> [observer : Observers \cup {None}, name : Names \cup {AnyName}]]
  /\ frames \in [Threads -> Seq(FrameType)] /\ \A t \in Threads : Stack(frames[t])
  /\ gone \in SUBSET Observers
  /\ freedUnder \in SUBSET (Threads \X Threads)
  /\ idle \in Seq(Connections) /\ users \in [Connections -> SUBSET Threads]
  /\ twice \in BOOLEAN

(* Who has a mutex is in as many calls that hold it as he locked it.  The  *)
(* mutex of the pool is held by innermost calls only.                      *)
Held ==
  /\ owner = None <=> depth = 0
  /\ ~Mutex!Windows => depth <= 1
  /\ \A t \in Threads : Within(frames[t]) = IF owner = t THEN depth ELSE 0
  /\ poolDepth = IF poolOwner = None THEN 0 ELSE 1
  /\ \A t \in Threads : poolOwner = t <=> InPool(frames[t])

(* Who makes a call takes no mutex yet.                                    *)
LEMMA CalledHeld ==
  ASSUME PoolTyped, Held, NEW t \in Threads, NEW f \in FrameType, f.stage = "waits",
         Free(t), Called(t, f), UNCHANGED <<platform, mutex, poolMutex>>
  PROVE  /\ Held'
         /\ frames' \in [Threads -> Seq(FrameType)] /\ \A u \in Threads : Stack(frames'[u])
         /\ \A u \in Threads : u # t => frames'[u] = frames[u]
         /\ frames'[t] # <<>> /\ Last(frames'[t]) = f
         /\ \A u \in Threads : Stood(frames'[u]) = Stood(frames[u])
<1>1. frames'[t] = Append(frames[t], f) /\ \A u \in Threads : u # t => frames'[u] = frames[u]
  BY DEF PoolTyped, Called
<1>2. /\ Stack(frames[t]) /\ frames' = [frames EXCEPT ![t] = frames'[t]]
      /\ frames \in [Threads -> Seq(FrameType)]
  BY <1>1 DEF PoolTyped, Called
<1>3. frames[t] # <<>> => Last(frames[t]).stage = "told"
  BY DEF Free, Top
<1>4. /\ Stack(frames'[t]) /\ Within(frames'[t]) = Within(frames[t])
      /\ Stood(frames'[t]) = Stood(frames[t])
      /\ frames'[t] # <<>> /\ Last(frames'[t]) = f
  BY <1>1, <1>2, <1>3, Pushed
<1>5. ~InPool(frames'[t]) /\ ~InPool(frames[t])
  BY <1>3, <1>4 DEF InPool
<1>6. frames'[t] \in Seq(FrameType)
  BY <1>4 DEF Stack
<1>7. frames' \in [Threads -> Seq(FrameType)]
  BY <1>2, <1>6
<1>8. \A u \in Threads : Stack(frames'[u])
  BY <1>1, <1>4 DEF PoolTyped
<1>9. Held'
  BY <1>1, <1>4, <1>5 DEF Held, mutex, poolMutex, Mutex!Windows
<1>10. \A u \in Threads : Stood(frames'[u]) = Stood(frames[u])
  BY <1>1, <1>4
<1> QED BY <1>1, <1>4, <1>7, <1>8, <1>9, <1>10

(* The same of the calls of all threads: one goes on ...                   *)
LEMMA GoesOnFrames ==
  ASSUME PoolTyped, NEW t \in Threads, frames[t] # <<>>, NEW st, NEW a,
         [Top(t) EXCEPT !.stage = st, !.at = a] \in FrameType, GoesOn(t, st, a)
  PROVE  /\ frames' \in [Threads -> Seq(FrameType)] /\ \A u \in Threads : Stack(frames'[u])
         /\ \A u \in Threads : u # t => frames'[u] = frames[u]
         /\ frames'[t] # <<>> /\ Len(frames'[t]) = Len(frames[t])
         /\ Last(frames'[t]) = [Last(frames[t]) EXCEPT !.stage = st, !.at = a]
         /\ Last(frames'[t]).stage = st /\ Last(frames'[t]).at = a
         /\ Last(frames'[t]).what = Top(t).what /\ Last(frames'[t]).with = Top(t).with
         /\ Last(frames'[t]).name = Top(t).name
         /\ Stood(frames'[t]) \subseteq Stood(frames[t]) \cup ({a} \ {None})
<1> DEFINE s == frames[t]
           f == [Last(s) EXCEPT !.stage = st, !.at = a]
           r == [s EXCEPT ![Len(s)] = f]
<1>1. Stack(s) /\ s \in Seq(FrameType) /\ s # <<>> /\ f \in FrameType
  BY DEF PoolTyped, Top
<1>2. Last(s) \in FrameType
  BY <1>1, FrontElements
<1>3. /\ f.stage = st /\ f.at = a /\ f.what = Last(s).what /\ f.with = Last(s).with
      /\ f.name = Last(s).name
  BY <1>2 DEF FrameType
<1>4. frames' = [frames EXCEPT ![t] = r]
  BY DEF GoesOn, Last
<1> HIDE DEF f
<1>5. /\ Stack(r) /\ Len(r) = Len(s) /\ r # <<>> /\ Last(r) = f
      /\ Stood(r) \subseteq Stood(s) \cup ({f.at} \ {None})
  BY <1>1, Changed
<1>6. frames'[t] = r /\ \A u \in Threads : u # t => frames'[u] = frames[u]
  BY <1>4 DEF PoolTyped
<1> HIDE DEF r
<1>7. frames' \in [Threads -> Seq(FrameType)]
  BY <1>4, <1>5 DEF PoolTyped, Stack
<1>8. \A u \in Threads : Stack(frames'[u])
  BY <1>5, <1>6 DEF PoolTyped
<1>9. /\ Last(frames'[t]) = [Last(frames[t]) EXCEPT !.stage = st, !.at = a]
      /\ Last(frames'[t]).stage = st /\ Last(frames'[t]).at = a
      /\ Last(frames'[t]).what = Top(t).what /\ Last(frames'[t]).with = Top(t).with
      /\ Last(frames'[t]).name = Top(t).name
  BY <1>3, <1>5, <1>6 DEF f, Top
<1>10. /\ frames'[t] # <<>> /\ Len(frames'[t]) = Len(frames[t])
       /\ Stood(frames'[t]) \subseteq Stood(frames[t]) \cup ({a} \ {None})
  BY <1>3, <1>5, <1>6
<1> QED BY <1>6, <1>7, <1>8, <1>9, <1>10

(* ... or one returns.                                                     *)
LEMMA ReturnedFrames ==
  ASSUME PoolTyped, NEW t \in Threads, frames[t] # <<>>, Returned(t)
  PROVE  /\ frames' \in [Threads -> Seq(FrameType)] /\ \A u \in Threads : Stack(frames'[u])
         /\ \A u \in Threads : u # t => frames'[u] = frames[u]
         /\ Within(frames'[t]) = Len(frames[t]) - 1
         /\ Stood(frames'[t]) \subseteq Stood(frames[t])
         /\ frames'[t] # <<>> => Last(frames'[t]).stage = "told" /\ Last(frames'[t]).what = "post"
<1> DEFINE r == Front(frames[t])
<1>1. Stack(frames[t])
  BY DEF PoolTyped
<1>2. /\ Stack(r) /\ Within(r) = Len(frames[t]) - 1
      /\ Stood(r) \subseteq Stood(frames[t])
      /\ r # <<>> => Last(r).stage = "told" /\ Last(r).what = "post"
  BY <1>1, Popped
<1>3. frames' = [frames EXCEPT ![t] = r]
  BY DEF Returned
<1> HIDE DEF r
<1>4. frames'[t] = r /\ \A u \in Threads : u # t => frames'[u] = frames[u]
  BY <1>3 DEF PoolTyped
<1>5. frames' \in [Threads -> Seq(FrameType)]
  BY <1>2, <1>3 DEF PoolTyped, Stack
<1>6. \A u \in Threads : Stack(frames'[u])
  BY <1>2, <1>4 DEF PoolTyped
<1> QED BY <1>2, <1>4, <1>5, <1>6

(* The innermost call is one of the thread's calls.                        *)
LEMMA TopTyped ==
  ASSUME PoolTyped, NEW t \in Threads, frames[t] # <<>>
  PROVE  /\ Top(t) \in FrameType /\ Top(t) = Last(frames[t])
         /\ Top(t) \in ToSet(frames[t]) /\ Len(frames[t]) \in Nat \ {0}
<1>1. frames[t] \in Seq(FrameType)
  BY DEF PoolTyped
<1> QED BY <1>1, FrontElements DEF Top

(* The mutex of the center is taken, and left, by the innermost call. *)
LEMMA LockHeld ==
  ASSUME PoolTyped, Held, NEW t \in Threads, In(t, CenterCalls, "waits"), Mutex!Lock(t),
         NEW a \in Entries \cup {None}, a # None => Top(t).what = "post",
         GoesOn(t, "inside", a), UNCHANGED <<platform, poolMutex>>
  PROVE  Held' /\ owner' \in Threads \cup {None} /\ depth' \in Nat
<1>1. frames[t] # <<>> /\ Top(t).what \in CenterCalls /\ Top(t).stage = "waits"
  BY DEF In
<1>2. Top(t) \in FrameType /\ Top(t) = Last(frames[t]) /\ Len(frames[t]) \in Nat \ {0}
  BY <1>1, TopTyped
<1>3. [Top(t) EXCEPT !.stage = "inside", !.at = a] \in FrameType
  BY <1>1, <1>2 DEF FrameType, CenterCalls
<1>4. /\ \A u \in Threads : u # t => frames'[u] = frames[u]
      /\ frames'[t] # <<>> /\ Len(frames'[t]) = Len(frames[t])
      /\ Last(frames'[t]).stage = "inside" /\ Last(frames'[t]).what = Top(t).what
  BY <1>1, <1>3, GoesOnFrames
<1>5. Within(frames[t]) = Len(frames[t]) - 1 /\ Within(frames'[t]) = Len(frames[t])
  BY <1>1, <1>2, <1>4 DEF Within, HoldsCenter
<1>6. ~InPool(frames[t]) /\ ~InPool(frames'[t])
  BY <1>1, <1>2, <1>4 DEF InPool, CenterCalls
<1>7. /\ owner = None \/ (owner = t /\ Mutex!Windows)
      /\ owner' = t /\ depth' = depth + 1
  BY DEF Mutex!Lock, Mutex!Take
<1>8. t # None /\ depth \in Nat
  BY CenterAssumption DEF PoolTyped
<1>9. \A u \in Threads : Within(frames'[u]) = IF owner' = u THEN depth' ELSE 0
  BY <1>4, <1>5, <1>7, <1>8 DEF Held
<1>10. ~Mutex!Windows' => depth' <= 1
  BY <1>7, <1>8 DEF Held, Mutex!Windows
<1> QED BY <1>4, <1>6, <1>7, <1>8, <1>9, <1>10 DEF Held, poolMutex

(* It is left to the call below, when there is one.                        *)
LEMMA UnlockHeld ==
  ASSUME PoolTyped, Held, NEW t \in Threads, In(t, CenterCalls, "inside"), Mutex!Unlock(t),
         Returned(t), UNCHANGED <<platform, poolMutex>>
  PROVE  Held' /\ owner' \in Threads \cup {None} /\ depth' \in Nat /\ owner = t
<1>1. frames[t] # <<>> /\ Top(t).what \in CenterCalls /\ Top(t).stage = "inside"
  BY DEF In
<1>2. Top(t) \in FrameType /\ Top(t) = Last(frames[t]) /\ Len(frames[t]) \in Nat \ {0}
  BY <1>1, TopTyped
<1>4. /\ \A u \in Threads : u # t => frames'[u] = frames[u]
      /\ Within(frames'[t]) = Len(frames[t]) - 1
      /\ frames'[t] # <<>> => Last(frames'[t]).stage = "told"
  BY <1>1, ReturnedFrames
<1>5. Within(frames[t]) = Len(frames[t])
  BY <1>1, <1>2 DEF Within, HoldsCenter
<1>6. ~InPool(frames[t]) /\ ~InPool(frames'[t])
  BY <1>1, <1>2, <1>4 DEF InPool, CenterCalls
<1>7. t # None /\ depth \in Nat /\ owner = t /\ depth = Len(frames[t])
  BY <1>2, <1>5, CenterAssumption DEF PoolTyped, Held
<1>8. owner' = (IF depth > 1 THEN owner ELSE None) /\ depth' = depth - 1
  BY <1>7 DEF Mutex!Unlock
<1>13. \/ depth = 1 /\ owner' = None /\ depth' = 0
       \/ depth > 1 /\ owner' = t /\ depth' # 0
  <2>1. depth \in Nat /\ depth # 0
    BY <1>2, <1>7
  <2>2. CASE depth = 1
    BY <1>8, <2>2
  <2>3. CASE depth > 1
    <3>1. owner' = t /\ depth' = depth - 1
      BY <1>7, <1>8, <2>3
    <3>2. depth - 1 # 0
      BY <2>1, <2>3
    <3> QED BY <2>3, <3>1, <3>2
  <2> QED BY <2>1, <2>2, <2>3
<1>9. \A u \in Threads : Within(frames'[u]) = IF owner' = u THEN depth' ELSE 0
  <2>1. Within(frames'[t]) = depth'
    BY <1>4, <1>7, <1>8
  <2>2. \A u \in Threads : u # t => Within(frames'[u]) = 0
    BY <1>4, <1>7 DEF Held
  <2> QED BY <1>7, <1>13, <2>1, <2>2
<1>10. ~Mutex!Windows' => depth' <= 1
  BY <1>7, <1>8 DEF Held, Mutex!Windows
<1>11. owner' = None <=> depth' = 0
  BY <1>7, <1>13
<1>12. \A u \in Threads : poolOwner' = u <=> InPool(frames'[u])
  BY <1>4, <1>6 DEF Held, poolMutex
<1> QED BY <1>2, <1>7, <1>8, <1>9, <1>10, <1>11, <1>12 DEF Held, poolMutex, PoolTyped

(* The mutex of the pool: the thread that has it is in no call below. *)
LEMMA LockPoolHeld ==
  ASSUME PoolTyped, Held, NEW t \in Threads, In(t, {"require", "give"}, "waits"), Lock!Lock(t),
         GoesOn(t, "inside", None), UNCHANGED <<platform, mutex>>
  PROVE  Held' /\ poolOwner' \in Threads
<1>1. frames[t] # <<>> /\ Top(t).what \in {"require", "give"} /\ Top(t).stage = "waits"
  BY DEF In
<1>2. Top(t) \in FrameType /\ Top(t) = Last(frames[t]) /\ Len(frames[t]) \in Nat \ {0}
  BY <1>1, TopTyped
<1>3. [Top(t) EXCEPT !.stage = "inside", !.at = None] \in FrameType
  BY <1>1, <1>2 DEF FrameType, CenterCalls
<1>4. /\ \A u \in Threads : u # t => frames'[u] = frames[u]
      /\ frames'[t] # <<>> /\ Len(frames'[t]) = Len(frames[t])
      /\ Last(frames'[t]).stage = "inside" /\ Last(frames'[t]).what = Top(t).what
  BY <1>1, <1>3, GoesOnFrames
<1>5. Within(frames'[t]) = Within(frames[t])
  BY <1>1, <1>2, <1>4 DEF Within, HoldsCenter, CenterCalls
<1>6. ~InPool(frames[t]) /\ InPool(frames'[t])
  BY <1>1, <1>2, <1>4 DEF InPool
<1>7. t # None /\ poolOwner = None /\ poolDepth = 0 /\ poolOwner' = t /\ poolDepth' = 1
  BY <1>6, CenterAssumption DEF Lock!Lock, Lock!Take, Held
<1>8. \A u \in Threads : poolOwner' = u <=> InPool(frames'[u])
  BY <1>4, <1>6, <1>7, CenterAssumption DEF Held
<1>9. \A u \in Threads : Within(frames'[u]) = IF owner' = u THEN depth' ELSE 0
  BY <1>4, <1>5 DEF Held, mutex
<1> QED BY <1>7, <1>8, <1>9 DEF Held, mutex, Mutex!Windows

(* It is left with the end of the call that took it.                       *)
LEMMA UnlockPoolHeld ==
  ASSUME PoolTyped, Held, NEW t \in Threads, In(t, {"require", "give"}, "inside"), Lock!Unlock(t),
         Returned(t), UNCHANGED <<platform, mutex>>
  PROVE  Held' /\ poolOwner' = None
<1>1. frames[t] # <<>> /\ Top(t).what \in {"require", "give"} /\ Top(t).stage = "inside"
  BY DEF In
<1>2. Top(t) \in FrameType /\ Top(t) = Last(frames[t]) /\ Len(frames[t]) \in Nat \ {0}
  BY <1>1, TopTyped
<1>4. /\ \A u \in Threads : u # t => frames'[u] = frames[u]
      /\ Within(frames'[t]) = Len(frames[t]) - 1
      /\ frames'[t] # <<>> => Last(frames'[t]).stage = "told"
  BY <1>1, ReturnedFrames
<1>5. Within(frames[t]) = Len(frames[t]) - 1
  BY <1>1, <1>2 DEF Within, HoldsCenter, CenterCalls
<1>6. InPool(frames[t]) /\ ~InPool(frames'[t])
  BY <1>1, <1>2, <1>4 DEF InPool
<1>7. t # None /\ poolOwner = t /\ poolDepth = 1
  BY <1>6, CenterAssumption DEF Held
<1>8. poolOwner' = None /\ poolDepth' = 0
  BY <1>7 DEF Lock!Unlock
<1>9. \A u \in Threads : poolOwner' = u <=> InPool(frames'[u])
  BY <1>4, <1>6, <1>7, <1>8, CenterAssumption DEF Held
<1>10. \A u \in Threads : Within(frames'[u]) = IF owner' = u THEN depth' ELSE 0
  BY <1>4, <1>5 DEF Held, mutex
<1> QED BY <1>8, <1>9, <1>10 DEF Held, mutex, Mutex!Windows

(* A post goes from entry to entry, and tells their observers. *)
LEMMA PostGoesOn ==
  ASSUME PoolTyped, Held, NEW t \in Threads, In(t, {"post"}, "inside") \/ In(t, {"post"}, "told"),
         NEW st \in {"inside", "told"}, NEW a \in Entries \cup {None},
         GoesOn(t, st, a), UNCHANGED <<platform, mutex, poolMutex>>
  PROVE  /\ Held'
         /\ frames' \in [Threads -> Seq(FrameType)] /\ \A u \in Threads : Stack(frames'[u])
         /\ \A u \in Threads : u # t => frames'[u] = frames[u]
         /\ frames'[t] # <<>> /\ Last(frames'[t]).what = "post"
         /\ Stood(frames'[t]) \subseteq Stood(frames[t]) \cup ({a} \ {None})
<1>1. frames[t] # <<>> /\ Top(t).what = "post" /\ Top(t).stage # "waits"
  BY DEF In
<1>2. Top(t) \in FrameType /\ Top(t) = Last(frames[t]) /\ Len(frames[t]) \in Nat \ {0}
  BY <1>1, TopTyped
<1>3. [Top(t) EXCEPT !.stage = st, !.at = a] \in FrameType
  BY <1>1, <1>2 DEF FrameType
<1>4. /\ frames' \in [Threads -> Seq(FrameType)] /\ \A u \in Threads : Stack(frames'[u])
      /\ \A u \in Threads : u # t => frames'[u] = frames[u]
      /\ frames'[t] # <<>> /\ Len(frames'[t]) = Len(frames[t])
      /\ Last(frames'[t]).stage = st /\ Last(frames'[t]).what = "post"
      /\ Stood(frames'[t]) \subseteq Stood(frames[t]) \cup ({a} \ {None})
  BY <1>1, <1>3, GoesOnFrames
<1>5. Within(frames'[t]) = Within(frames[t]) /\ ~InPool(frames[t]) /\ ~InPool(frames'[t])
  BY <1>1, <1>2, <1>4 DEF Within, HoldsCenter, CenterCalls, InPool
<1>6. \A u \in Threads : Within(frames'[u]) = Within(frames[u]) /\ (InPool(frames'[u]) <=> InPool(frames[u]))
  BY <1>4, <1>5
<1>7. Held'
  BY <1>6 DEF Held, mutex, poolMutex, Mutex!Windows
<1> QED BY <1>4, <1>7

-----------------------------------------------------------------------------
(* The innermost call of a thread. *)
Doing(t, what) == frames[t] # <<>> /\ Top(t).what = what
With(t) == Top(t).with

(* An observer that is added is not gone, and not about to go. *)
Passing ==
  \A t \in Threads : Doing(t, "add") =>
    /\ With(t) \notin gone
    /\ \A u \in Threads : Doing(u, "leave") => With(u) # With(t)

(* A connection is idle, with one thread, or about to be given back by one. *)
Places ==
  ~twice =>
    /\ IsInjective(idle)
    /\ \A c \in Connections : \A t, u \in users[c] : t = u
    /\ \A c \in Connections : c \in ToSet(idle) => users[c] = {} /\ c \notin busy
    /\ \A t \in Threads : Doing(t, "give") =>
         /\ users[With(t)] = {} /\ With(t) \notin ToSet(idle)
         /\ \A u \in Threads : Doing(u, "give") /\ With(u) = With(t) => u = t

(* The invariant of pool and center. *)
PoolInv == PoolTyped /\ Held /\ Passing /\ ObserversLive /\ Places

(* A post goes on to an entry of the list, or to none.                     *)
LEMMA NextFromListed ==
  ASSUME list \in Seq(Entries), NEW i, NEW n
  PROVE  NextFrom(i, n) \in ToSet(list) \cup {None}
<1> DEFINE later == {j \in DOMAIN list : j > i /\ Hears(list[j], n)}
           least == CHOOSE j \in later : \A k \in later : j <= k
<1>1. CASE later = {}
  BY <1>1 DEF NextFrom
<1>2. CASE later # {}
  <2>1. later \subseteq Nat /\ later \subseteq DOMAIN list
    BY LenProperties
  <2> HIDE DEF later
  <2>2. \E m \in later : \A k \in later : m <= k
    BY <1>2, <2>1, LeastNumber
  <2>3. least \in later
    BY <2>2
  <2>4. NextFrom(i, n) = list[least]
    BY <1>2 DEF NextFrom, later
  <2> HIDE DEF least
  <2> QED BY <2>1, <2>3, <2>4 DEF ToSet
<1> QED BY <1>1, <1>2

(* What a step of a call does not change: as long as the same calls are    *)
(* innermost, or an innermost one returned to a post.                      *)
SameCalls(t) ==
  /\ \A u \in Threads : u # t => frames'[u] = frames[u]
  /\ frames'[t] # <<>> =>
       \/ Last(frames'[t]).what = "post"
       \/ /\ frames[t] # <<>>
          /\ Last(frames'[t]).what = Top(t).what /\ Last(frames'[t]).with = Top(t).with

(* Then it is as if nothing else was called ...                            *)
LEMMA SameDoing ==
  ASSUME NEW t \in Threads, SameCalls(t), NEW u \in Threads, NEW w, w # "post", Doing(u, w)'
  PROVE  Doing(u, w) /\ With(u)' = With(u)
<1>1. CASE u = t
  BY <1>1 DEF SameCalls, Doing, With, Top
<1>2. CASE u # t
  BY <1>2 DEF SameCalls, Doing, With, Top
<1> QED BY <1>1, <1>2

(* ... observers are passed to the same calls ...                          *)
LEMMA SamePassing ==
  ASSUME Passing, NEW t \in Threads, SameCalls(t), UNCHANGED gone
  PROVE  Passing'
<1> SUFFICES ASSUME NEW u \in Threads, Doing(u, "add")'
             PROVE  /\ (With(u) \notin gone)'
                    /\ \A v \in Threads : Doing(v, "leave")' => With(v)' # With(u)'
  BY DEF Passing
<1>1. Doing(u, "add") /\ With(u)' = With(u)
  BY SameDoing
<1>2. \A v \in Threads : Doing(v, "leave")' => Doing(v, "leave") /\ With(v)' = With(v)
  BY SameDoing
<1> QED BY <1>1, <1>2 DEF Passing

(* ... and connections are where they were.                                *)
LEMMA SamePlaces ==
  ASSUME Places, NEW t \in Threads, SameCalls(t), UNCHANGED <<idle, users, twice>>,
         busy' \subseteq busy \cup {c \in Connections : users[c] # {}}
  PROVE  Places'
<1> SUFFICES ASSUME ~twice PROVE Places'
  BY DEF Places
<1>1. \A v \in Threads : Doing(v, "give")' => Doing(v, "give") /\ With(v)' = With(v)
  BY SameDoing
<1>2. \A v \in Threads : Doing(v, "give")' =>
        /\ users'[With(v)'] = {} /\ With(v)' \notin ToSet(idle')
        /\ \A u \in Threads : Doing(u, "give")' /\ With(u)' = With(v)' => u = v
  BY <1>1 DEF Places
<1>3. \A c \in Connections : c \in ToSet(idle') => users'[c] = {} /\ c \notin busy'
  BY DEF Places
<1>4. IsInjective(idle') /\ \A c \in Connections : \A x, y \in users'[c] : x = y
  BY DEF Places
<1> QED BY <1>2, <1>3, <1>4 DEF Places

(* The part of ObserversLive that a step leaves alone which neither takes  *)
(* an entry out nor lets an observer go.                                   *)
LEMMA SameLive ==
  ASSUME PoolTyped, ObserversLive, NEW t \in Threads,
         \A u \in Threads : u # t => frames'[u] = frames[u],
         freedUnder = {} => StandsOn(t)' \subseteq StandsOn(t) \cup ToSet(list),
         UNCHANGED <<platform, list, entry, gone, freedUnder>>
  PROVE  ObserversLive'
<1>1. \A u \in Threads : u # t => StandsOn(u)' = StandsOn(u)
  BY DEF StandsOn
<1>2. freedUnder = {} => \A u \in Threads : StandsOn(u)' \subseteq ToSet(list)
  BY <1>1 DEF ObserversLive
<1> QED BY <1>2 DEF ObserversLive, Mutex!Windows

-----------------------------------------------------------------------------
(* A call is made.                                                         *)
LEMMA CalledInv ==
  ASSUME PoolInv, NEW t \in Threads, NEW f \in FrameType, f.stage = "waits",
         Free(t), Called(t, f),
         UNCHANGED <<platform, mutex, list, entry, gone, freedUnder, poolMutex, idle>>
  PROVE  /\ Held' /\ ObserversLive'
         /\ frames' \in [Threads -> Seq(FrameType)] /\ \A u \in Threads : Stack(frames'[u])
         /\ \A u \in Threads : u # t => frames'[u] = frames[u]
         /\ frames'[t] # <<>> /\ Last(frames'[t]) = f
<1>1. /\ Held'
      /\ frames' \in [Threads -> Seq(FrameType)] /\ \A u \in Threads : Stack(frames'[u])
      /\ \A u \in Threads : u # t => frames'[u] = frames[u]
      /\ frames'[t] # <<>> /\ Last(frames'[t]) = f
      /\ \A u \in Threads : Stood(frames'[u]) = Stood(frames[u])
  BY CalledHeld DEF PoolInv
<1>2. ObserversLive'
  <2>1. StandsOn(t)' \subseteq StandsOn(t)
    BY <1>1 DEF StandsOn, Stood
  <2> QED BY <1>1, <2>1, SameLive DEF PoolInv
<1> QED BY <1>1, <1>2

(* A call that concerns neither an observer nor what is given back. *)
LEMMA PushInv ==
  ASSUME PoolInv, NEW t \in Threads, NEW f \in FrameType, f.stage = "waits",
         f.what \notin {"add", "leave", "give"}, Free(t), Called(t, f),
         UNCHANGED <<platform, mutex, list, entry, gone, freedUnder, poolMutex, idle, users, twice>>,
         busy' \subseteq busy \cup {c \in Connections : users[c] # {}}
  PROVE  PoolInv'
<1>1. /\ Held' /\ ObserversLive'
      /\ frames' \in [Threads -> Seq(FrameType)] /\ \A u \in Threads : Stack(frames'[u])
      /\ \A u \in Threads : u # t => frames'[u] = frames[u]
      /\ frames'[t] # <<>> /\ Last(frames'[t]) = f
  BY CalledInv
<1>2. PoolTyped'
  BY <1>1 DEF PoolInv, PoolTyped, mutex, poolMutex
<1>3. \A u \in Threads, w \in {"add", "leave", "give"} :
        Doing(u, w)' => Doing(u, w) /\ With(u)' = With(u)
  BY <1>1 DEF Doing, With, Top
<1>4. Passing'
  BY <1>3 DEF Passing, PoolInv
<1>5. Places'
  BY <1>3 DEF Places, PoolInv
<1> QED BY <1>1, <1>2, <1>4, <1>5 DEF PoolInv

(* One to the center: an observer that is added does not leave meanwhile.  *)
LEMMA CallsCenterInv ==
  ASSUME PoolInv, NEW t \in Threads, CallsCenter(t),
         UNCHANGED <<poolMutex, idle, connectionVars>>
  PROVE  PoolInv'
<1>0. Free(t)
  BY DEF CallsCenter, Begins
<1>1. ASSUME NEW n \in Names, Called(t, Frame("post", None, n)) PROVE PoolInv'
  <2> DEFINE f == Frame("post", None, n)
  <2>1. f \in FrameType /\ f.stage = "waits" /\ f.what = "post"
    BY DEF Frame, FrameType, CenterCalls
  <2> HIDE DEF f
  <2> QED BY <1>0, <1>1, <2>1, PushInv DEF CallsCenter, connectionVars, f
<1>2. ASSUME NEW o \in Observers \ gone, NEW n \in Names \cup {AnyName},
             Called(t, Frame("remove", o, n))
      PROVE PoolInv'
  <2> DEFINE f == Frame("remove", o, n)
  <2>1. f \in FrameType /\ f.stage = "waits" /\ f.what = "remove"
    BY DEF Frame, FrameType, CenterCalls
  <2> HIDE DEF f
  <2> QED BY <1>0, <1>2, <2>1, PushInv DEF CallsCenter, connectionVars, f
<1>3. ASSUME NEW o \in Observers \ gone, NEW f \in FrameType, f.stage = "waits", f.with = o,
             f.what \in {"add", "leave"}, Called(t, f),
             \/ f.what = "add" /\ ~Leaving(o)
             \/ f.what = "leave" /\ ~Calling(o)
      PROVE PoolInv'
  <2>1. /\ Held' /\ ObserversLive'
        /\ frames' \in [Threads -> Seq(FrameType)] /\ \A u \in Threads : Stack(frames'[u])
        /\ \A u \in Threads : u # t => frames'[u] = frames[u]
        /\ frames'[t] # <<>> /\ Last(frames'[t]) = f
    BY <1>0, <1>3, CalledInv DEF CallsCenter
  <2>2. PoolTyped' /\ gone' = gone
    BY <2>1 DEF PoolInv, PoolTyped, mutex, poolMutex, CallsCenter, connectionVars
  <2>3. \A u \in Threads, w \in {"add", "leave", "give"} :
          Doing(u, w)' =>
            IF u = t THEN w = f.what /\ With(u)' = o ELSE Doing(u, w) /\ With(u)' = With(u)
    BY <1>3, <2>1 DEF Doing, With, Top
  <2>4. \A u \in Threads, w \in {"add", "leave"} :
          Doing(u, w) => Top(u) \in ToSet(frames[u]) /\ Top(u).what = w
    BY TopTyped DEF Doing, PoolInv
  <2>5. CASE f.what = "add"
    <3>1. \A u \in Threads : Doing(u, "leave") => With(u) # o
      BY <1>3, <2>4, <2>5 DEF Leaving, With
    <3> QED BY <1>3, <2>1, <2>2, <2>3, <2>5, <3>1 DEF PoolInv, Passing, Places, CallsCenter, connectionVars
  <2>6. CASE f.what = "leave"
    <3>1. \A u \in Threads : Doing(u, "add") => With(u) # o
      BY <1>3, <2>4, <2>6 DEF Calling, With
    <3> QED BY <1>3, <2>1, <2>2, <2>3, <2>6, <3>1 DEF PoolInv, Passing, Places, CallsCenter, connectionVars
  <2> QED BY <1>3, <2>5, <2>6
<1>4. ASSUME NEW o \in Observers \ gone, NEW n \in Names \cup {AnyName}, ~Leaving(o),
             Called(t, Frame("add", o, n))
      PROVE PoolInv'
  <2> DEFINE f == Frame("add", o, n)
  <2>1. f \in FrameType /\ f.stage = "waits" /\ f.what = "add" /\ f.with = o
    BY DEF Frame, FrameType, CenterCalls
  <2> HIDE DEF f
  <2> QED BY <1>3, <1>4, <2>1 DEF f
<1>5. ASSUME NEW o \in Observers \ gone, ~Calling(o), Called(t, Frame("leave", o, AnyName))
      PROVE PoolInv'
  <2> DEFINE f == Frame("leave", o, AnyName)
  <2>1. f \in FrameType /\ f.stage = "waits" /\ f.what = "leave" /\ f.with = o
    BY DEF Frame, FrameType, CenterCalls
  <2> HIDE DEF f
  <2> QED BY <1>3, <1>5, <2>1 DEF f
<1> QED BY <1>1, <1>2, <1>4, <1>5 DEF CallsCenter

(* One to the pool.                                                        *)
LEMMA RequiresInv == ASSUME PoolInv, NEW t \in Threads, Requires(t) PROVE PoolInv'
<1> DEFINE f == Frame("require", None, AnyName)
<1>1. f \in FrameType /\ f.stage = "waits" /\ f.what = "require"
  BY DEF Frame, FrameType, CenterCalls
<1>2. Free(t) /\ Called(t, f)
  BY DEF Requires, Begins
<1> HIDE DEF f
<1> QED BY <1>1, <1>2, PushInv DEF Requires, connectionVars

(* A post of the connection c, which t holds. *)
LEMMA PostInv ==
  ASSUME PoolInv, NEW t \in Threads, Begins(t), NEW n \in Names, Called(t, Frame("post", None, n)),
         UNCHANGED <<platform, mutex, list, entry, gone, freedUnder, poolMutex, idle, users, twice>>,
         busy' \subseteq busy
  PROVE  PoolInv'
<1> DEFINE f == Frame("post", None, n)
<1>1. f \in FrameType /\ f.stage = "waits" /\ f.what = "post"
  BY DEF Frame, FrameType, CenterCalls
<1>2. Free(t)
  BY DEF Begins
<1> HIDE DEF f
<1> QED BY <1>1, <1>2, PushInv DEF f

(* Nothing is called, or returns.                                          *)
LEMMA QuietInv ==
  ASSUME PoolInv,
         UNCHANGED <<platform, mutex, list, entry, gone, freedUnder, poolMutex, idle, users, twice, frames>>,
         busy' \subseteq busy \cup {c \in Connections : users[c] # {}}
  PROVE  PoolInv'
<1>1. PoolTyped' /\ Held' /\ Passing' /\ ObserversLive'
  BY DEF PoolInv, PoolTyped, Held, Passing, ObserversLive, Doing, With, Top, StandsOn,
         mutex, poolMutex, Mutex!Windows
<1>2. Places'
  BY DEF PoolInv, Places, Doing, With, Top
<1> QED BY <1>1, <1>2 DEF PoolInv

(* A connection is used, which may connect it ...                          *)
LEMMA UsesInv == ASSUME PoolInv, NEW t \in Threads, Uses(t) PROVE PoolInv'
<1>1. PICK c \in Connections :
        /\ Holds(t, c)
        /\ IF c \in open
           THEN busy' = busy \cup {c} /\ UNCHANGED <<frames, work, open>>
           ELSE /\ Begins(t)
                /\ Called(t, Frame("post", None, Connected))
                /\ UNCHANGED busy
        /\ UNCHANGED <<platform, mutex, list, entry, gone, freedUnder, poolMutex, idle, users, twice>>
  BY DEF Uses
<1>2. CASE c \in open
  <2>1. busy' \subseteq busy \cup {d \in Connections : users[d] # {}}
    BY <1>1, <1>2 DEF Holds
  <2> QED BY <1>1, <1>2, <2>1, QuietInv
<1>3. CASE c \notin open
  BY <1>1, <1>3, PostInv, PoolAssumption
<1> QED BY <1>2, <1>3

(* ... or disconnected.                                                    *)
LEMMA DisconnectsInv == ASSUME PoolInv, NEW t \in Threads, Disconnects(t) PROVE PoolInv'
<1>1. busy' \subseteq busy
  BY DEF Disconnects
<1>2. CASE Called(t, Frame("post", None, Disconnected))
  BY <1>1, <1>2, PostInv, PoolAssumption DEF Disconnects
<1>3. CASE UNCHANGED <<open, frames>>
  BY <1>1, <1>3, QuietInv DEF Disconnects
<1> QED BY <1>2, <1>3 DEF Disconnects

(* It is given back, by the one thread that holds it.                      *)
LEMMA GivesBackInv == ASSUME PoolInv, NEW t \in Threads, GivesBack(t) PROVE PoolInv'
<1>1. PICK c \in Connections :
        /\ twice' = (twice \/ ~Holds(t, c))
        /\ users' = [users EXCEPT ![c] = @ \ {t}]
        /\ Called(t, Frame("give", c, AnyName))
  BY DEF GivesBack
<1> DEFINE f == Frame("give", c, AnyName)
<1>2. f \in FrameType /\ f.stage = "waits" /\ f.what = "give" /\ f.with = c
  BY DEF Frame, FrameType, CenterCalls
<1>3. Free(t) /\ Called(t, f)
  BY <1>1 DEF GivesBack, Begins
<1> HIDE DEF f
<1>4. /\ Held' /\ ObserversLive'
      /\ frames' \in [Threads -> Seq(FrameType)] /\ \A u \in Threads : Stack(frames'[u])
      /\ \A u \in Threads : u # t => frames'[u] = frames[u]
      /\ frames'[t] # <<>> /\ Last(frames'[t]) = f
  BY <1>2, <1>3, CalledInv DEF GivesBack
<1>5. PoolTyped'
  BY <1>1, <1>4 DEF PoolInv, PoolTyped, mutex, poolMutex, GivesBack
<1>6. Passing'
  <2>1. \A u \in Threads, w \in {"add", "leave"} :
          Doing(u, w)' => Doing(u, w) /\ With(u)' = With(u)
    BY <1>2, <1>4 DEF Doing, With, Top
  <2> QED BY <2>1 DEF PoolInv, Passing, GivesBack
<1>7. Places'
  <2> SUFFICES ASSUME ~twice' PROVE Places'
    BY DEF Places
  <2>1. ~twice /\ t \in users[c] /\ twice' = FALSE
    BY <1>1 DEF Holds, PoolInv, PoolTyped
  <2>2. users[c] = {t} /\ users'[c] = {} /\ \A d \in Connections : users'[d] \subseteq users[d]
    BY <1>1, <2>1 DEF PoolInv, Places, PoolTyped
  <2>3. c \notin ToSet(idle) /\ idle' = idle /\ busy' = busy
    BY <2>1 DEF PoolInv, Places, GivesBack
  <2>4. \A u \in Threads : Doing(u, "give") => With(u) # c
    BY <2>1 DEF PoolInv, Places
  <2>5. \A u \in Threads : Doing(u, "give")' =>
          IF u = t THEN With(u)' = c ELSE Doing(u, "give") /\ With(u)' = With(u)
    BY <1>2, <1>4 DEF Doing, With, Top
  <2>6. \A d \in Connections : d \in ToSet(idle') => users'[d] = {} /\ d \notin busy'
    BY <2>1, <2>2, <2>3 DEF PoolInv, Places
  <2>7. \A u \in Threads : Doing(u, "give") => With(u) \in Connections
    BY TopTyped DEF Doing, With, FrameType, PoolInv
  <2>8. \A u \in Threads : Doing(u, "give")' =>
          /\ users'[With(u)'] = {} /\ With(u)' \notin ToSet(idle')
          /\ \A v \in Threads : Doing(v, "give")' /\ With(v)' = With(u)' => v = u
    <3> SUFFICES ASSUME NEW u \in Threads, Doing(u, "give")'
                 PROVE  /\ users'[With(u)'] = {} /\ With(u)' \notin ToSet(idle')
                        /\ \A v \in Threads : Doing(v, "give")' /\ With(v)' = With(u)' => v = u
      OBVIOUS
    <3>1. CASE u = t
      BY <2>2, <2>3, <2>4, <2>5, <3>1
    <3>2. CASE u # t
      <4>1. Doing(u, "give") /\ With(u)' = With(u) /\ With(u) # c /\ With(u) \in Connections
        BY <2>4, <2>5, <2>7, <3>2
      <4>2. users[With(u)] = {} /\ With(u) \notin ToSet(idle)
        BY <2>1, <4>1 DEF PoolInv, Places
      <4>3. \A v \in Threads : Doing(v, "give") /\ With(v) = With(u) => v = u
        BY <2>1, <4>1 DEF PoolInv, Places
      <4> QED BY <2>2, <2>3, <2>5, <4>1, <4>2, <4>3
    <3> QED BY <3>1, <3>2
  <2> QED BY <2>1, <2>2, <2>3, <2>6, <2>8 DEF PoolInv, Places
<1> QED BY <1>4, <1>5, <1>6, <1>7 DEF PoolInv

-----------------------------------------------------------------------------
(* The mutex of the center is taken: a post begins with the list.          *)
LEMMA LocksInv ==
  ASSUME PoolInv, NEW t \in Threads, Locks(t), UNCHANGED <<poolMutex, idle, connectionVars>>
  PROVE  PoolInv'
<1> DEFINE a == IF Top(t).what = "post" THEN NextFrom(0, Top(t).name) ELSE None
<1>1. frames[t] # <<>> /\ Top(t).what \in CenterCalls /\ Top(t).stage = "waits" /\ GoesOn(t, "inside", a)
  BY DEF Locks, In
<1>2. Top(t) \in FrameType
  BY <1>1, TopTyped DEF PoolInv
<1>3. a \in Entries \cup {None} /\ a \in ToSet(list) \cup {None} /\ (a # None => Top(t).what = "post")
  <2>1. NextFrom(0, Top(t).name) \in ToSet(list) \cup {None}
    BY NextFromListed DEF PoolInv, PoolTyped
  <2>2. ToSet(list) \subseteq Entries
    BY DEF PoolInv, PoolTyped, ToSet
  <2> QED BY <2>1, <2>2
<1> HIDE DEF a
<1>4. [Top(t) EXCEPT !.stage = "inside", !.at = a] \in FrameType
  BY <1>1, <1>2, <1>3 DEF FrameType, CenterCalls
<1>5. /\ frames' \in [Threads -> Seq(FrameType)] /\ \A u \in Threads : Stack(frames'[u])
      /\ \A u \in Threads : u # t => frames'[u] = frames[u]
      /\ frames'[t] # <<>>
      /\ Last(frames'[t]).what = Top(t).what /\ Last(frames'[t]).with = Top(t).with
      /\ Stood(frames'[t]) \subseteq Stood(frames[t]) \cup ({a} \ {None})
  BY <1>1, <1>4, GoesOnFrames DEF PoolInv
<1>6. Held' /\ owner' \in Threads \cup {None} /\ depth' \in Nat
  BY <1>1, <1>3, LockHeld DEF PoolInv, Locks
<1>7. PoolTyped'
  BY <1>5, <1>6 DEF PoolInv, PoolTyped, Locks, poolMutex, connectionVars
<1>8. SameCalls(t)
  BY <1>1, <1>5 DEF SameCalls
<1>9. Passing' /\ Places'
  BY <1>8, SamePassing, SamePlaces DEF PoolInv, Locks, connectionVars
<1>10. ObserversLive'
  <2>1. StandsOn(t)' \subseteq StandsOn(t) \cup ToSet(list)
    BY <1>3, <1>5 DEF StandsOn, Stood
  <2> QED BY <1>5, <2>1, SameLive DEF PoolInv, Locks
<1> QED BY <1>6, <1>7, <1>9, <1>10 DEF PoolInv

(* A post moves along the list.                                            *)
LEMMA PostStepInv ==
  ASSUME PoolInv, NEW t \in Threads, In(t, {"post"}, "inside") \/ In(t, {"post"}, "told"),
         NEW st \in {"inside", "told"}, NEW a \in ToSet(list) \cup {None, Top(t).at},
         GoesOn(t, st, a),
         UNCHANGED <<platform, mutex, list, entry, gone, freedUnder, poolMutex, idle, connectionVars>>
  PROVE  PoolInv'
<1>0. frames[t] # <<>>
  BY DEF In
<1>1. Top(t) \in FrameType /\ Top(t) \in ToSet(frames[t])
  BY <1>0, TopTyped DEF PoolInv
<1>2. a \in Entries \cup {None}
  BY <1>1 DEF PoolInv, PoolTyped, ToSet, FrameType
<1>3. /\ Held'
      /\ frames' \in [Threads -> Seq(FrameType)] /\ \A u \in Threads : Stack(frames'[u])
      /\ \A u \in Threads : u # t => frames'[u] = frames[u]
      /\ frames'[t] # <<>> /\ Last(frames'[t]).what = "post"
      /\ Stood(frames'[t]) \subseteq Stood(frames[t]) \cup ({a} \ {None})
  BY <1>2, PostGoesOn DEF PoolInv
<1>4. PoolTyped'
  BY <1>3 DEF PoolInv, PoolTyped, mutex, poolMutex, connectionVars
<1>5. SameCalls(t)
  BY <1>3 DEF SameCalls
<1>6. Passing' /\ Places'
  BY <1>5, SamePassing, SamePlaces DEF PoolInv, connectionVars
<1>7. ObserversLive'
  <2>1. StandsOn(t)' \subseteq StandsOn(t) \cup ToSet(list)
    BY <1>1, <1>3 DEF StandsOn, Stood
  <2> QED BY <1>3, <2>1, SameLive DEF PoolInv
<1> QED BY <1>3, <1>4, <1>6, <1>7 DEF PoolInv

(* It tells observers, who return.                                         *)
LEMMA TellsInv ==
  ASSUME PoolInv, NEW t \in Threads, Tells(t) \/ ObserverReturns(t),
         UNCHANGED <<poolMutex, idle, connectionVars>>
  PROVE  PoolInv'
<1>1. CASE Tells(t)
  BY <1>1, PostStepInv DEF Tells
<1>2. CASE ObserverReturns(t)
  <2> DEFINE a == NextFrom(Position(Top(t).at), Top(t).name)
  <2>1. a \in ToSet(list) \cup {None}
    BY NextFromListed DEF PoolInv, PoolTyped
  <2>2. GoesOn(t, "inside", a)
    BY <1>2 DEF ObserverReturns
  <2> HIDE DEF a
  <2> QED BY <1>2, <2>1, <2>2, PostStepInv DEF ObserverReturns
<1> QED BY <1>1, <1>2

(* It ends.                                                                *)
LEMMA PostEndsInv ==
  ASSUME PoolInv, NEW t \in Threads, PostEnds(t), UNCHANGED <<poolMutex, idle, connectionVars>>
  PROVE  PoolInv'
<1>1. /\ frames' \in [Threads -> Seq(FrameType)] /\ \A u \in Threads : Stack(frames'[u])
      /\ \A u \in Threads : u # t => frames'[u] = frames[u]
      /\ Stood(frames'[t]) \subseteq Stood(frames[t])
      /\ frames'[t] # <<>> => Last(frames'[t]).stage = "told" /\ Last(frames'[t]).what = "post"
  BY ReturnedFrames DEF PostEnds, In, PoolInv
<1>2. In(t, CenterCalls, "inside")
  BY DEF PostEnds, In, CenterCalls
<1>3. Held' /\ owner' \in Threads \cup {None} /\ depth' \in Nat
  BY <1>2, UnlockHeld DEF PostEnds, PoolInv
<1>4. PoolTyped'
  BY <1>1, <1>3 DEF PoolInv, PoolTyped, PostEnds, poolMutex, connectionVars
<1>5. SameCalls(t)
  BY <1>1 DEF SameCalls
<1>6. Passing' /\ Places'
  BY <1>5, SamePassing, SamePlaces DEF PoolInv, PostEnds, connectionVars
<1>7. ObserversLive'
  <2>1. StandsOn(t)' \subseteq StandsOn(t) \cup ToSet(list)
    BY <1>1 DEF StandsOn, Stood
  <2> QED BY <1>1, <2>1, SameLive DEF PoolInv, PostEnds
<1> QED BY <1>3, <1>4, <1>6, <1>7 DEF PoolInv

(* A list with one more at its head.                                       *)
LEMMA PutFront ==
  ASSUME NEW S, NEW s \in Seq(S), NEW e \in S
  PROVE  <<e>> \o s \in Seq(S) /\ ToSet(<<e>> \o s) = {e} \cup ToSet(s)
<1> DEFINE r == <<e>> \o s
<1>1. /\ Len(s) \in Nat /\ r \in Seq(S) /\ Len(r) = Len(s) + 1
      /\ DOMAIN r = 1 .. Len(s) + 1 /\ DOMAIN s = 1 .. Len(s)
      /\ r[1] = e /\ \A i \in 1 .. Len(s) : r[i + 1] = s[i]
  OBVIOUS
<1> HIDE DEF r
<1>2. ToSet(r) \subseteq {e} \cup ToSet(s)
  <2> SUFFICES ASSUME NEW j \in 1 .. Len(s) + 1 PROVE r[j] \in {e} \cup ToSet(s)
    BY <1>1 DEF ToSet
  <2>1. CASE j = 1 BY <1>1, <2>1
  <2>2. CASE j # 1
    <3>1. j - 1 \in 1 .. Len(s) /\ (j - 1) + 1 = j
      BY <1>1, <2>2
    <3> QED BY <1>1, <3>1 DEF ToSet
  <2> QED BY <2>1, <2>2
<1>3. {e} \cup ToSet(s) \subseteq ToSet(r)
  <2>1. 1 \in DOMAIN r /\ \A i \in 1 .. Len(s) : i + 1 \in DOMAIN r
    BY <1>1
  <2> QED BY <1>1, <2>1 DEF ToSet
<1> QED BY <1>1, <1>2, <1>3 DEF r

(* An observer is added: it is not gone, and nobody stands on its entry.   *)
LEMMA AddsInv ==
  ASSUME PoolInv, NEW t \in Threads, Adds(t), UNCHANGED <<poolMutex, idle, connectionVars>>
  PROVE  PoolInv'
<1>0. Doing(t, "add") /\ frames[t] # <<>> /\ In(t, CenterCalls, "inside")
  BY DEF Adds, In, Doing, CenterCalls
<1>1. /\ frames' \in [Threads -> Seq(FrameType)] /\ \A u \in Threads : Stack(frames'[u])
      /\ \A u \in Threads : u # t => frames'[u] = frames[u]
      /\ Stood(frames'[t]) \subseteq Stood(frames[t])
      /\ frames'[t] # <<>> => Last(frames'[t]).stage = "told" /\ Last(frames'[t]).what = "post"
  BY <1>0, ReturnedFrames DEF Adds, PoolInv
<1>2. Held' /\ owner' \in Threads \cup {None} /\ depth' \in Nat
  BY <1>0, UnlockHeld DEF Adds, PoolInv
<1>3. PICK e \in Entries \ ToSet(list) :
        /\ list' = <<e>> \o list
        /\ entry' = [entry EXCEPT ![e] = [observer |-> Top(t).with, name |-> Top(t).name]]
  BY DEF Adds
<1>4. Top(t) \in FrameType /\ Top(t).with \in Observers
  BY <1>0, TopTyped DEF PoolInv, FrameType, Doing
<1>5. list' \in Seq(Entries) /\ ToSet(list') = {e} \cup ToSet(list)
  BY <1>3, PutFront DEF PoolInv, PoolTyped
<1>6. /\ entry' \in [Entries -> [observer : Observers \cup {None}, name : Names \cup {AnyName}]]
      /\ entry'[e].observer = Top(t).with
      /\ \A d \in Entries : d # e => entry'[d] = entry[d]
  BY <1>3, <1>4 DEF PoolInv, PoolTyped, FrameType
<1>7. PoolTyped'
  BY <1>1, <1>2, <1>5, <1>6 DEF PoolInv, PoolTyped, Adds, poolMutex, connectionVars
<1>8. SameCalls(t)
  BY <1>1 DEF SameCalls
<1>9. Passing' /\ Places'
  BY <1>8, SamePassing, SamePlaces DEF PoolInv, Adds, connectionVars
<1>10. ObserversLive'
  <2>1. Top(t).with \notin gone
    BY <1>0 DEF PoolInv, Passing, With
  <2>2. \A d \in ToSet(list) : d # e /\ d \in Entries
    BY <1>3 DEF PoolInv, PoolTyped, ToSet
  <2>3. freedUnder = {} => \A d \in ToSet(list') : entry'[d].observer \notin gone
    BY <1>5, <1>6, <2>1, <2>2 DEF PoolInv, ObserversLive
  <2>4. \A u \in Threads : StandsOn(u)' \subseteq StandsOn(u)
    BY <1>1 DEF StandsOn, Stood
  <2>5. freedUnder = {} => \A u \in Threads : StandsOn(u)' \subseteq ToSet(list')
    BY <1>5, <2>4 DEF PoolInv, ObserversLive
  <2> QED BY <2>3, <2>5 DEF PoolInv, ObserversLive, Mutex!Windows, Adds
<1> QED BY <1>2, <1>7, <1>9, <1>10 DEF PoolInv

(* A thread that stands on an entry holds the mutex. *)
LEMMA StandsInside ==
  ASSUME PoolTyped, Held, NEW u \in Threads, StandsOn(u) # {}
  PROVE  owner = u
<1>1. PICK f \in ToSet(frames[u]) : f.at # None
  BY DEF StandsOn
<1> DEFINE s == frames[u]
<1>2. s \in Seq(FrameType) /\ Len(s) \in Nat
  BY DEF PoolTyped
<1>3. PICK i \in 1 .. Len(s) : s[i] = f
  BY <1>1, <1>2 DEF ToSet
<1>4. s # <<>> /\ Last(s) = s[Len(s)]
  BY <1>2, <1>3 DEF Last
<1>5. HoldsCenter(s[i])
  BY <1>1, <1>2, <1>3 DEF HoldsCenter, FrameType, CenterCalls
<1>6. Within(s) # 0
  <2>1. CASE i = Len(s)
    BY <1>2, <1>3, <1>4, <1>5, <2>1 DEF Within
  <2>2. CASE i < Len(s)
    BY <1>2, <1>3, <1>4, <2>2 DEF Within
  <2> QED BY <1>2, <1>3, <2>1, <2>2
<1> QED BY <1>6 DEF Held

(* And one that removes observers, from inside of a post, holds it twice.  *)
LEMMA RemovesInside ==
  ASSUME PoolTyped, Held, NEW t \in Threads, In(t, {"remove", "leave"}, "inside"), StandsOn(t) # {}
  PROVE  Mutex!Windows
<1>1. PICK f \in ToSet(frames[t]) : f.at # None
  BY DEF StandsOn
<1> DEFINE s == frames[t]
<1>2. s \in Seq(FrameType) /\ Len(s) \in Nat
  BY DEF PoolTyped
<1>3. PICK i \in 1 .. Len(s) : s[i] = f
  BY <1>1, <1>2 DEF ToSet
<1>4. /\ s # <<>> /\ Last(s) = s[Len(s)] /\ Top(t) = Last(s)
      /\ Top(t).what \in {"remove", "leave"} /\ Top(t).stage = "inside"
  BY <1>2, <1>3 DEF Last, In, Top
<1>5. s[i].what = "post"
  BY <1>1, <1>2, <1>3 DEF FrameType
<1>6. i # Len(s)
  BY <1>4, <1>5
<1>7. Within(s) = Len(s) /\ Len(s) > 1
  BY <1>2, <1>3, <1>4, <1>6 DEF Within, HoldsCenter, CenterCalls
<1>8. owner = t /\ depth = Len(s)
  BY <1>7 DEF Held
<1> QED BY <1>2, <1>7, <1>8 DEF Held

(* Observers are removed, by the thread that holds the mutex: so it is its *)
(* own post that stands on what it frees.                                  *)
LEMMA RemovesInv ==
  ASSUME PoolInv, NEW t \in Threads, Removes(t), UNCHANGED <<poolMutex, idle, connectionVars>>
  PROVE  PoolInv'
<1> DEFINE o == Top(t).with
           removed == {e \in ToSet(list) : Watching(e, o, Top(t).name)}
<1>0. /\ frames[t] # <<>> /\ In(t, CenterCalls, "inside") /\ In(t, {"remove", "leave"}, "inside")
      /\ Returned(t) /\ Mutex!Unlock(t)
  BY DEF Removes, In, CenterCalls
<1>1. /\ list' = WithoutAll(list, removed)
      /\ freedUnder' = freedUnder \cup
           {<<u, t>> : u \in {u \in Threads : StandsOn(u) \cap removed # {}}}
      /\ gone' = IF Top(t).what = "leave" THEN gone \cup {o} ELSE gone
      /\ UNCHANGED <<platform, entry>>
  BY DEF Removes
<1>2. /\ frames' \in [Threads -> Seq(FrameType)] /\ \A u \in Threads : Stack(frames'[u])
      /\ \A u \in Threads : u # t => frames'[u] = frames[u]
      /\ Stood(frames'[t]) \subseteq Stood(frames[t])
      /\ frames'[t] # <<>> => Last(frames'[t]).stage = "told" /\ Last(frames'[t]).what = "post"
  BY <1>0, ReturnedFrames DEF PoolInv
<1>3. Held' /\ owner' \in Threads \cup {None} /\ depth' \in Nat /\ owner = t
  BY <1>0, <1>1, UnlockHeld DEF PoolInv
<1>4. Top(t) \in FrameType /\ o \in Observers /\ (Top(t).what = "leave" => Top(t).name = AnyName)
  BY <1>0, TopTyped DEF PoolInv, FrameType, In
<1>5. list' \in Seq(Entries) /\ ToSet(list') = ToSet(list) \ removed
  <2> HIDE DEF removed
  <2> QED BY <1>1, WithoutAllElements DEF PoolInv, PoolTyped
<1>6. PoolTyped'
  <2>1. gone' \in SUBSET Observers
    BY <1>1, <1>4 DEF PoolInv, PoolTyped
  <2>2. freedUnder' \in SUBSET (Threads \X Threads)
    BY <1>1 DEF PoolInv, PoolTyped
  <2>3. idle' \in Seq(Connections) /\ users' \in [Connections -> SUBSET Threads] /\ twice' \in BOOLEAN
    BY DEF PoolInv, PoolTyped, connectionVars
  <2>4. poolOwner' \in Threads \cup {None} /\ platform' \in {"posix", "vista"}
    BY <1>1 DEF PoolInv, PoolTyped, poolMutex
  <2>5. entry' \in [Entries -> [observer : Observers \cup {None}, name : Names \cup {AnyName}]]
    BY <1>1 DEF PoolInv, PoolTyped
  <2> QED BY <1>2, <1>3, <1>5, <2>1, <2>2, <2>3, <2>4, <2>5 DEF PoolTyped
<1>7. SameCalls(t)
  BY <1>2 DEF SameCalls
<1>8. Places'
  BY <1>7, SamePlaces DEF PoolInv, connectionVars
<1>9. Passing'
  <2> SUFFICES ASSUME NEW u \in Threads, Doing(u, "add")'
               PROVE  /\ (With(u) \notin gone)'
                      /\ \A v \in Threads : Doing(v, "leave")' => With(v)' # With(u)'
    BY DEF Passing
  <2>1. Doing(u, "add") /\ With(u)' = With(u)
    BY <1>7, SameDoing
  <2>2. \A v \in Threads : Doing(v, "leave")' => Doing(v, "leave") /\ With(v)' = With(v)
    BY <1>7, SameDoing
  <2>3. Top(t).what = "leave" => Doing(t, "leave") /\ With(t) = o
    BY <1>0 DEF Doing, With
  <2>4. With(u) \notin gone'
    BY <1>1, <2>1, <2>3 DEF PoolInv, Passing
  <2> QED BY <2>1, <2>2, <2>4 DEF PoolInv, Passing
<1>10. ObserversLive'
  <2>1. \A p \in freedUnder' : p[1] = p[2] /\ Mutex!Windows
    <3> SUFFICES ASSUME NEW u \in Threads, StandsOn(u) \cap removed # {} PROVE u = t /\ Mutex!Windows
      BY <1>1 DEF PoolInv, ObserversLive
    <3>1. StandsOn(u) # {}
      OBVIOUS
    <3>2. u = t
      BY <1>3, <3>1, StandsInside DEF PoolInv
    <3> QED BY <1>0, <3>1, <3>2, RemovesInside DEF PoolInv
  <2>2. ASSUME freedUnder' = {}
        PROVE  /\ \A e \in ToSet(list') : entry'[e].observer \notin gone'
               /\ \A u \in Threads : StandsOn(u)' \subseteq ToSet(list')
    <3>1. freedUnder = {} /\ \A u \in Threads : StandsOn(u) \cap removed = {}
      BY <1>1, <2>2
    <3>2. \A u \in Threads : StandsOn(u)' \subseteq StandsOn(u)
      BY <1>2 DEF StandsOn, Stood
    <3>3. \A u \in Threads : StandsOn(u)' \subseteq ToSet(list')
      BY <1>5, <3>1, <3>2 DEF PoolInv, ObserversLive
    <3>4. ASSUME NEW e \in ToSet(list') PROVE entry'[e].observer \notin gone'
      <4>1. e \in ToSet(list) /\ e \notin removed /\ entry[e].observer \notin gone
        BY <1>5, <3>1 DEF PoolInv, ObserversLive
      <4>2. Top(t).what = "leave" => entry[e].observer # o
        BY <1>4, <4>1 DEF Watching
      <4> QED BY <1>1, <4>1, <4>2
    <3> QED BY <3>3, <3>4
  <2> QED BY <1>1, <2>1, <2>2 DEF ObserversLive, Mutex!Windows
<1> QED BY <1>3, <1>6, <1>8, <1>9, <1>10 DEF PoolInv

-----------------------------------------------------------------------------
(* The mutex of the pool is taken.                                         *)
LEMMA LocksPoolInv == ASSUME PoolInv, NEW t \in Threads, LocksPool(t) PROVE PoolInv'
<1>1. frames[t] # <<>> /\ Top(t).what \in {"require", "give"} /\ Top(t).stage = "waits"
  BY DEF LocksPool, In
<1>2. Top(t) \in FrameType
  BY <1>1, TopTyped DEF PoolInv
<1>3. [Top(t) EXCEPT !.stage = "inside", !.at = None] \in FrameType
  BY <1>1, <1>2 DEF FrameType, CenterCalls
<1>4. /\ frames' \in [Threads -> Seq(FrameType)] /\ \A u \in Threads : Stack(frames'[u])
      /\ \A u \in Threads : u # t => frames'[u] = frames[u]
      /\ frames'[t] # <<>>
      /\ Last(frames'[t]).what = Top(t).what /\ Last(frames'[t]).with = Top(t).with
      /\ Stood(frames'[t]) \subseteq Stood(frames[t]) \cup ({None} \ {None})
  BY <1>1, <1>3, GoesOnFrames DEF PoolInv, LocksPool
<1>5. Held' /\ poolOwner' \in Threads
  BY LockPoolHeld DEF PoolInv, LocksPool
<1>6. PoolTyped'
  BY <1>4, <1>5 DEF PoolInv, PoolTyped, LocksPool, mutex, connectionVars
<1>7. SameCalls(t)
  BY <1>1, <1>4 DEF SameCalls
<1>8. Passing' /\ Places'
  BY <1>7, SamePassing, SamePlaces DEF PoolInv, LocksPool, connectionVars
<1>9. ObserversLive'
  <2>1. StandsOn(t)' \subseteq StandsOn(t)
    BY <1>4 DEF StandsOn, Stood
  <2> QED BY <1>4, <2>1, SameLive DEF PoolInv, LocksPool
<1> QED BY <1>5, <1>6, <1>8, <1>9 DEF PoolInv

(* A call of the pool returns: what is left is where connections are.      *)
LEMMA PoolReturns ==
  ASSUME PoolInv, NEW t \in Threads, In(t, {"require", "give"}, "inside"), Lock!Unlock(t), Returned(t),
         UNCHANGED <<platform, mutex, list, entry, gone, freedUnder>>
  PROVE  /\ Held' /\ Passing' /\ ObserversLive' /\ SameCalls(t)
         /\ frames' \in [Threads -> Seq(FrameType)] /\ \A u \in Threads : Stack(frames'[u])
         /\ poolOwner' = None /\ ~Doing(t, "give")'
<1>1. frames[t] # <<>>
  BY DEF In
<1>2. /\ frames' \in [Threads -> Seq(FrameType)] /\ \A u \in Threads : Stack(frames'[u])
      /\ \A u \in Threads : u # t => frames'[u] = frames[u]
      /\ Stood(frames'[t]) \subseteq Stood(frames[t])
      /\ frames'[t] # <<>> => Last(frames'[t]).stage = "told" /\ Last(frames'[t]).what = "post"
  BY <1>1, ReturnedFrames DEF PoolInv
<1>3. Held' /\ poolOwner' = None
  BY UnlockPoolHeld DEF PoolInv
<1>4. SameCalls(t)
  BY <1>2 DEF SameCalls
<1>5. Passing'
  BY <1>4, SamePassing DEF PoolInv
<1>6. ObserversLive'
  <2>1. StandsOn(t)' \subseteq StandsOn(t)
    BY <1>2 DEF StandsOn, Stood
  <2> QED BY <1>2, <2>1, SameLive DEF PoolInv
<1>7. ~Doing(t, "give")'
  BY <1>2 DEF Doing, Top
<1> QED BY <1>2, <1>3, <1>4, <1>5, <1>6, <1>7

(* Front takes the one last element out.                                   *)
LEMMA FrontInjective ==
  ASSUME NEW S, NEW s \in Seq(S), s # <<>>, IsInjective(s)
  PROVE  IsInjective(Front(s)) /\ ToSet(Front(s)) = ToSet(s) \ {Last(s)}
<1> DEFINE r == Front(s)
<1>1. /\ r \in Seq(S) /\ Len(r) = Len(s) - 1 /\ Len(s) \in Nat \ {0}
      /\ \A i \in 1 .. Len(s) - 1 : r[i] = s[i]
      /\ Last(s) = s[Len(s)] /\ ToSet(s) = ToSet(r) \cup {Last(s)}
  BY FrontElements
<1> HIDE DEF r
<1>2. DOMAIN r = 1 .. Len(s) - 1 /\ DOMAIN s = 1 .. Len(s)
  BY <1>1
<1>3. \A i \in 1 .. Len(s) - 1 : i \in DOMAIN s /\ i # Len(s) /\ Len(s) \in DOMAIN s
  BY <1>1, <1>2
<1>4. IsInjective(r)
  BY <1>1, <1>2, <1>3 DEF IsInjective
<1>5. Last(s) \notin ToSet(r)
  BY <1>1, <1>2, <1>3 DEF IsInjective, ToSet
<1> QED BY <1>1, <1>4, <1>5 DEF r

(* A connection that was idle, or is new, is with nobody else.             *)
LEMMA TakesIdleInv == ASSUME PoolInv, NEW t \in Threads, TakesIdle(t) PROVE PoolInv'
<1>1. /\ Held' /\ Passing' /\ ObserversLive' /\ SameCalls(t)
      /\ frames' \in [Threads -> Seq(FrameType)] /\ \A u \in Threads : Stack(frames'[u])
      /\ poolOwner' = None
  <2>1. In(t, {"require", "give"}, "inside")
    BY DEF TakesIdle, In
  <2> QED BY <2>1, PoolReturns DEF TakesIdle
<1>2. PICK c \in Connections :
        /\ users'[c] = users[c] \cup {t} /\ users' \in [Connections -> SUBSET Threads]
        /\ \A d \in Connections : d # c => users'[d] = users[d]
        /\ \/ idle # <<>> /\ c = Last(idle) /\ idle' = Front(idle)
           \/ c \notin Made /\ users[c] = {} /\ idle' = idle
  <2>1. CASE idle # <<>>
    <3>1. Last(idle) \in Connections
      BY <2>1, FrontElements DEF PoolInv, PoolTyped
    <3>2. users' = [users EXCEPT ![Last(idle)] = @ \cup {t}] /\ idle' = Front(idle)
      BY <2>1 DEF TakesIdle
    <3> QED BY <2>1, <3>1, <3>2 DEF PoolInv, PoolTyped
  <2>2. CASE idle = <<>>
    <3>1. PICK c \in Connections : c \notin Made /\ users' = [users EXCEPT ![c] = {t}] /\ idle' = idle
      BY <2>2 DEF TakesIdle
    <3>2. users[c] = {}
      BY <3>1 DEF Made
    <3> QED BY <3>1, <3>2 DEF PoolInv, PoolTyped
  <2> QED BY <2>1, <2>2
<1>3. idle' \in Seq(Connections)
  BY <1>2, FrontElements DEF PoolInv, PoolTyped
<1>4. PoolTyped'
  BY <1>1, <1>2, <1>3 DEF PoolInv, PoolTyped, TakesIdle, mutex
<1>5. Places'
  <2> SUFFICES ASSUME ~twice PROVE Places'
    BY DEF Places, TakesIdle
  <2>1. twice' = twice /\ busy' = busy
    BY DEF TakesIdle
  <2>2. /\ IsInjective(idle') /\ ToSet(idle') = ToSet(idle) \ {c} /\ users[c] = {}
        /\ \A u \in Threads : Doing(u, "give") => With(u) # c
    <3>1. CASE idle # <<>> /\ c = Last(idle) /\ idle' = Front(idle)
      <4>1. c \in ToSet(idle) /\ idle \in Seq(Connections) /\ IsInjective(idle)
        BY <3>1, FrontElements DEF PoolInv, PoolTyped, Places
      <4>2. IsInjective(idle') /\ ToSet(idle') = ToSet(idle) \ {c}
        BY <3>1, <4>1, FrontInjective
      <4> QED BY <4>1, <4>2 DEF PoolInv, Places
    <3>2. CASE c \notin Made /\ users[c] = {} /\ idle' = idle
      <4>1. c \notin ToSet(idle) /\ \A u \in Threads : ~Under(u, "give", c)
        BY <3>2 DEF Made
      <4>2. \A u \in Threads : Doing(u, "give") => Top(u) \in ToSet(frames[u]) /\ Top(u).what = "give"
        BY TopTyped DEF Doing, PoolInv
      <4> QED BY <3>2, <4>1, <4>2 DEF PoolInv, Places, Under, With
    <3> QED BY <1>2, <3>1, <3>2
  <2>3. \A v \in Threads : Doing(v, "give")' => Doing(v, "give") /\ With(v)' = With(v)
    BY <1>1, SameDoing
  <2>4. \A d \in Connections : \A x, y \in users'[d] : x = y
    BY <1>2, <2>2 DEF PoolInv, Places
  <2>5. \A d \in Connections : d \in ToSet(idle') => users'[d] = {} /\ d \notin busy'
    BY <1>2, <2>1, <2>2 DEF PoolInv, Places
  <2>6. \A v \in Threads : Doing(v, "give") => With(v) \in Connections
    BY TopTyped DEF Doing, With, FrameType, PoolInv
  <2>7. \A v \in Threads : Doing(v, "give")' =>
          /\ users'[With(v)'] = {} /\ With(v)' \notin ToSet(idle')
          /\ \A u \in Threads : Doing(u, "give")' /\ With(u)' = With(v)' => u = v
    BY <1>2, <2>2, <2>3, <2>6 DEF PoolInv, Places
  <2> QED BY <2>2, <2>4, <2>5, <2>7 DEF Places
<1> QED BY <1>1, <1>4, <1>5 DEF PoolInv

(* The connection that is put back was with nobody any more.               *)
LEMMA PutsBackInv == ASSUME PoolInv, NEW t \in Threads, PutsBack(t) PROVE PoolInv'
<1> DEFINE c == Top(t).with
<1>1. /\ Held' /\ Passing' /\ ObserversLive' /\ SameCalls(t)
      /\ frames' \in [Threads -> Seq(FrameType)] /\ \A u \in Threads : Stack(frames'[u])
      /\ poolOwner' = None /\ ~Doing(t, "give")'
  <2>1. In(t, {"require", "give"}, "inside")
    BY DEF PutsBack, In
  <2> QED BY <2>1, PoolReturns DEF PutsBack
<1>2. Doing(t, "give") /\ With(t) = c /\ c \in Connections
  <2>1. frames[t] # <<>> /\ Top(t).what = "give"
    BY DEF PutsBack, In
  <2> QED BY <2>1, TopTyped DEF PoolInv, Doing, With, FrameType
<1>3. idle' = Append(idle, c) /\ busy' = busy \ {c} /\ UNCHANGED <<users, twice>>
  BY DEF PutsBack
<1>4. idle' \in Seq(Connections) /\ ToSet(idle') = ToSet(idle) \cup {c}
  BY <1>2, <1>3, AppendToSet DEF PoolInv, PoolTyped
<1>5. PoolTyped'
  BY <1>1, <1>3, <1>4 DEF PoolInv, PoolTyped, PutsBack, mutex
<1>6. Places'
  <2> SUFFICES ASSUME ~twice PROVE Places'
    BY <1>3 DEF Places
  <2>1. /\ users[c] = {} /\ c \notin ToSet(idle) /\ IsInjective(idle)
        /\ \A u \in Threads : Doing(u, "give") /\ With(u) = c => u = t
    BY <1>2 DEF PoolInv, Places
  <2>2. IsInjective(idle')
    BY <1>2, <1>3, <2>1, AppendElements DEF PoolInv, PoolTyped
  <2>3. \A v \in Threads : Doing(v, "give")' => Doing(v, "give") /\ With(v)' = With(v) /\ v # t
    BY <1>1, SameDoing
  <2>4. \A v \in Threads : Doing(v, "give")' =>
          /\ users'[With(v)'] = {} /\ With(v)' \notin ToSet(idle')
          /\ \A u \in Threads : Doing(u, "give")' /\ With(u)' = With(v)' => u = v
    BY <1>3, <1>4, <2>1, <2>3 DEF PoolInv, Places
  <2>5. \A d \in Connections : d \in ToSet(idle') => users'[d] = {} /\ d \notin busy'
    BY <1>3, <1>4, <2>1 DEF PoolInv, Places
  <2> QED BY <1>3, <2>2, <2>4, <2>5 DEF PoolInv, Places
<1> QED BY <1>1, <1>5, <1>6 DEF PoolInv

-----------------------------------------------------------------------------
(* Every step keeps the invariant.                                         *)
LEMMA PoolStepInv == PoolInv /\ [PoolNext]_poolVars => PoolInv'
<1> SUFFICES ASSUME PoolInv, [PoolNext]_poolVars PROVE PoolInv'
  OBVIOUS
<1>1. ASSUME NEW t \in Threads, CenterStep(t), UNCHANGED <<poolMutex, idle, connectionVars>>
      PROVE PoolInv'
  <2>1. CASE CallsCenter(t) BY <1>1, <2>1, CallsCenterInv
  <2>2. CASE Locks(t) BY <1>1, <2>2, LocksInv
  <2>3. CASE Adds(t) BY <1>1, <2>3, AddsInv
  <2>4. CASE Removes(t) BY <1>1, <2>4, RemovesInv
  <2>5. CASE Tells(t) \/ ObserverReturns(t) BY <1>1, <2>5, TellsInv
  <2>6. CASE PostEnds(t) BY <1>1, <2>6, PostEndsInv
  <2> QED BY <1>1, <2>1, <2>2, <2>3, <2>4, <2>5, <2>6 DEF CenterStep
<1>2. ASSUME NEW t \in Threads, Requires(t) PROVE PoolInv' BY <1>2, RequiresInv
<1>3. ASSUME NEW t \in Threads, GivesBack(t) PROVE PoolInv' BY <1>3, GivesBackInv
<1>4. ASSUME NEW t \in Threads, LocksPool(t) PROVE PoolInv' BY <1>4, LocksPoolInv
<1>5. ASSUME NEW t \in Threads, TakesIdle(t) PROVE PoolInv' BY <1>5, TakesIdleInv
<1>6. ASSUME NEW t \in Threads, PutsBack(t) PROVE PoolInv' BY <1>6, PutsBackInv
<1>7. ASSUME NEW t \in Threads, Uses(t) PROVE PoolInv' BY <1>7, UsesInv
<1>8. ASSUME NEW t \in Threads, Disconnects(t) PROVE PoolInv' BY <1>8, DisconnectsInv
<1>9. CASE UNCHANGED poolVars
  BY <1>9, QuietInv DEF poolVars, centerVars, connectionVars
<1> QED
  BY <1>1, <1>2, <1>3, <1>4, <1>5, <1>6, <1>7, <1>8, <1>9 DEF PoolNext, PoolStep

(* It holds before the first call.                                         *)
LEMMA InitPoolInv == PoolInit => PoolInv
<1> SUFFICES ASSUME PoolInit PROVE PoolInv
  OBVIOUS
<1>1. /\ platform \in {"posix", "vista"} /\ owner = None /\ depth = 0
      /\ poolOwner = None /\ poolDepth = 0
  BY DEF PoolInit, CenterInit, Mutex!InitStd, Lock!InitStd
<1>2. /\ list = <<>> /\ entry = [e \in Entries |-> [observer |-> None, name |-> AnyName]]
      /\ frames = [t \in Threads |-> <<>>] /\ gone = {} /\ freedUnder = {}
      /\ idle = <<>> /\ users = [c \in Connections |-> {}] /\ twice = FALSE
  BY DEF PoolInit, CenterInit
<1>3. \A t \in Threads : frames[t] = <<>> /\ Stack(frames[t])
  BY <1>2 DEF Stack
<1>4. ToSet(<<>>) = {} /\ IsInjective(<<>>)
  BY DEF ToSet, IsInjective
<1>5. PoolTyped
  <2>1. /\ <<>> \in Seq(Entries) /\ <<>> \in Seq(Connections) /\ <<>> \in Seq(FrameType)
        /\ [observer |-> None, name |-> AnyName]
             \in [observer : Observers \cup {None}, name : Names \cup {AnyName}]
    OBVIOUS
  <2>2. frames \in [Threads -> Seq(FrameType)]
    BY <1>2, <2>1
  <2>3. entry \in [Entries -> [observer : Observers \cup {None}, name : Names \cup {AnyName}]]
    BY <1>2, <2>1
  <2>4. users \in [Connections -> SUBSET Threads] /\ freedUnder \in SUBSET (Threads \X Threads)
    BY <1>2
  <2> QED BY <1>1, <1>2, <1>3, <2>1, <2>2, <2>3, <2>4 DEF PoolTyped
<1>6. Held
  BY <1>1, <1>3, CenterAssumption DEF Held, Within, InPool
<1>7. Passing /\ ObserversLive /\ Places
  BY <1>2, <1>3, <1>4 DEF Passing, ObserversLive, Places, Doing, StandsOn
<1> QED BY <1>5, <1>6, <1>7 DEF PoolInv

(* It always holds.                                                        *)
LEMMA PoolInvHolds == PoolSpec => []PoolInv
<1>1. PoolInit => PoolInv BY InitPoolInv
<1>2. PoolInv /\ [PoolNext]_poolVars => PoolInv' BY PoolStepInv
<1> QED BY <1>1, <1>2, PTL DEF PoolSpec

(* Nobody reads a freed entry or calls an observer that is gone, but for   *)
(* one that its own thread removes while it is told, on Windows: for any   *)
(* threads, observers and entries (removeObserver:name:object: against     *)
(* postNotification:).                                                     *)
THEOREM ObserversOutlive == PoolSpec => []ObserversLive
<1>1. PoolInv => ObserversLive BY DEF PoolInv
<1> QED BY <1>1, PoolInvHolds, PTL

(* A connection is idle, or with one thread, as long as threads give back  *)
(* what they hold: for any threads and connections (requireConnection and  *)
(* releaseConnection:).                                                    *)
THEOREM ConnectionsAlone == PoolSpec => []OneUser
<1>1. PoolInv => OneUser
  <2> SUFFICES ASSUME PoolInv, ~twice, NEW c \in Connections PROVE Cardinality(users[c]) <= 1
    BY DEF PoolInv, OneUser, Places
  <2>1. \A t, u \in users[c] : t = u
    BY DEF PoolInv, Places
  <2>2. CASE users[c] = {}
    BY <2>2, FS_EmptySet
  <2>3. CASE users[c] # {}
    <3>1. PICK t \in users[c] : users[c] = {t}
      BY <2>1, <2>3
    <3> QED BY <3>1, FS_Singleton
  <2> QED BY <2>2, <2>3
<1> QED BY <1>1, PoolInvHolds, PTL

(* Threads wait in a circle only behind one that waits for itself: whoever *)
(* has the mutex of the pool is in no call below, and waits for nothing.   *)
THEOREM NobodyWaitsInCircle == PoolSpec => []NoWaitCycle
<1>1. PoolInv => NoWaitCycle
  <2> SUFFICES ASSUME PoolInv, NEW T \in (SUBSET Threads) \ {{}}, \A t \in T : \E u \in T : WaitsFor(t, u)
               PROVE  \E t \in T : owner = t /\ In(t, CenterCalls, "waits")
    BY DEF NoWaitCycle
  <2>1. \A t, u \in T : WaitsFor(t, u) => u = owner /\ In(t, CenterCalls, "waits")
    <3> SUFFICES ASSUME NEW t \in T, NEW u \in T, WaitsFor(t, u), u = poolOwner PROVE FALSE
      BY DEF WaitsFor
    <3>1. InPool(frames[u])
      BY DEF PoolInv, Held
    <3>2. \A w, stage : In(u, w, stage) => stage = "inside"
      BY <3>1 DEF In, InPool, Top
    <3>3. \E v \in T : WaitsFor(u, v)
      OBVIOUS
    <3> QED BY <3>2, <3>3 DEF WaitsFor
  <2>2. PICK t \in T : TRUE
    OBVIOUS
  <2>3. PICK u \in T : WaitsFor(t, u)
    OBVIOUS
  <2>4. owner = u
    BY <2>1, <2>3
  <2>5. In(u, CenterCalls, "waits")
    BY <2>1
  <2> QED BY <2>4, <2>5
<1> QED BY <1>1, PoolInvHolds, PTL

-----------------------------------------------------------------------------
(* What the database layer does as a whole is, for the connection, what    *)
(* Spec says, and for the pool and the center what PoolSpec says: so the   *)
(* theorems above are theorems about DbSpec.                               *)
THEOREM DatabaseParts == DbSpec => Spec /\ PoolSpec
<1>1. DbInit => Init /\ PoolInit
  BY DEF DbInit
<1>2. [DbNext]_<<vars, poolVars>> => [Next]_vars /\ [PoolNext]_poolVars
  BY DEF DbNext
<1> QED BY <1>1, <1>2, PTL DEF DbSpec, Spec, PoolSpec
=============================================================================
