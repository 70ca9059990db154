---------------------------- MODULE DbConnection ----------------------------
(***************************************************************************)
(* A database connection and its operations (MSDb_src, with the SQLCipher  *)
(* adaptor): statements, result sets and transactions.  The connection     *)
(* keeps its operations in a list that does not retain them; each must     *)
(* leave the list before it is deallocated.  Terminating an operation may  *)
(* deallocate another (a result set retains its statement).                *)
(*                                                                         *)
(* A connection belongs to one thread, so methods do not interleave;       *)
(* terminateAllOperations is a loop that the model runs step by step.  The *)
(* database is external: it may refuse a command, and on some errors it    *)
(* rolls its transaction back by itself.  The user may also call           *)
(* beginTransaction, commit and rollback of the connection (direct).       *)
(***************************************************************************)
EXTENDS Naturals, Sequences, FiniteSets, SequencesExt, Lists

CONSTANTS
  Ops,         \* the operations the program creates; bounds a behaviour
  NULL         \* nil

ASSUME OpsAssumption == NULL \notin Ops /\ IsFiniteSet(Ops) /\ NULL \notin Nat

VARIABLES
  connected,   \* _cFlags.connected
  inTx,        \* _intransaction
  ops,         \* _operations
  kind,        \* kind[o]: the class of o, NULL until it is created
  active,      \* the operations whose _connection is set
  stmt,        \* stmt[o]: _msstmt of a result set
  user,        \* the operations the program, or its autorelease pool, retains
  loop,        \* the index i of terminateAllOperations; NULL outside
  closing,     \* the loop runs for disconnect
  handle,      \* database: the owners of the prepared statements
  dbTx,        \* database: a transaction is open
  txWrites,    \* database: the transactions with writes in the open one
  committed,   \* database: the transactions with writes that are committed
  undefined,   \* a finalized statement has been used: nothing further is defined
  result,      \* history: result[o]: how transaction o ended
  direct,      \* history: the program used the connection's own commands
  rolledBack,  \* history: the database rolled back by itself
  early        \* history: a statement was terminated under its result set

opsVars == <<ops, active, stmt, handle>>
txVars == <<inTx, dbTx, txWrites>>
notes == <<direct, rolledBack, early>>
vars == <<connected, kind, user, loop, closing, committed, undefined, result,
          opsVars, txVars, notes>>

Statement   == "statement"
ResultSet   == "resultset"
Transaction == "transaction"
Kinds == {Statement, ResultSet, Transaction}

ASSUME KindAssumption == NULL \notin Kinds

OfKind(k) == {o \in Ops : kind[o] = k}
Retains(o) == {r \in active : stmt[r] = o}
Alive == {o \in Ops : o \in user \/ Retains(o) # {}}
OwnsHandle(o) == kind[o] = Statement \/ (kind[o] = ResultSet /\ stmt[o] = NULL)

TypeOK ==
  /\ connected \in BOOLEAN /\ inTx \in BOOLEAN /\ dbTx \in BOOLEAN
  /\ ToSet(ops) \subseteq Ops /\ IsInjective(ops)
  /\ kind \in [Ops -> Kinds \cup {NULL}]
  /\ stmt \in [Ops -> Ops \cup {NULL}]
  /\ active \cup user \cup handle \cup txWrites \cup committed \subseteq Ops
  /\ loop \in 0..Cardinality(Ops) \cup {NULL}
  /\ closing \in BOOLEAN /\ undefined \in BOOLEAN
  /\ result \in [Ops -> {NULL, "saved", "failed", "cancelled"}]

Init ==
  /\ connected = FALSE
  /\ inTx = FALSE
  /\ ops = <<>>
  /\ kind = [o \in Ops |-> NULL]
  /\ active = {}
  /\ stmt = [o \in Ops |-> NULL]
  /\ user = {}
  /\ loop = NULL
  /\ closing = FALSE
  /\ handle = {}
  /\ dbTx = FALSE
  /\ txWrites = {}
  /\ committed = {}
  /\ undefined = FALSE
  /\ result = [o \in Ops |-> NULL]
  /\ direct = FALSE /\ rolledBack = FALSE /\ early = FALSE

Calls == ~undefined /\ loop = NULL

-----------------------------------------------------------------------------
(* Creating operations. *)

(* initWithDatabaseConnection: registers the new operation o; db are the   *)
(* statements prepared with it.                                            *)
Register(o, k, s, db) ==
  /\ kind[o] = NULL
  /\ kind' = [kind EXCEPT ![o] = k]
  /\ ops' = Append(ops, o)
  /\ active' = active \cup {o}
  /\ user' = user \cup {o}
  /\ stmt' = [stmt EXCEPT ![o] = s]
  /\ handle' = handle \cup db

(* connect, alone. *)
Connect ==
  /\ Calls /\ ~connected
  /\ connected' = TRUE
  /\ UNCHANGED <<kind, user, loop, closing, committed, undefined, result,
                 opsVars, txVars, notes>>

(* statementWithRequest: connects first. *)
Prepare(o) ==
  /\ Calls
  /\ connected' = TRUE
  /\ Register(o, Statement, NULL, {o})
  /\ UNCHANGED <<loop, closing, committed, undefined, result, txVars, notes>>

(* fetchWithRequest: does not connect, and gives nil without a connection; *)
(* the result set has a statement of its own.                              *)
FetchRequest(o) ==
  /\ Calls /\ connected
  /\ Register(o, ResultSet, NULL, {o})
  /\ UNCHANGED <<connected, loop, closing, committed, undefined, result, txVars, notes>>

(* fetch on a statement; nil when that has been terminated. *)
Fetch(s, o) ==
  /\ Calls
  /\ s \in user /\ kind[s] = Statement /\ s \in active
  /\ Register(o, ResultSet, s, {})
  /\ UNCHANGED <<connected, loop, closing, committed, undefined, result, txVars, notes>>

\* Faulty form: a transaction that is still open is joined.
BeginJoins ==
  /\ inTx' = TRUE
  /\ dbTx' = TRUE
  /\ UNCHANGED txWrites

(* beginTransaction, when it succeeds. *)
Begin ==
  /\ ~inTx /\ ~dbTx
  /\ inTx' = TRUE
  /\ dbTx' = TRUE
  /\ UNCHANGED txWrites

(* openTransaction; nil without a connection, and while the connection     *)
(* thinks it is in a transaction.                                          *)
OpenTransaction(o) ==
  /\ Calls /\ connected
  /\ Begin
  /\ Register(o, Transaction, NULL, {})
  /\ UNCHANGED <<connected, loop, closing, committed, undefined, result, notes>>

-----------------------------------------------------------------------------
(* Transactions. *)

(* COMMIT: done; refused; or refused with the transaction rolled back.     *)
CommitDone ==
  /\ inTx /\ dbTx
  /\ committed' = committed \cup txWrites
  /\ inTx' = FALSE /\ dbTx' = FALSE /\ txWrites' = {}
  /\ UNCHANGED rolledBack
CommitFailed ==
  /\ \/ UNCHANGED <<dbTx, txWrites, rolledBack>>
     \/ inTx /\ dbTx /\ dbTx' = FALSE /\ txWrites' = {} /\ rolledBack' = TRUE
  /\ UNCHANGED <<inTx, committed>>

\* Faulty form: the flag is cleared whatever the database says.
RollbackAlways ==
  /\ inTx' = FALSE
  /\ \/ UNCHANGED <<dbTx, txWrites>>
     \/ inTx /\ dbTx /\ dbTx' = FALSE /\ txWrites' = {}

(* rollback: clears the flag only when the database did roll back.         *)
Rollback ==
  \/ inTx /\ dbTx /\ inTx' = FALSE /\ dbTx' = FALSE /\ txWrites' = {}
  \/ UNCHANGED txVars

(* appendSQLCommand: executes in the open transaction, if there is still   *)
(* one, and else for good.  On a terminated transaction it does nothing: a *)
(* message to its nil connection returns 0, which reads as success.        *)
AppendCommand(t) ==
  /\ Calls
  /\ t \in user \cap active /\ kind[t] = Transaction
  /\ \/ /\ dbTx
        /\ txWrites' = txWrites \cup {t}
        /\ UNCHANGED <<dbTx, committed, rolledBack>>
     \/ /\ ~dbTx
        /\ committed' = committed \cup {t}
        /\ UNCHANGED <<dbTx, txWrites, rolledBack>>
     \/ /\ dbTx
        /\ dbTx' = FALSE /\ txWrites' = {}
        /\ rolledBack' = TRUE
        /\ UNCHANGED committed
  /\ UNCHANGED <<connected, kind, user, loop, closing, undefined, result,
                 opsVars, inTx, direct, early>>

(* super's terminateOperation, for o and before it, unless it is NULL, for *)
(* the statement s that goes with o.                                       *)
Leave(o, s) ==
  LET gone == {o, s} IN
  /\ ops' = Without(Without(ops, s), o)
  /\ active' = active \ gone
  /\ stmt' = [p \in Ops |-> IF p \in gone THEN NULL ELSE stmt[p]]
  /\ handle' = handle \ {p \in gone \cap Ops : OwnsHandle(p)}

(* saveWithError: the transaction ends whether or not the commit is done.  *)
Save(t) ==
  /\ Calls
  /\ t \in user \cap active /\ kind[t] = Transaction
  /\ \/ CommitDone /\ result' = [result EXCEPT ![t] = "saved"]
     \/ CommitFailed /\ result' = [result EXCEPT ![t] = "failed"]
  /\ Leave(t, NULL)
  /\ UNCHANGED <<connected, kind, user, loop, closing, undefined,
                 direct, early>>

(* beginTransaction, commit and rollback of the connection itself. *)
DirectCommand ==
  /\ Calls /\ connected
  /\ \/ Begin /\ UNCHANGED <<committed, rolledBack>>
     \/ CommitDone
     \/ inTx /\ Rollback /\ UNCHANGED <<committed, rolledBack>>
  /\ direct' = TRUE
  /\ UNCHANGED <<connected, kind, user, loop, closing, undefined, result, opsVars,
                 early>>

-----------------------------------------------------------------------------
(* Ending operations. *)

(* The statement that is deallocated with o when the program retains the   *)
(* operations in keep: o is its last result set.                           *)
Orphan(o, keep) ==
  IF stmt[o] # NULL /\ stmt[o] \notin keep /\ Retains(stmt[o]) = {o} THEN stmt[o] ELSE NULL

(* A result set resets the statement it came from: that must still exist.  *)
ResetsFreed(o) == stmt[o] # NULL /\ stmt[o] \notin handle

(* terminateOperation of an active o. *)
Terminate(o, keep) ==
  /\ Leave(o, Orphan(o, keep))
  /\ undefined' = ResetsFreed(o)
  /\ result' = [result EXCEPT ![o] = IF kind[o] = Transaction THEN "cancelled" ELSE @]
  /\ IF kind[o] = Transaction THEN Rollback ELSE UNCHANGED txVars

(* The program terminates o (cancel, for a transaction). *)
TerminateOperation(o) ==
  /\ Calls
  /\ o \in user \cap active
  /\ Terminate(o, user)
  /\ early' = (early \/ (kind[o] = Statement /\ Retains(o) # {}))
  /\ UNCHANGED <<connected, kind, user, loop, closing, committed, direct, rolledBack>>

\* Faulty form: dealloc does not terminate the operation.
ReleaseOnly(o) ==
  /\ Calls
  /\ o \in user
  /\ user' = user \ {o}
  /\ UNCHANGED <<connected, kind, loop, closing, committed, undefined, result,
                 opsVars, txVars, notes>>

(* The program lets o go: unless a result set retains it, o is deallocated *)
(* and terminates itself.                                                  *)
Release(o) ==
  /\ Calls
  /\ o \in user
  /\ user' = user \ {o}
  /\ IF o \in active /\ Retains(o) = {}
     THEN Terminate(o, user')
     ELSE UNCHANGED <<opsVars, txVars, undefined, result>>
  /\ UNCHANGED <<connected, kind, loop, closing, committed, notes>>

(* A result set steps through its rows. *)
NextRow(o) ==
  /\ Calls
  /\ o \in user \cap active /\ kind[o] = ResultSet /\ ResetsFreed(o)
  /\ undefined' = TRUE
  /\ UNCHANGED <<connected, kind, user, loop, closing, committed, result,
                 opsVars, txVars, notes>>

-----------------------------------------------------------------------------
(* terminateAllOperations, called by disconnect, by the pool, or by the    *)
(* program.                                                                *)
StartTerminating ==
  /\ Calls
  /\ closing' \in IF connected THEN BOOLEAN ELSE {FALSE}
  /\ loop' = Len(ops)
  /\ UNCHANGED <<connected, kind, user, committed, undefined, result, opsVars, txVars, notes>>

(* objectAtIndex:. *)
AtIndex(i) == ops[i]

\* Faulty form: the last element is left out.
TerminateNextSkipping ==
  /\ ~undefined /\ loop # NULL /\ loop > 0
  /\ loop' = loop - 1
  /\ IF loop < Len(ops)
     THEN Terminate(AtIndex(loop), user)
     ELSE UNCHANGED <<opsVars, txVars, undefined, result>>
  /\ UNCHANGED <<connected, kind, user, closing, committed, notes>>

(* One turn: the list may have become shorter than the index, which then   *)
(* gives nil.                                                              *)
TerminateNext ==
  /\ ~undefined /\ loop # NULL /\ loop > 0
  /\ loop' = loop - 1
  /\ IF loop <= Len(ops)
     THEN Terminate(AtIndex(loop), user)
     ELSE UNCHANGED <<opsVars, txVars, undefined, result>>
  /\ UNCHANGED <<connected, kind, user, closing, committed, notes>>

(* After the loop: what is still open is rolled back, and disconnect       *)
(* closes the database, with which an open transaction is lost.  The flag  *)
(* of the connection survives.                                             *)
EndTerminating ==
  /\ ~undefined /\ loop = 0
  /\ loop' = NULL
  /\ closing' = FALSE
  /\ \/ ~closing /\ Rollback /\ UNCHANGED <<connected, rolledBack>>
     \/ /\ closing
        /\ connected' = FALSE
        /\ dbTx' = FALSE /\ txWrites' = {}
        /\ \/ dbTx /\ inTx' = FALSE /\ UNCHANGED rolledBack
           \/ UNCHANGED inTx /\ rolledBack' = (rolledBack \/ dbTx)
  /\ UNCHANGED <<kind, user, committed, undefined, result, opsVars,
                 direct, early>>

Next ==
  \/ Connect
  \/ \E o \in Ops :
       \/ Prepare(o) \/ FetchRequest(o) \/ OpenTransaction(o)
       \/ AppendCommand(o) \/ Save(o)
       \/ TerminateOperation(o) \/ Release(o) \/ NextRow(o)
  \/ \E s, o \in Ops : Fetch(s, o)
  \/ DirectCommand
  \/ StartTerminating \/ TerminateNext \/ EndTerminating

Spec == Init /\ [][Next]_vars

-----------------------------------------------------------------------------
(* The list that does not retain its operations holds exactly the active   *)
(* ones, and these have not been deallocated, in the midst of              *)
(* terminateAllOperations too.  No prepared statement outlives the         *)
(* operation that must finalize it, and none is finalized under it; a      *)
(* freed one is used only when the program terminated it under its result  *)
(* set: the loop over all operations ends result sets first.               *)
RegisteredAlive ==
  /\ TypeOK
  /\ ToSet(ops) = active
  /\ ~undefined => active \subseteq Alive
  /\ handle = {o \in active : OwnsHandle(o)}
  /\ undefined => early

(* "when a connection disconnect all pending operations shoud be notified" *)
(* (MSDBConnection.h:55): none is active without a connection.             *)
NoneDisconnected == ~connected => active = {}

(* A program that leaves COMMIT and ROLLBACK to its transactions           *)
(* (MSDBTransaction.h) has one at a time, and the connection knows of it.  *)
OneTransaction ==
  ~direct =>
    /\ Cardinality(active \cap OfKind(Transaction)) <= 1
    /\ active \cap OfKind(Transaction) # {} => inTx

(* The flag of the connection never misses an open transaction; it is left *)
(* set without one only after the database rolled back by itself.          *)
FlagFollowsDatabase == (dbTx => inTx) /\ (inTx /\ ~dbTx => rolledBack)

(* Writes are committed by save alone: a transaction that failed to save,  *)
(* was cancelled or was dropped leaves nothing, now or later, unless the   *)
(* program committed itself or the database rolled back in between.        *)
AllOrNothing ==
  ~direct /\ ~rolledBack => \A t \in committed : result[t] = "saved"

=============================================================================
