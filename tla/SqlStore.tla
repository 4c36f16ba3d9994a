------------------------------ MODULE SqlStore ------------------------------
(***************************************************************************)
(* The SQL stores as transactions: PostgresActionStore (row lock, then an  *)
(* advisory lock on the effect), MySQLActionStore (row lock, plain read of *)
(* the claim, then an insert or a guarded transfer, retried after a lock   *)
(* failure) and SQLiteActionStore (BEGIN IMMEDIATE locks the file), with   *)
(* their retention stores.  Clients act on what they read before the       *)
(* transaction, and a transaction may die anywhere before its commit.      *)
(*                                                                         *)
(* The proposals are the ones that compete for one semantic effect; rows   *)
(* of different effects share nothing but SQLite's file lock.              *)
(***************************************************************************)
EXTENDS Lifecycle, FiniteSets, Sequences

CONSTANTS Proposals, Clients, NoProposal,
          MaxRevision    \* bound of writes per proposal

MaxAdmissions == 3       \* MySQLActionStore.admit_execution's attempts

ASSUME SqlAssumption ==
  /\ NoProposal \notin Proposals
  /\ MaxRevision \in Nat

VARIABLES
  rows,       \* proposals table: status, revision and erasure of each row
  receipts,   \* number of receipts stored, per proposal
  backend,    \* the database the store runs on, fixed for each behaviour
  owner,      \* effect_claims: who owns the effect
  tx          \* the transaction each client is in

vars == <<backend, rows, receipts, owner, tx>>

Row == [status : LifecycleStatus, revision : 0..MaxRevision, erasure : {"none", "pending", "erased"}]
Ops == {"get", "set", "admit", "mark", "complete"}
-----------------------------------------------------------------------------
(* The statements of each transaction, in order.  "row" and "share" lock the *)
(* proposal, "file" the SQLite database, "advisory" the effect.              *)

\* The parent row FOR SHARE, then its receipts.
PostgresGet == <<"share", "children", "done">>
UpgradesLock == <<"share", "row", "check", "commit">>
PostgresCompareAndSet == <<"row", "check", "commit">>
NoAdvisoryLock == <<"row", "check", "owner", "claim", "commit">>
PostgresAdmitExecution == <<"row", "check", "advisory", "owner", "claim", "commit">>
PostgresMarkErasurePending == <<"row", "check", "commit">>
PostgresCompleteErasure == <<"row", "check", "commit">>

\* One document holds the receipts too.
MySQLGet == <<"document", "done">>
MySQLCompareAndSet == <<"row", "check", "commit">>
MySQLAdmitExecution == <<"row", "check", "owner", "claim", "commit">>
MySQLMarkErasurePending == <<"row", "check", "commit">>
MySQLCompleteErasure == <<"row", "check", "commit">>

SQLiteGet == <<"document", "done">>
SQLiteCompareAndSet == <<"file", "check", "commit">>
SQLiteAdmitExecution == <<"file", "check", "owner", "claim", "commit">>
SQLiteMarkErasurePending == <<"file", "check", "commit">>
SQLiteCompleteErasure == <<"file", "check", "commit">>

Statements(op) ==
  CASE backend = "postgres" ->
         [get |-> PostgresGet, set |-> PostgresCompareAndSet, admit |-> PostgresAdmitExecution,
          mark |-> PostgresMarkErasurePending, complete |-> PostgresCompleteErasure][op]
    [] backend = "mysql" ->
         [get |-> MySQLGet, set |-> MySQLCompareAndSet, admit |-> MySQLAdmitExecution,
          mark |-> MySQLMarkErasurePending, complete |-> MySQLCompleteErasure][op]
    [] backend = "sqlite" ->
         [get |-> SQLiteGet, set |-> SQLiteCompareAndSet, admit |-> SQLiteAdmitExecution,
          mark |-> SQLiteMarkErasurePending, complete |-> SQLiteCompleteErasure][op]
-----------------------------------------------------------------------------
Idle == [todo |-> <<>>, locks |-> {}, shares |-> {}]

\* Tables hold rows that were prepared and approved before.
Init ==
  /\ backend \in {"postgres", "mysql", "sqlite"}
  /\ rows = [p \in Proposals |-> [status |-> "authorized", revision |-> 0, erasure |-> "none"]]
  /\ receipts = [p \in Proposals |-> 0]
  /\ owner = NoProposal
  /\ tx = [c \in Clients |-> Idle]

At(c, statement) == tx[c].todo # <<>> /\ Head(tx[c].todo) = statement
Unlocked(c, r) == \A d \in Clients \ {c} : r \notin tx[d].locks
Free(c, r) == \A d \in Clients \ {c} : r \notin tx[d].locks \union tx[d].shares
Proceed(c) == tx' = [tx EXCEPT ![c].todo = Tail(@)]
Lock(c, r) == tx' = [tx EXCEPT ![c].todo = Tail(@), ![c].locks = @ \union {r}]
RollBack(c) == tx' = [tx EXCEPT ![c] = Idle]
Stored == <<backend, rows, receipts, owner>>
-----------------------------------------------------------------------------
\* A caller that read the row some time ago asks for an operation on it.
Call(c, p, op, target) ==
  /\ tx[c] = Idle
  /\ op # "get" => rows[p].revision < MaxRevision
  /\ op = "set" => target \in AllowedNext(rows[p].status)
  /\ op # "set" => target = "executing"
  /\ tx' = [tx EXCEPT ![c] = [todo |-> Statements(op), op |-> op, proposal |-> p,
                              target |-> target, read |-> rows[p], had |-> receipts[p],
                              seen |-> NoProposal, attempt |-> 1, locks |-> {}, shares |-> {}]]
  /\ UNCHANGED Stored

\* The lock that a statement waits for.
Wanted(c) == CASE At(c, "row") \/ At(c, "share") -> tx[c].proposal
               [] At(c, "file") -> "database"
               [] At(c, "transfer") -> tx[c].seen
               [] OTHER -> "effect"

\* _load ... FOR UPDATE, BEGIN IMMEDIATE, pg_advisory_xact_lock.
TakeLock(c) ==
  /\ At(c, "row") \/ At(c, "file") \/ At(c, "advisory")
  /\ Free(c, Wanted(c))
  /\ Lock(c, Wanted(c))
  /\ UNCHANGED Stored

ReadsWithoutLock(c) ==
  tx' = [tx EXCEPT ![c].todo = Tail(@), ![c].read = rows[tx[c].proposal]]

\* _load ... FOR SHARE: the parent row.
ReadsParent(c) ==
  /\ Unlocked(c, tx[c].proposal)
  /\ tx' = [tx EXCEPT ![c].todo = Tail(@), ![c].read = rows[tx[c].proposal],
                      ![c].shares = {tx[c].proposal}]

\* One SELECT of the document, whose indexed columns must agree with it.
MySQLLoad(c) ==
  tx' = [tx EXCEPT ![c].todo = Tail(@), ![c].read = rows[tx[c].proposal],
                  ![c].had = receipts[tx[c].proposal]]

SQLiteLoad(c) ==
  tx' = [tx EXCEPT ![c].todo = Tail(@), ![c].read = rows[tx[c].proposal],
                  ![c].had = receipts[tx[c].proposal]]

Read(c) ==
  /\ \/ At(c, "share") /\ ReadsParent(c)
     \/ /\ At(c, "children")
        /\ tx' = [tx EXCEPT ![c].todo = Tail(@), ![c].had = receipts[tx[c].proposal]]
     \/ At(c, "document") /\ IF backend = "mysql" THEN MySQLLoad(c) ELSE SQLiteLoad(c)
     \/ At(c, "done") /\ RollBack(c)
  /\ UNCHANGED Stored
-----------------------------------------------------------------------------
\* compare_and_set's tests on the locked row, with validate_proposal_update (a
\* tombstone takes no receipt); an update into executing asks for the claim's owner.
MaySet(c) ==
  LET row == rows[tx[c].proposal] IN
  /\ row.revision = tx[c].read.revision
  /\ row.status = tx[c].read.status
  /\ row.erasure # "erased"
  /\ tx[c].target = "executing" => owner = tx[c].proposal

\* admit_execution's tests.  Expiry is left to ActionRuntime's clock.
MayAdmit(c) ==
  LET row == rows[tx[c].proposal] IN
  /\ row.revision = tx[c].read.revision
  /\ row.status = "authorized"
  /\ row.erasure = "none"

MayMark(c) ==
  LET row == rows[tx[c].proposal] IN
  /\ row.revision = tx[c].read.revision
  /\ row.status \in Erasable
  /\ row.erasure = "none"

MayComplete(c) ==
  LET row == rows[tx[c].proposal] IN
  /\ row.revision = tx[c].read.revision
  /\ row.erasure = "pending"

Permitted(c) == CASE tx[c].op = "set" -> MaySet(c)
                  [] tx[c].op = "admit" -> MayAdmit(c)
                  [] tx[c].op = "mark" -> MayMark(c)
                  [] tx[c].op = "complete" -> MayComplete(c)

Check(c) ==
  /\ At(c, "check")
  /\ IF Permitted(c) THEN Proceed(c) ELSE RollBack(c)
  /\ UNCHANGED Stored
-----------------------------------------------------------------------------
(* _claim_effect, one variant per backend *)

\* _claim_owner: a plain read, under whatever locks are held.
ClaimOwner(c) ==
  /\ At(c, "owner")
  /\ tx' = [tx EXCEPT ![c].todo = Tail(@), ![c].seen = owner]
  /\ UNCHANGED Stored

Transferable(c) == owner = tx[c].seen /\ rows[owner].status \in ReleasesClaim

\* Insert, keep, or transfer after reading the owner's status.
PostgresClaims(c) ==
  IF tx[c].seen \in {NoProposal, tx[c].proposal} \/ Transferable(c)
  THEN Proceed(c) ELSE RollBack(c)

SQLiteClaims(c) ==
  IF tx[c].seen \in {NoProposal, tx[c].proposal} \/ Transferable(c)
  THEN Proceed(c) ELSE RollBack(c)

LocksClaimForTransfer(c) ==
  tx' = [tx EXCEPT ![c].todo = <<"transfer", "commit">>, ![c].locks = @ \union {"effect"}]

\* The unlocked read is trusted: the insert does not meet a unique key.
InsertsUnchecked(c) ==
  \/ tx[c].seen = tx[c].proposal /\ Proceed(c)
  \/ tx[c].seen = NoProposal /\ Free(c, "effect") /\ Lock(c, "effect")
  \/ /\ tx[c].seen \notin {NoProposal, tx[c].proposal}
     /\ Free(c, "effect")
     /\ LocksClaimForTransfer(c)

\* An insert waits for a rival's uncommitted claim and fails with 1062 if it
\* exists; a transfer first locks the claim's row.
MySQLClaims(c) ==
  \/ tx[c].seen = tx[c].proposal /\ Proceed(c)
  \/ /\ tx[c].seen = NoProposal
     /\ Free(c, "effect")
     /\ IF owner = NoProposal THEN Lock(c, "effect") ELSE RollBack(c)
  \/ /\ tx[c].seen \notin {NoProposal, tx[c].proposal}
     /\ Free(c, "effect")
     /\ LocksClaimForTransfer(c)

Claim(c) ==
  /\ At(c, "claim")
  /\ CASE backend = "postgres" -> PostgresClaims(c)
       [] backend = "mysql" -> MySQLClaims(c)
       [] backend = "sqlite" -> SQLiteClaims(c)
  /\ UNCHANGED Stored

\* threvo_actions_transfer_effect_claim locks the owner's row it tests.
MySQLTransfer(c) ==
  /\ At(c, "transfer")
  /\ Free(c, tx[c].seen)
  /\ IF Transferable(c) THEN Lock(c, tx[c].seen) ELSE RollBack(c)
  /\ UNCHANGED Stored
-----------------------------------------------------------------------------
\* What the row becomes: a runtime write is the caller's copy, an erasure is
\* computed from the locked row.
UpdatedRow(c) ==
  LET t == tx[c] IN
  CASE t.op \in {"set", "admit"} -> [t.read EXCEPT !.status = t.target, !.revision = @ + 1]
    [] t.op = "mark" -> [rows[t.proposal] EXCEPT !.erasure = "pending", !.revision = @ + 1]
    [] t.op = "complete" -> [rows[t.proposal] EXCEPT !.erasure = "erased", !.revision = @ + 1]

\* _insert_children adds the receipts beyond the ones the locked row has; the
\* caller's copy has one more than it read.  Erasure deletes them.
InsertChildren(c) ==
  LET t == tx[c]
      stored == receipts[t.proposal]
  IN CASE t.op \in {"set", "admit"} -> IF t.had + 1 > stored THEN t.had + 1 ELSE stored
       [] t.op = "mark" -> stored
       [] t.op = "complete" -> 0

\* _update_parent and commit.
Commit(c) ==
  /\ At(c, "commit")
  /\ rows' = [rows EXCEPT ![tx[c].proposal] = UpdatedRow(c)]
  /\ receipts' = [receipts EXCEPT ![tx[c].proposal] = InsertChildren(c)]
  /\ owner' = IF tx[c].op = "admit" THEN tx[c].proposal ELSE owner
  /\ RollBack(c)
  /\ UNCHANGED backend

\* Errors 1205 and 1213 roll back; only MySQL's admission tries again, with the
\* values its caller gave.
Retry(c) ==
  /\ tx[c].op = "admit" /\ tx[c].attempt < MaxAdmissions
  /\ tx' = [tx EXCEPT ![c].todo = Statements("admit"), ![c].seen = NoProposal,
                      ![c].attempt = @ + 1, ![c].locks = {}]

Exhausted(c) == backend = "sqlite" \/ tx[c].op # "admit" \/ tx[c].attempt = MaxAdmissions

\* InnoDB breaks a deadlock or a long wait, SQLite a long wait for the file.
LockFailure(c) ==
  /\ backend # "postgres"
  /\ At(c, "row") \/ At(c, "file") \/ At(c, "claim") \/ At(c, "transfer")
  /\ ~Free(c, Wanted(c))
  /\ \/ backend = "mysql" /\ Retry(c)
     \/ Exhausted(c) /\ RollBack(c)
  /\ UNCHANGED Stored

\* The connection or the process is lost before the commit.
Crash(c) ==
  /\ tx[c] # Idle
  /\ RollBack(c)
  /\ UNCHANGED Stored

Step(c) == \/ TakeLock(c) \/ Read(c) \/ Check(c) \/ ClaimOwner(c)
           \/ Claim(c) \/ MySQLTransfer(c) \/ Commit(c)

Next ==
  \/ \E c \in Clients, p \in Proposals, op \in Ops, target \in LifecycleStatus :
       Call(c, p, op, target)
  \/ \E c \in Clients : Step(c) \/ LockFailure(c) \/ Crash(c)

Spec == Init /\ [][Next]_vars

-----------------------------------------------------------------------------
\* A read is never torn: the receipts a get returns are the ones of the revision
\* it returns, although PostgreSQL reads them in a later statement.
ReadsAreWhole ==
  \A c \in Clients : At(c, "done") /\ tx[c].read.erasure # "erased" =>
    tx[c].had + (IF tx[c].read.erasure = "pending" THEN 1 ELSE 0) = tx[c].read.revision

\* Attempts of rival proposals never overlap: a row with an attempt in progress
\* or in doubt owns the effect, in every committed state.
OpenAttemptOwnsEffect ==
  \A p \in Proposals :
    rows[p].status \in {"executing", "failed_unknown", "verification_pending"} => owner = p

\* The transactions implement the atomic store contract: at each commit what the
\* operation had checked before is still true of the committed tables.
Atomic == INSTANCE AtomicStore
ImplementsAtomicStore == Atomic!Spec

WaitsFor(c, d) ==
  \/ /\ At(c, "row") \/ At(c, "file") \/ At(c, "advisory")
     /\ Wanted(c) \in tx[d].locks \union tx[d].shares
  \/ At(c, "share") /\ Wanted(c) \in tx[d].locks

\* PostgreSQL's transactions never wait for each other in a cycle, so its store
\* needs no retry loop like the one MySQL's admission has.
NoWaitCycle ==
  backend = "postgres" => \A c, d \in Clients : c # d => ~(WaitsFor(c, d) /\ WaitsFor(d, c))
=============================================================================
