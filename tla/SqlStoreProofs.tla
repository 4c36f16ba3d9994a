--------------------------- MODULE SqlStoreProofs ---------------------------
(***************************************************************************)
(* Proofs about SqlStore for any number of clients and rival proposals, on *)
(* each of the three databases: its transactions implement AtomicStore,    *)
(* reads are not torn and PostgreSQL's transactions never wait in a cycle. *)
(*                                                                         *)
(* What a transaction tested must still be true when it commits.  The      *)
(* invariant says for every statement which locks the transaction holds by *)
(* then, and that what it has read of the row and of the claim is current: *)
(* the locks it holds shut out every commit that would change it.          *)
(***************************************************************************)
EXTENDS SqlStore, TLAPS

\* What may be left of a transaction of each kind.
Reading ==
  { <<"share", "children", "done">>, <<"children", "done">>, <<"document", "done">>, <<"done">> }

Writing ==
  { <<"row", "check", "commit">>, <<"file", "check", "commit">>, <<"check", "commit">>, <<"commit">> }

Admitting ==
  { <<"row", "check", "advisory", "owner", "claim", "commit">>,
    <<"check", "advisory", "owner", "claim", "commit">>,
    <<"advisory", "owner", "claim", "commit">>,
    <<"row", "check", "owner", "claim", "commit">>,
    <<"file", "check", "owner", "claim", "commit">>,
    <<"check", "owner", "claim", "commit">>,
    <<"owner", "claim", "commit">>,
    <<"claim", "commit">>,
    <<"transfer", "commit">>,
    <<"commit">> }

Resource == Proposals \union {"effect", "database"}

Transaction ==
  [ todo : Reading \union Writing \union Admitting, op : Ops, proposal : Proposals,
    target : LifecycleStatus, read : Row, had : Nat, seen : Proposals \union {NoProposal},
    attempt : Nat, locks : SUBSET Resource, shares : SUBSET Proposals ]

Types ==
  /\ backend \in {"postgres", "mysql", "sqlite"}
  /\ rows \in [Proposals -> Row]
  /\ receipts \in [Proposals -> Nat]
  /\ owner \in Proposals \union {NoProposal}
  /\ tx \in [Clients -> {Idle} \union Transaction]

\* Every write adds one receipt to the row, except the first step of an erasure.
Whole(row, count) ==
  row.erasure # "erased" =>
    count + (IF row.erasure = "pending" THEN 1 ELSE 0) = row.revision

\* A proposal that may still have the effect owns it, also one that operators
\* have to look at.
MayHaveEffect == {"executing", "failed_unknown", "verification_pending", "verification_unresolved"}

TablesAgree ==
  \A p \in Proposals :
    /\ Whole(rows[p], receipts[p])
    /\ rows[p].status \in MayHaveEffect => owner = p

\* No one else holds, in whatever mode, what a transaction has locked.
Exclusive ==
  \A c, d \in Clients : c # d => tx[c].locks \intersect (tx[d].locks \union tx[d].shares) = {}

Guard(c) == IF backend = "sqlite" THEN "database" ELSE tx[c].proposal

\* The statements that are left fit the operation and the database.
PlanAgrees(c) ==
  LET t == tx[c]
      h == Head(t.todo)
  IN  /\ t.op = "get" => t.todo \in Reading
      /\ t.op \in {"set", "mark", "complete"} => t.todo \in Writing
      /\ t.op = "admit" => t.todo \in Admitting
      /\ t.op # "set" => t.target = "executing"
      /\ t.op # "get" => t.read.revision < MaxRevision
      /\ t.op = "set" => t.target \in AllowedNext(t.read.status)
      /\ h = "row" => backend # "sqlite"
      /\ h = "file" => backend = "sqlite"
      /\ h \in {"share", "children"} => backend = "postgres"
      /\ h = "document" => backend # "postgres"
      /\ h = "transfer" => backend = "mysql"
      /\ t.op = "admit" /\ h \in {"row", "file", "check"} =>
           (backend = "postgres" <=>
              t.todo \in {<<"row", "check", "advisory", "owner", "claim", "commit">>,
                          <<"check", "advisory", "owner", "claim", "commit">>})
      /\ h = "advisory" => backend = "postgres"

\* The locks a transaction has taken before each statement.
LocksAgree(c) ==
  LET t == tx[c]
      h == Head(t.todo)
  IN  /\ t.op = "get" => t.locks = {}
      /\ t.op # "get" => t.shares = {}
      /\ h \in {"row", "file", "share"} => t.locks = {} /\ t.shares = {}
      /\ h = "children" => t.shares = {t.proposal}
      /\ t.op # "get" /\ h \notin {"row", "file"} => Guard(c) \in t.locks
      /\ t.op = "admit" /\ h \in {"check", "advisory"} => t.locks = {Guard(c)}
      /\ t.op = "admit" /\ backend = "postgres" /\ h \in {"owner", "claim", "commit"} =>
           "effect" \in t.locks
      /\ h = "transfer" => "effect" \in t.locks

\* What a caller knows of the row is current or older.
ReadAgrees(c) ==
  LET t == tx[c]
      h == Head(t.todo)
      row == rows[t.proposal]
  IN  /\ t.op # "get" =>
           \/ t.read.revision < row.revision
           \/ t.read = row /\ t.had = receipts[t.proposal]
      /\ h # "children" => Whole(t.read, t.had)
      /\ h = "children" => t.read = row

EndedWithoutEffect == ReleasesClaim \union {"superseded"}

\* What was tested is still true.
TestsAgree(c) ==
  LET t == tx[c]
      h == Head(t.todo)
      moves == t.seen \notin {NoProposal, t.proposal}
  IN  /\ t.op # "get" /\ h \notin {"row", "file", "check"} => Permitted(c)
      /\ h = "claim" /\ (backend # "mysql" \/ t.seen = t.proposal) => owner = t.seen
      /\ h = "transfer" => moves
      /\ h = "commit" /\ t.op = "admit" =>
           /\ owner = t.seen
           /\ moves => rows[t.seen].status \in EndedWithoutEffect
           /\ backend = "mysql" /\ t.seen = NoProposal => "effect" \in t.locks
           /\ backend = "mysql" /\ moves => "effect" \in t.locks /\ t.seen \in t.locks

Agrees(c) == PlanAgrees(c) /\ LocksAgree(c) /\ ReadAgrees(c) /\ TestsAgree(c)

SqlInvariant ==
  /\ Types
  /\ TablesAgree
  /\ Exclusive
  /\ \A c \in Clients : tx[c] # Idle => Agrees(c)

-----------------------------------------------------------------------------
(* Statements, and steps of one client *)

\* Each plan, its first statement and what is left after it.
LEMMA Plans ==
  /\ Head(<<"share", "children", "done">>) = "share"
  /\ Tail(<<"share", "children", "done">>) = <<"children", "done">>
  /\ Head(<<"children", "done">>) = "children" /\ Tail(<<"children", "done">>) = <<"done">>
  /\ Head(<<"document", "done">>) = "document" /\ Tail(<<"document", "done">>) = <<"done">>
  /\ Head(<<"done">>) = "done"
  /\ Head(<<"row", "check", "commit">>) = "row"
  /\ Tail(<<"row", "check", "commit">>) = <<"check", "commit">>
  /\ Head(<<"file", "check", "commit">>) = "file"
  /\ Tail(<<"file", "check", "commit">>) = <<"check", "commit">>
  /\ Head(<<"check", "commit">>) = "check" /\ Tail(<<"check", "commit">>) = <<"commit">>
  /\ Head(<<"commit">>) = "commit"
  /\ Head(<<"row", "check", "advisory", "owner", "claim", "commit">>) = "row"
  /\ Tail(<<"row", "check", "advisory", "owner", "claim", "commit">>)
       = <<"check", "advisory", "owner", "claim", "commit">>
  /\ Head(<<"check", "advisory", "owner", "claim", "commit">>) = "check"
  /\ Tail(<<"check", "advisory", "owner", "claim", "commit">>)
       = <<"advisory", "owner", "claim", "commit">>
  /\ Head(<<"advisory", "owner", "claim", "commit">>) = "advisory"
  /\ Tail(<<"advisory", "owner", "claim", "commit">>) = <<"owner", "claim", "commit">>
  /\ Head(<<"row", "check", "owner", "claim", "commit">>) = "row"
  /\ Tail(<<"row", "check", "owner", "claim", "commit">>) = <<"check", "owner", "claim", "commit">>
  /\ Head(<<"file", "check", "owner", "claim", "commit">>) = "file"
  /\ Tail(<<"file", "check", "owner", "claim", "commit">>) = <<"check", "owner", "claim", "commit">>
  /\ Head(<<"check", "owner", "claim", "commit">>) = "check"
  /\ Tail(<<"check", "owner", "claim", "commit">>) = <<"owner", "claim", "commit">>
  /\ Head(<<"owner", "claim", "commit">>) = "owner"
  /\ Tail(<<"owner", "claim", "commit">>) = <<"claim", "commit">>
  /\ Head(<<"claim", "commit">>) = "claim" /\ Tail(<<"claim", "commit">>) = <<"commit">>
  /\ Head(<<"transfer", "commit">>) = "transfer" /\ Tail(<<"transfer", "commit">>) = <<"commit">>
  OBVIOUS

\* The plans that begin with each statement.
LEMMA AtStatement ==
  ASSUME NEW todo \in Reading \union Writing \union Admitting
  PROVE  /\ Head(todo) = "share" => todo = <<"share", "children", "done">>
         /\ Head(todo) = "children" => todo = <<"children", "done">>
         /\ Head(todo) = "document" => todo = <<"document", "done">>
         /\ Head(todo) = "row" =>
              \/ todo = <<"row", "check", "commit">>
              \/ todo = <<"row", "check", "advisory", "owner", "claim", "commit">>
              \/ todo = <<"row", "check", "owner", "claim", "commit">>
         /\ Head(todo) = "file" =>
              \/ todo = <<"file", "check", "commit">>
              \/ todo = <<"file", "check", "owner", "claim", "commit">>
         /\ Head(todo) = "check" =>
              \/ todo = <<"check", "commit">>
              \/ todo = <<"check", "advisory", "owner", "claim", "commit">>
              \/ todo = <<"check", "owner", "claim", "commit">>
         /\ Head(todo) = "advisory" => todo = <<"advisory", "owner", "claim", "commit">>
         /\ Head(todo) = "owner" => todo = <<"owner", "claim", "commit">>
         /\ Head(todo) = "claim" => todo = <<"claim", "commit">>
         /\ Head(todo) = "transfer" => todo = <<"transfer", "commit">>
         /\ Head(todo) = "commit" => todo = <<"commit">>
  <1>1. CASE todo \in Reading
    BY <1>1, Plans DEF Reading
  <1>2. CASE todo \in Writing
    BY <1>2, Plans DEF Writing
  <1>3. CASE todo \in Admitting
    BY <1>3, Plans DEF Admitting
  <1> QED BY <1>1, <1>2, <1>3

\* Plans of different operations differ.
LEMMA PlanOfOperation ==
  /\ Reading \intersect (Writing \union Admitting) = {}
  /\ <<"row", "check", "commit">> \notin Admitting
  /\ <<"file", "check", "commit">> \notin Admitting
  /\ <<"check", "commit">> \notin Admitting
  /\ \A todo \in Writing : Head(todo) \in {"row", "file", "check", "commit"}
  /\ \A todo \in Reading : Head(todo) \in {"share", "children", "document", "done"}
  /\ \A todo \in Admitting :
        Head(todo) \in {"row", "file", "check", "advisory", "owner", "claim", "transfer", "commit"}
  <1>1. \A todo \in Writing : Head(todo) \in {"row", "file", "check", "commit"}
    BY Plans DEF Writing
  <1>2. \A todo \in Reading : Head(todo) \in {"share", "children", "document", "done"}
    BY Plans DEF Reading
  <1>3. \A todo \in Admitting :
          Head(todo) \in {"row", "file", "check", "advisory", "owner", "claim", "transfer", "commit"}
    BY Plans DEF Admitting
  <1>4. Reading \intersect (Writing \union Admitting) = {}
    BY <1>1, <1>2, <1>3
  <1>5. /\ <<"row", "check", "commit">> \notin Admitting
        /\ <<"file", "check", "commit">> \notin Admitting
        /\ <<"check", "commit">> \notin Admitting
    BY DEF Admitting
  <1> QED BY <1>1, <1>2, <1>3, <1>4, <1>5

\* A client that is at a statement is in a transaction.
LEMMA InTransaction ==
  ASSUME SqlInvariant, NEW c \in Clients, NEW s, At(c, s)
  PROVE  tx[c] \in Transaction /\ Head(tx[c].todo) = s /\ Agrees(c)
  <1>1. tx[c] # Idle
    BY DEF At, Idle
  <1> QED BY <1>1 DEF SqlInvariant, Types, At

\* What is known of another client that did nothing while the tables stayed.
LEMMA OtherAgrees ==
  ASSUME NEW d \in Clients, Agrees(d), tx'[d] = tx[d], UNCHANGED Stored
  PROVE  Agrees(d)'
  <1>1. backend' = backend /\ rows' = rows /\ receipts' = receipts /\ owner' = owner
    BY DEF Stored
  <1>2. Guard(d)' = Guard(d) /\ (Permitted(d)' <=> Permitted(d))
    BY <1>1 DEF Guard, Permitted, MaySet, MayAdmit, MayMark, MayComplete
  <1>3. PlanAgrees(d)'
    BY <1>1 DEF Agrees, PlanAgrees
  <1>4. LocksAgree(d)'
    BY <1>1, <1>2 DEF Agrees, LocksAgree
  <1>5. ReadAgrees(d)'
    BY <1>1 DEF Agrees, ReadAgrees, Whole
  <1>6. TestsAgree(d)'
    BY <1>1, <1>2 DEF Agrees, TestsAgree
  <1> QED BY <1>3, <1>4, <1>5, <1>6 DEF Agrees

\* Client c has taken no lock that another client holds.
TakesFree(c, t) ==
  \A d \in Clients : d # c =>
    /\ t.locks \intersect (tx[d].locks \union tx[d].shares) = {}
    /\ t.shares \intersect tx[d].locks = {}

\* A statement of one client that leaves the tables alone.
LEMMA StatementKeeps ==
  ASSUME SqlInvariant, NEW c \in Clients, NEW t \in {Idle} \union Transaction,
         tx' = [tx EXCEPT ![c] = t], UNCHANGED Stored,
         TakesFree(c, t),
         t # Idle => Agrees(c)'
  PROVE  SqlInvariant'
  <1>1. /\ tx' \in [Clients -> {Idle} \union Transaction] /\ tx'[c] = t
        /\ \A d \in Clients : d # c => tx'[d] = tx[d]
    BY DEF SqlInvariant, Types
  <1>2. backend' = backend /\ rows' = rows /\ receipts' = receipts /\ owner' = owner
    BY DEF Stored
  <1>3. Types'
    BY <1>1, <1>2 DEF SqlInvariant, Types
  <1>4. TablesAgree'
    BY <1>2 DEF SqlInvariant, TablesAgree, Whole
  <1>5. Exclusive'
    <2> SUFFICES ASSUME NEW a \in Clients, NEW b \in Clients, a # b
                 PROVE  tx'[a].locks \intersect (tx'[b].locks \union tx'[b].shares) = {}
      BY DEF Exclusive
    <2>1. CASE a # c /\ b # c
      BY <1>1, <2>1 DEF SqlInvariant, Exclusive
    <2>2. CASE a = c
      BY <1>1, <2>2 DEF TakesFree
    <2>3. CASE b = c
      BY <1>1, <2>3 DEF TakesFree
    <2> QED BY <2>1, <2>2, <2>3
  <1>6. ASSUME NEW d \in Clients, tx'[d] # Idle
        PROVE  Agrees(d)'
    <2>1. CASE d = c
      BY <1>1, <1>6, <2>1
    <2>2. CASE d # c
      BY <1>1, <1>6, <2>2, OtherAgrees DEF SqlInvariant
    <2> QED BY <2>1, <2>2
  <1> QED BY <1>3, <1>4, <1>5, <1>6 DEF SqlInvariant

\* A transaction that is rolled back gives up its locks.
LEMMA RollBackKeeps ==
  ASSUME SqlInvariant, NEW c \in Clients, RollBack(c), UNCHANGED Stored
  PROVE  SqlInvariant'
  <1>1. Idle.locks = {} /\ Idle.shares = {}
    BY DEF Idle
  <1>2. TakesFree(c, Idle)
    BY <1>1 DEF TakesFree
  <1>3. tx' = [tx EXCEPT ![c] = Idle]
    BY DEF RollBack
  <1> HIDE DEF Idle
  <1> QED BY <1>2, <1>3, StatementKeeps

\* Where each transaction starts.
LEMMA StatementsOf ==
  ASSUME backend \in {"postgres", "mysql", "sqlite"}
  PROVE  /\ Statements("get") = IF backend = "postgres" THEN <<"share", "children", "done">>
                                                        ELSE <<"document", "done">>
         /\ \A op \in {"set", "mark", "complete"} :
              Statements(op) = IF backend = "sqlite" THEN <<"file", "check", "commit">>
                                                     ELSE <<"row", "check", "commit">>
         /\ backend = "postgres" =>
              Statements("admit") = <<"row", "check", "advisory", "owner", "claim", "commit">>
         /\ backend = "mysql" => Statements("admit") = <<"row", "check", "owner", "claim", "commit">>
         /\ backend = "sqlite" => Statements("admit") = <<"file", "check", "owner", "claim", "commit">>
  <1>1. CASE backend = "postgres"
    BY <1>1 DEF Statements, PostgresGet, PostgresCompareAndSet, PostgresAdmitExecution,
                PostgresMarkErasurePending, PostgresCompleteErasure
  <1>2. CASE backend = "mysql"
    BY <1>2 DEF Statements, MySQLGet, MySQLCompareAndSet, MySQLAdmitExecution,
                MySQLMarkErasurePending, MySQLCompleteErasure
  <1>3. CASE backend = "sqlite"
    BY <1>3 DEF Statements, SQLiteGet, SQLiteCompareAndSet, SQLiteAdmitExecution,
                SQLiteMarkErasurePending, SQLiteCompleteErasure
  <1> QED BY <1>1, <1>2, <1>3

\* A transaction that has just begun: it holds nothing and has tested nothing.
LEMMA BeginningAgrees ==
  ASSUME backend \in {"postgres", "mysql", "sqlite"}, NEW c \in Clients, NEW t \in Transaction,
         tx'[c] = t, backend' = backend,
         t.todo = Statements(t.op), t.locks = {}, t.shares = {},
         t.op # "set" => t.target = "executing",
         t.op # "get" => t.read.revision < MaxRevision,
         t.op = "set" => t.target \in AllowedNext(t.read.status)
  PROVE  PlanAgrees(c)' /\ LocksAgree(c)' /\ TestsAgree(c)' /\ Head(t.todo) # "children"
  <1>1. t.op \in Ops
    BY DEF Transaction
  <1>2. CASE t.op = "get"
    BY <1>2, StatementsOf, Plans DEF PlanAgrees, LocksAgree, TestsAgree, Reading
  <1>3. CASE t.op \in {"set", "mark", "complete"}
    BY <1>3, StatementsOf, Plans DEF PlanAgrees, LocksAgree, TestsAgree, Writing
  <1>4. CASE t.op = "admit"
    <2>1. CASE backend = "postgres"
      BY <1>4, <2>1, StatementsOf, Plans DEF PlanAgrees, LocksAgree, TestsAgree, Admitting
    <2>2. CASE backend = "mysql"
      BY <1>4, <2>2, StatementsOf, Plans DEF PlanAgrees, LocksAgree, TestsAgree, Admitting
    <2>3. CASE backend = "sqlite"
      BY <1>4, <2>3, StatementsOf, Plans DEF PlanAgrees, LocksAgree, TestsAgree, Admitting
    <2> QED BY <2>1, <2>2, <2>3
  <1> QED BY <1>1, <1>2, <1>3, <1>4 DEF Ops

\* A client begins a transaction on a row that it has read.
LEMMA CallKeeps ==
  ASSUME SqlInvariant, NEW c \in Clients, NEW p \in Proposals, NEW op \in Ops,
         NEW target \in LifecycleStatus, Call(c, p, op, target)
  PROVE  SqlInvariant'
  <1> DEFINE begun == [todo |-> Statements(op), op |-> op, proposal |-> p,
                       target |-> target, read |-> rows[p], had |-> receipts[p],
                       seen |-> NoProposal, attempt |-> 1, locks |-> {}, shares |-> {}]
  <1>1. backend \in {"postgres", "mysql", "sqlite"} /\ rows[p] \in Row /\ receipts[p] \in Nat
    BY DEF SqlInvariant, Types
  <1>2. Statements(op) \in Reading \union Writing \union Admitting
    <2>1. CASE op = "get"
      BY <1>1, <2>1, StatementsOf DEF Reading
    <2>2. CASE op \in {"set", "mark", "complete"}
      BY <1>1, <2>2, StatementsOf DEF Writing
    <2>3. CASE op = "admit"
      BY <1>1, <2>3, StatementsOf DEF Admitting
    <2> QED BY <2>1, <2>2, <2>3 DEF Ops
  <1>3. begun \in Transaction
    BY <1>1, <1>2 DEF Transaction
  <1>4. PICK t \in Transaction : t = begun
    BY <1>3
  <1>5. /\ t.todo = Statements(op) /\ t.op = op /\ t.proposal = p /\ t.target = target
        /\ t.read = rows[p] /\ t.had = receipts[p] /\ t.locks = {} /\ t.shares = {}
    BY <1>4
  <1>6. tx' = [tx EXCEPT ![c] = t] /\ UNCHANGED Stored
    BY <1>4 DEF Call
  <1>7. tx'[c] = t /\ backend' = backend /\ rows' = rows /\ receipts' = receipts
    BY <1>6 DEF SqlInvariant, Types, Stored
  <1>8. /\ t.op # "set" => t.target = "executing"
        /\ t.op # "get" => t.read.revision < MaxRevision
        /\ t.op = "set" => t.target \in AllowedNext(t.read.status)
    BY <1>5 DEF Call
  <1>9. PlanAgrees(c)' /\ LocksAgree(c)' /\ TestsAgree(c)' /\ Head(t.todo) # "children"
    BY <1>1, <1>5, <1>7, <1>8, BeginningAgrees
  <1>10. ReadAgrees(c)'
    BY <1>5, <1>7, <1>9 DEF ReadAgrees, SqlInvariant, TablesAgree
  <1>11. TakesFree(c, t)
    BY <1>5 DEF TakesFree
  <1> HIDE DEF begun
  <1> QED BY <1>6, <1>9, <1>10, <1>11, StatementKeeps DEF Agrees

\* The lock is free, and nobody gets what others hold.
LEMMA FreeIsExclusive ==
  ASSUME SqlInvariant, NEW c \in Clients, NEW t, NEW r, Free(c, r),
         t.locks \subseteq tx[c].locks \union {r}, t.shares \subseteq tx[c].shares
  PROVE  TakesFree(c, t)
  <1> SUFFICES ASSUME NEW d \in Clients, d # c
               PROVE  /\ t.locks \intersect (tx[d].locks \union tx[d].shares) = {}
                      /\ t.shares \intersect tx[d].locks = {}
    BY DEF TakesFree
  <1>1. /\ tx[c].locks \intersect (tx[d].locks \union tx[d].shares) = {}
        /\ tx[d].locks \intersect (tx[c].locks \union tx[c].shares) = {}
    BY DEF SqlInvariant, Exclusive
  <1>2. r \notin tx[d].locks \union tx[d].shares
    BY DEF Free
  <1> QED BY <1>1, <1>2

\* FOR UPDATE, BEGIN IMMEDIATE and the advisory lock.
LEMMA TakeLockKeeps ==
  ASSUME SqlInvariant, NEW c \in Clients, TakeLock(c)
  PROVE  SqlInvariant'
  <1> DEFINE o == tx[c]
  <1>1. PICK s \in {"row", "file", "advisory"} : At(c, s)
    BY DEF TakeLock
  <1>2. o \in Transaction /\ Head(o.todo) = s /\ Agrees(c)
    BY <1>1, InTransaction
  <1>3. backend \in {"postgres", "mysql", "sqlite"} /\ tx \in [Clients -> {Idle} \union Transaction]
    BY DEF SqlInvariant, Types
  <1>4. /\ o.todo \in Reading \union Writing \union Admitting /\ o.op \in Ops
        /\ o.proposal \in Proposals /\ o.locks \subseteq Resource
    BY <1>2 DEF Transaction
  <1>5. Wanted(c) = IF s = "advisory" THEN "effect" ELSE Guard(c)
    BY <1>1, <1>2 DEF Wanted, At, Guard, Agrees, PlanAgrees
  <1>6. PICK r \in Resource : r = Wanted(c)
    BY <1>4, <1>5 DEF Guard, Resource
  <1>7. Tail(o.todo) \in Writing \union Admitting
    BY <1>2, <1>4, Plans DEF Reading, Writing, Admitting
  <1> DEFINE locked == [o EXCEPT !.todo = Tail(o.todo), !.locks = o.locks \union {r}]
  <1>8. locked \in Transaction
    BY <1>2, <1>4, <1>7 DEF Transaction
  <1>9. PICK t \in Transaction : t = locked
    BY <1>8
  <1>10. /\ t.todo = Tail(o.todo) /\ t.op = o.op /\ t.proposal = o.proposal /\ t.target = o.target
         /\ t.read = o.read /\ t.had = o.had /\ t.seen = o.seen
         /\ t.locks = o.locks \union {r} /\ t.shares = o.shares
    BY <1>2, <1>9 DEF Transaction
  <1>11. tx' = [tx EXCEPT ![c] = t] /\ UNCHANGED Stored /\ Free(c, r)
    BY <1>3, <1>6, <1>9 DEF TakeLock, Lock
  <1>12. tx'[c] = t /\ backend' = backend /\ rows' = rows /\ receipts' = receipts /\ owner' = owner
    BY <1>3, <1>11 DEF Stored
  <1>13. TakesFree(c, t)
    BY <1>10, <1>11, FreeIsExclusive
  <1>14. o.op \in {"set", "mark", "complete", "admit"}
    BY <1>2, <1>4, Plans DEF Agrees, PlanAgrees, Reading, Ops
  <1> HIDE DEF locked
  <1>15. o.op = "admit" => o.todo \in Admitting
    BY <1>2 DEF Agrees, PlanAgrees
  <1>16. o.op # "admit" => o.todo \in Writing
    BY <1>2, <1>14 DEF Agrees, PlanAgrees
  <1>17. Guard(c)' = Guard(c)
    BY <1>10, <1>12 DEF Guard
  <1>18. CASE o.op # "admit"
    <2>1. s # "advisory" /\ t.todo = <<"check", "commit">>
      <3>1. o.todo = <<"row", "check", "commit">> \/ o.todo = <<"file", "check", "commit">>
        BY <1>2, <1>16, <1>18, Plans DEF Writing
      <3> QED BY <1>2, <1>10, <3>1, Plans
    <2>2. t.todo \in Writing /\ Head(t.todo) = "check"
      BY <2>1, Plans DEF Writing
    <2>3. PlanAgrees(c)'
      BY <1>2, <1>10, <1>12, <1>14, <1>18, <2>2 DEF Agrees, PlanAgrees
    <2>4. LocksAgree(c)'
      BY <1>2, <1>5, <1>6, <1>10, <1>12, <1>14, <1>17, <1>18, <2>1, <2>2 DEF Agrees, LocksAgree
    <2>5. ReadAgrees(c)'
      BY <1>2, <1>10, <1>12, <2>2 DEF Agrees, ReadAgrees, Whole
    <2>6. TestsAgree(c)'
      BY <1>10, <1>12, <1>14, <2>2 DEF TestsAgree
    <2> QED BY <1>11, <1>13, <2>3, <2>4, <2>5, <2>6, StatementKeeps DEF Agrees
  <1>19. CASE o.op = "admit" /\ s # "advisory"
    <2>1. t.todo = IF backend = "postgres" THEN <<"check", "advisory", "owner", "claim", "commit">>
                                           ELSE <<"check", "owner", "claim", "commit">>
      <3>1. \/ o.todo = <<"row", "check", "advisory", "owner", "claim", "commit">>
            \/ o.todo = <<"row", "check", "owner", "claim", "commit">>
            \/ o.todo = <<"file", "check", "owner", "claim", "commit">>
        BY <1>2, <1>4, <1>15, <1>19, AtStatement, PlanOfOperation
      <3>2. backend = "postgres" <=>
              o.todo \in {<<"row", "check", "advisory", "owner", "claim", "commit">>,
                          <<"check", "advisory", "owner", "claim", "commit">>}
        BY <1>2, <1>19 DEF Agrees, PlanAgrees
      <3>3. CASE o.todo = <<"row", "check", "advisory", "owner", "claim", "commit">>
        BY <1>10, <3>2, <3>3, Plans
      <3>4. CASE o.todo = <<"row", "check", "owner", "claim", "commit">>
        BY <1>10, <3>2, <3>4, Plans
      <3>5. CASE o.todo = <<"file", "check", "owner", "claim", "commit">>
        BY <1>10, <3>2, <3>5, Plans
      <3> QED BY <3>1, <3>3, <3>4, <3>5
    <2>2. t.todo \in Admitting /\ Head(t.todo) = "check"
      BY <2>1, Plans DEF Admitting
    <2>3. (backend = "postgres" <=>
              t.todo \in {<<"row", "check", "advisory", "owner", "claim", "commit">>,
                          <<"check", "advisory", "owner", "claim", "commit">>})
      BY <2>1
    <2>4. PlanAgrees(c)'
      BY <1>2, <1>10, <1>12, <1>19, <2>2, <2>3 DEF Agrees, PlanAgrees
    <2>5. LocksAgree(c)'
      BY <1>2, <1>5, <1>6, <1>10, <1>12, <1>17, <1>19, <2>2 DEF Agrees, LocksAgree
    <2>6. ReadAgrees(c)'
      BY <1>2, <1>10, <1>12, <2>2 DEF Agrees, ReadAgrees, Whole
    <2>7. TestsAgree(c)'
      BY <1>10, <1>12, <1>14, <2>2 DEF TestsAgree
    <2> QED BY <1>11, <1>13, <2>4, <2>5, <2>6, <2>7, StatementKeeps DEF Agrees
  <1>20. CASE o.op = "admit" /\ s = "advisory"
    <2>1. t.todo = <<"owner", "claim", "commit">>
      BY <1>2, <1>4, <1>10, <1>20, AtStatement, Plans
    <2>2. t.todo \in Admitting /\ Head(t.todo) = "owner"
      BY <2>1, Plans DEF Admitting
    <2>3. PlanAgrees(c)'
      BY <1>2, <1>10, <1>12, <1>20, <2>2 DEF Agrees, PlanAgrees
    <2>4. LocksAgree(c)'
      BY <1>2, <1>5, <1>6, <1>10, <1>12, <1>17, <1>20, <2>2 DEF Agrees, LocksAgree
    <2>5. ReadAgrees(c)'
      BY <1>2, <1>10, <1>12, <1>20, <2>2 DEF Agrees, ReadAgrees, Whole
    <2>6. TestsAgree(c)'
      <3>1. Permitted(c)' <=> Permitted(c)
        BY <1>10, <1>12 DEF Permitted, MaySet, MayAdmit, MayMark, MayComplete
      <3> QED BY <1>2, <1>10, <1>12, <1>20, <2>2, <3>1 DEF Agrees, TestsAgree
    <2> QED BY <1>11, <1>13, <2>3, <2>4, <2>5, <2>6, StatementKeeps DEF Agrees
  <1> QED BY <1>14, <1>18, <1>19, <1>20

\* A read takes no exclusive lock, and sees a whole row in each of its ways.
LEMMA ReadGoesOn ==
  ASSUME SqlInvariant, NEW c \in Clients, NEW t \in Transaction, tx[c] \in Transaction, Agrees(c),
         tx[c].op = "get", tx' = [tx EXCEPT ![c] = t], UNCHANGED Stored,
         t.op = "get", t.proposal = tx[c].proposal, t.target = tx[c].target, t.locks = tx[c].locks,
         t.todo \in {<<"children", "done">>, <<"done">>},
         t.todo = <<"children", "done">> =>
           backend = "postgres" /\ t.shares = {t.proposal} /\ t.read = rows[t.proposal],
         t.todo = <<"done">> => Whole(t.read, t.had),
         \A d \in Clients : d # c => t.shares \intersect tx[d].locks = {}
  PROVE  SqlInvariant'
  <1>1. /\ tx'[c] = t /\ backend' = backend /\ rows' = rows /\ receipts' = receipts
    BY DEF SqlInvariant, Types, Stored
  <1>2. t.todo \in Reading /\ Head(t.todo) \in {"children", "done"}
        /\ (Head(t.todo) = "children" <=> t.todo = <<"children", "done">>)
        /\ (Head(t.todo) = "done" <=> t.todo = <<"done">>)
    BY Plans DEF Reading
  <1>3. PlanAgrees(c)'
    BY <1>1, <1>2 DEF Agrees, PlanAgrees
  <1>4. LocksAgree(c)'
    BY <1>1, <1>2 DEF Agrees, LocksAgree
  <1>5. ReadAgrees(c)'
    <2>1. CASE t.todo = <<"children", "done">>
      BY <1>1, <1>2, <2>1 DEF ReadAgrees
    <2>2. CASE t.todo = <<"done">>
      <3>1. Head(t.todo) = "done"
        BY <1>2, <2>2
      <3> QED BY <1>1, <2>2, <3>1 DEF ReadAgrees
    <2> QED BY <2>1, <2>2
  <1>6. TestsAgree(c)'
    BY <1>1, <1>2 DEF TestsAgree
  <1>7. TakesFree(c, t)
    BY DEF TakesFree, Agrees, LocksAgree
  <1> QED BY <1>3, <1>4, <1>5, <1>6, <1>7, StatementKeeps DEF Agrees

\* get: the parent row and then its receipts, or one document.
LEMMA ReadKeeps ==
  ASSUME SqlInvariant, NEW c \in Clients, Read(c)
  PROVE  SqlInvariant'
  <1> DEFINE o == tx[c]
  <1>1. UNCHANGED Stored /\ tx \in [Clients -> {Idle} \union Transaction]
    BY DEF Read, SqlInvariant, Types
  <1>2. ASSUME NEW s \in {"share", "children", "document"}, At(c, s)
        PROVE  /\ o \in Transaction /\ Head(o.todo) = s /\ Agrees(c) /\ o.op = "get"
               /\ o.todo \in Reading \union Writing \union Admitting
               /\ o.proposal \in Proposals /\ rows[o.proposal] \in Row /\ receipts[o.proposal] \in Nat
               /\ Whole(rows[o.proposal], receipts[o.proposal])
    <2>1. o \in Transaction /\ Head(o.todo) = s /\ Agrees(c)
      BY <1>2, InTransaction
    <2>2. o.op \in Ops /\ o.proposal \in Proposals /\ o.todo \in Reading \union Writing \union Admitting
      BY <2>1 DEF Transaction
    <2>3. o.op = "get"
      BY <2>1, <2>2, PlanOfOperation DEF Agrees, PlanAgrees, Ops
    <2> QED BY <2>1, <2>2, <2>3 DEF SqlInvariant, Types, TablesAgree
  <1>3. CASE At(c, "share") /\ ReadsParent(c)
    <2>1. /\ o \in Transaction /\ Head(o.todo) = "share" /\ Agrees(c) /\ o.op = "get"
          /\ o.todo \in Reading \union Writing \union Admitting
          /\ o.proposal \in Proposals /\ rows[o.proposal] \in Row
      BY <1>2, <1>3
    <2>2. Tail(o.todo) = <<"children", "done">> /\ backend = "postgres"
      BY <2>1, AtStatement, Plans DEF Agrees, PlanAgrees
    <2>3. PICK t : t = [o EXCEPT !.todo = Tail(o.todo), !.read = rows[o.proposal], !.shares = {o.proposal}]
      OBVIOUS
    <2>4. /\ t \in Transaction /\ t.op = o.op /\ t.proposal = o.proposal /\ t.target = o.target
          /\ t.locks = o.locks /\ t.todo = <<"children", "done">> /\ t.shares = {o.proposal}
          /\ t.read = rows[o.proposal]
      BY <2>1, <2>2, <2>3 DEF Transaction, Reading
    <2>5. tx' = [tx EXCEPT ![c] = t]
      BY <1>1, <1>3, <2>3 DEF ReadsParent
    <2>6. \A d \in Clients : d # c => t.shares \intersect tx[d].locks = {}
      BY <1>3, <2>4 DEF ReadsParent, Unlocked
    <2>7. t.todo # <<"done">>
      BY <2>4, Plans
    <2> HIDE DEF o
    <2> QED BY <1>1, <2>1, <2>2, <2>4, <2>5, <2>6, <2>7, ReadGoesOn DEF o
  <1>4. CASE /\ At(c, "children")
             /\ tx' = [tx EXCEPT ![c].todo = Tail(@), ![c].had = receipts[tx[c].proposal]]
    <2>1. /\ o \in Transaction /\ Head(o.todo) = "children" /\ Agrees(c) /\ o.op = "get"
          /\ o.todo \in Reading \union Writing \union Admitting
          /\ o.proposal \in Proposals /\ receipts[o.proposal] \in Nat
          /\ Whole(rows[o.proposal], receipts[o.proposal])
      BY <1>2, <1>4
    <2>2. Tail(o.todo) = <<"done">> /\ o.read = rows[o.proposal]
      BY <2>1, AtStatement, Plans DEF Agrees, ReadAgrees
    <2>3. PICK t : t = [o EXCEPT !.todo = Tail(o.todo), !.had = receipts[o.proposal]]
      OBVIOUS
    <2>4. /\ t \in Transaction /\ t.op = o.op /\ t.proposal = o.proposal /\ t.target = o.target
          /\ t.locks = o.locks /\ t.todo = <<"done">> /\ t.shares = o.shares
          /\ t.read = o.read /\ t.had = receipts[o.proposal]
      BY <2>1, <2>2, <2>3 DEF Transaction, Reading
    <2>5. tx' = [tx EXCEPT ![c] = t]
      BY <1>1, <1>4, <2>3
    <2>6. \A d \in Clients : d # c => t.shares \intersect tx[d].locks = {}
      BY <2>4 DEF SqlInvariant, Exclusive
    <2>7. t.todo # <<"children", "done">>
      BY <2>4, Plans
    <2>8. Whole(t.read, t.had)
      BY <2>1, <2>2, <2>4
    <2> HIDE DEF o
    <2> QED BY <1>1, <2>1, <2>4, <2>5, <2>6, <2>7, <2>8, ReadGoesOn DEF o
  <1>5. CASE At(c, "document") /\ IF backend = "mysql" THEN MySQLLoad(c) ELSE SQLiteLoad(c)
    <2>1. /\ o \in Transaction /\ Head(o.todo) = "document" /\ Agrees(c) /\ o.op = "get"
          /\ o.todo \in Reading \union Writing \union Admitting
          /\ o.proposal \in Proposals /\ rows[o.proposal] \in Row /\ receipts[o.proposal] \in Nat
          /\ Whole(rows[o.proposal], receipts[o.proposal])
      BY <1>2, <1>5
    <2>2. Tail(o.todo) = <<"done">>
      BY <2>1, AtStatement, Plans
    <2>3. PICK t : t = [o EXCEPT !.todo = Tail(o.todo), !.read = rows[o.proposal], !.had = receipts[o.proposal]]
      OBVIOUS
    <2>4. /\ t \in Transaction /\ t.op = o.op /\ t.proposal = o.proposal /\ t.target = o.target
          /\ t.locks = o.locks /\ t.todo = <<"done">> /\ t.shares = o.shares
          /\ t.read = rows[o.proposal] /\ t.had = receipts[o.proposal]
      BY <2>1, <2>2, <2>3 DEF Transaction, Reading
    <2>5. tx' = [tx EXCEPT ![c] = t]
      BY <1>1, <1>5, <2>3 DEF MySQLLoad, SQLiteLoad
    <2>6. \A d \in Clients : d # c => t.shares \intersect tx[d].locks = {}
      BY <2>4 DEF SqlInvariant, Exclusive
    <2>7. t.todo # <<"children", "done">>
      BY <2>4, Plans
    <2>8. Whole(t.read, t.had)
      BY <2>1, <2>4
    <2> HIDE DEF o
    <2> QED BY <1>1, <2>1, <2>4, <2>5, <2>6, <2>7, <2>8, ReadGoesOn DEF o
  <1>6. CASE At(c, "done") /\ RollBack(c)
    BY <1>1, <1>6, RollBackKeeps
  <1> QED BY <1>3, <1>4, <1>5, <1>6 DEF Read

-----------------------------------------------------------------------------
(* Tests and claims under the locks *)

\* A write that has its row goes on to one of its later statements.
LEMMA WriterGoesOn ==
  ASSUME SqlInvariant, NEW c \in Clients, NEW t \in Transaction, tx[c] \in Transaction, Agrees(c),
         tx' = [tx EXCEPT ![c] = t], UNCHANGED Stored, TakesFree(c, t),
         tx[c].op # "get", Head(tx[c].todo) \notin {"row", "file"},
         t.op = tx[c].op, t.proposal = tx[c].proposal, t.target = tx[c].target,
         t.read = tx[c].read, t.had = tx[c].had, t.shares = tx[c].shares,
         tx[c].locks \subseteq t.locks,
         Head(t.todo) \in {"advisory", "owner", "claim", "transfer", "commit"},
         IF t.op = "admit" THEN t.todo \in Admitting ELSE t.todo \in Writing,
         Head(t.todo) = "advisory" => backend = "postgres" /\ t.locks = {Guard(c)},
         Head(t.todo) = "transfer" => backend = "mysql" /\ "effect" \in t.locks,
         t.op = "admit" /\ backend = "postgres" /\ Head(t.todo) # "advisory" => "effect" \in t.locks,
         TestsAgree(c)'
  PROVE  SqlInvariant'
  <1>1. tx'[c] = t /\ backend' = backend /\ rows' = rows /\ receipts' = receipts
    BY DEF SqlInvariant, Types, Stored
  <1>2. Guard(c)' = Guard(c) /\ t.op \in Ops
    BY <1>1 DEF Guard, Transaction
  <1>3. PlanAgrees(c)'
    BY <1>1, <1>2 DEF Agrees, PlanAgrees, Ops
  <1>4. LocksAgree(c)'
    BY <1>1, <1>2 DEF Agrees, LocksAgree
  <1>5. Head(tx[c].todo) # "children"
    BY PlanOfOperation DEF Agrees, PlanAgrees, Transaction, Ops
  <1>6. ReadAgrees(c)'
    BY <1>1, <1>5 DEF Agrees, ReadAgrees, Whole
  <1> QED BY <1>3, <1>4, <1>6, StatementKeeps DEF Agrees

\* A transaction keeps its locks.
LEMMA SameLocksAreExclusive ==
  ASSUME SqlInvariant, NEW c \in Clients, NEW t, t.locks = tx[c].locks, t.shares = tx[c].shares
  PROVE  TakesFree(c, t)
  BY DEF TakesFree, SqlInvariant, Exclusive

\* What a test depends on.
LEMMA SamePermission ==
  ASSUME NEW c, UNCHANGED Stored, tx'[c].op = tx[c].op, tx'[c].proposal = tx[c].proposal,
         tx'[c].target = tx[c].target, tx'[c].read = tx[c].read
  PROVE  Permitted(c)' <=> Permitted(c)
  BY DEF Permitted, MaySet, MayAdmit, MayMark, MayComplete, Stored

\* The tests on the locked row.
LEMMA CheckKeeps ==
  ASSUME SqlInvariant, NEW c \in Clients, Check(c)
  PROVE  SqlInvariant'
  <1> DEFINE o == tx[c]
  <1>1. UNCHANGED Stored /\ tx \in [Clients -> {Idle} \union Transaction]
    BY DEF Check, SqlInvariant, Types
  <1>2. CASE RollBack(c)
    BY <1>1, <1>2, RollBackKeeps
  <1>3. CASE Permitted(c) /\ Proceed(c)
    <2>1. o \in Transaction /\ Head(o.todo) = "check" /\ Agrees(c)
      BY InTransaction DEF Check
    <2>2. o.op \in Ops /\ o.todo \in Reading \union Writing \union Admitting
      BY <2>1 DEF Transaction
    <2>3. o.op # "get"
      BY <2>1, PlanOfOperation DEF Agrees, PlanAgrees
    <2>4. /\ o.op # "admit" => Tail(o.todo) = <<"commit">>
          /\ o.op = "admit" => Tail(o.todo) = IF backend = "postgres"
                                              THEN <<"advisory", "owner", "claim", "commit">>
                                              ELSE <<"owner", "claim", "commit">>
      <3>1. CASE o.op # "admit"
        <4>1. o.todo \in Writing
          BY <2>1, <2>2, <2>3, <3>1 DEF Agrees, PlanAgrees, Ops
        <4>2. o.todo = <<"check", "commit">>
          BY <2>1, <4>1, Plans DEF Writing
        <4> QED BY <3>1, <4>2, Plans
      <3>2. CASE o.op = "admit"
        <4>1. /\ o.todo \in Admitting
              /\ backend = "postgres" <=>
                   o.todo \in {<<"row", "check", "advisory", "owner", "claim", "commit">>,
                               <<"check", "advisory", "owner", "claim", "commit">>}
          BY <2>1, <3>2 DEF Agrees, PlanAgrees
        <4>2. \/ o.todo = <<"check", "advisory", "owner", "claim", "commit">>
              \/ o.todo = <<"check", "owner", "claim", "commit">>
          BY <2>1, <2>2, <4>1, AtStatement, PlanOfOperation
        <4>3. CASE o.todo = <<"check", "advisory", "owner", "claim", "commit">>
          BY <3>2, <4>1, <4>3, Plans
        <4>4. CASE o.todo = <<"check", "owner", "claim", "commit">>
          BY <3>2, <4>1, <4>4, Plans
        <4> QED BY <4>2, <4>3, <4>4
      <3> QED BY <3>1, <3>2
    <2>5. PICK t : t = [o EXCEPT !.todo = Tail(o.todo)]
      OBVIOUS
    <2>6. /\ IF o.op = "admit" THEN Tail(o.todo) \in Admitting ELSE Tail(o.todo) \in Writing
          /\ o.op # "admit" => Head(Tail(o.todo)) = "commit"
          /\ o.op = "admit" => Head(Tail(o.todo)) = IF backend = "postgres" THEN "advisory" ELSE "owner"
      <3>1. CASE o.op # "admit"
        BY <2>4, <3>1, Plans DEF Writing
      <3>2. CASE o.op = "admit"
        BY <2>4, <3>2, Plans DEF Admitting
      <3> QED BY <3>1, <3>2
    <2>7. /\ t \in Transaction /\ t.op = o.op /\ t.proposal = o.proposal /\ t.target = o.target
          /\ t.read = o.read /\ t.had = o.had /\ t.seen = o.seen
          /\ t.locks = o.locks /\ t.shares = o.shares /\ t.todo = Tail(o.todo)
      BY <2>1, <2>5, <2>6 DEF Transaction
    <2>8. tx' = [tx EXCEPT ![c] = t]
      BY <1>1, <1>3, <2>5 DEF Proceed
    <2>9. tx'[c] = t
      BY <1>1, <2>8
    <2>10. TakesFree(c, t)
      BY <2>7, SameLocksAreExclusive
    <2>11. Permitted(c)'
      BY <1>1, <1>3, <2>7, <2>9, SamePermission
    <2>12. Head(t.todo) \in {"advisory", "owner", "commit"} /\ (Head(t.todo) = "commit" => t.op # "admit")
      BY <2>6, <2>7
    <2>13. TestsAgree(c)'
      BY <2>9, <2>11, <2>12 DEF TestsAgree
    <2>14. Head(t.todo) = "advisory" => backend = "postgres" /\ t.locks = {Guard(c)}
      BY <2>1, <2>6, <2>7 DEF Agrees, LocksAgree
    <2>15. t.op = "admit" /\ backend = "postgres" => Head(t.todo) = "advisory"
      BY <2>6, <2>7
    <2> HIDE DEF o
    <2> QED BY <1>1, <2>1, <2>3, <2>6, <2>7, <2>8, <2>10, <2>12, <2>13, <2>14, <2>15, WriterGoesOn DEF o
  <1> QED BY <1>2, <1>3 DEF Check

\* An admission at one of its last statements.
LEMMA AdmissionFields ==
  ASSUME SqlInvariant, NEW c \in Clients, NEW s \in {"owner", "claim", "transfer"}, At(c, s)
  PROVE  /\ tx[c] \in Transaction /\ Head(tx[c].todo) = s /\ Agrees(c) /\ tx[c].op = "admit"
         /\ tx[c].todo \in Reading \union Writing \union Admitting
         /\ Permitted(c) /\ tx[c].seen \in Proposals \union {NoProposal}
         /\ backend = "postgres" /\ s # "transfer" => "effect" \in tx[c].locks
         /\ tx[c].shares = {} /\ tx[c].locks \subseteq Resource /\ "effect" \in Resource
  <1>1. tx[c] \in Transaction /\ Head(tx[c].todo) = s /\ Agrees(c)
    BY InTransaction
  <1>2. /\ tx[c].op \in Ops /\ tx[c].todo \in Reading \union Writing \union Admitting
        /\ tx[c].seen \in Proposals \union {NoProposal} /\ tx[c].locks \subseteq Resource
    BY <1>1 DEF Transaction
  <1>3. tx[c].op = "admit"
    BY <1>1, <1>2, PlanOfOperation DEF Agrees, PlanAgrees, Ops
  <1> QED BY <1>1, <1>2, <1>3 DEF Agrees, TestsAgree, LocksAgree, Resource

\* _claim_owner reads who owns the effect.
LEMMA ClaimOwnerKeeps ==
  ASSUME SqlInvariant, NEW c \in Clients, ClaimOwner(c)
  PROVE  SqlInvariant'
  <1> DEFINE o == tx[c]
  <1>1. /\ UNCHANGED Stored /\ tx \in [Clients -> {Idle} \union Transaction]
        /\ owner \in Proposals \union {NoProposal}
    BY DEF ClaimOwner, SqlInvariant, Types
  <1>2. /\ o \in Transaction /\ Head(o.todo) = "owner" /\ Agrees(c) /\ o.op = "admit" /\ Permitted(c)
        /\ o.todo \in Reading \union Writing \union Admitting
        /\ backend = "postgres" => "effect" \in o.locks
    BY AdmissionFields DEF ClaimOwner
  <1>3. Tail(o.todo) = <<"claim", "commit">>
    BY <1>2, AtStatement, Plans
  <1>4. PICK t : t = [o EXCEPT !.todo = Tail(o.todo), !.seen = owner]
    OBVIOUS
  <1>5. /\ t \in Transaction /\ t.op = o.op /\ t.proposal = o.proposal /\ t.target = o.target
        /\ t.read = o.read /\ t.had = o.had /\ t.seen = owner
        /\ t.locks = o.locks /\ t.shares = o.shares /\ t.todo = <<"claim", "commit">>
    BY <1>1, <1>2, <1>3, <1>4 DEF Transaction, Admitting
  <1>6. tx' = [tx EXCEPT ![c] = t]
    BY <1>1, <1>4 DEF ClaimOwner
  <1>7. tx'[c] = t /\ owner' = owner
    BY <1>1, <1>6 DEF Stored
  <1>8. Head(t.todo) = "claim" /\ t.todo \in Admitting
    BY <1>5, Plans DEF Admitting
  <1>9. TakesFree(c, t)
    BY <1>5, SameLocksAreExclusive
  <1>10. TestsAgree(c)'
    <2>1. Permitted(c)'
      BY <1>1, <1>2, <1>5, <1>7, SamePermission
    <2> QED BY <1>5, <1>7, <1>8, <2>1 DEF TestsAgree
  <1> HIDE DEF o
  <1> QED BY <1>1, <1>2, <1>5, <1>6, <1>8, <1>9, <1>10, WriterGoesOn DEF o

\* The claim is settled: what the commit relies on.
LEMMA ClaimSettled ==
  ASSUME SqlInvariant, NEW c \in Clients, NEW s \in {"claim", "transfer"}, At(c, s),
         NEW locks \in SUBSET Resource,
         tx' = [tx EXCEPT ![c] = [tx[c] EXCEPT !.todo = Tail(tx[c].todo), !.locks = locks]],
         UNCHANGED Stored, tx[c].locks \subseteq locks,
         \A d \in Clients : d # c => locks \intersect (tx[d].locks \union tx[d].shares) = {},
         owner = tx[c].seen,
         LET moves == tx[c].seen \notin {NoProposal, tx[c].proposal}
         IN  /\ moves => rows[tx[c].seen].status \in ReleasesClaim
             /\ backend = "mysql" /\ tx[c].seen = NoProposal => "effect" \in locks
             /\ backend = "mysql" /\ moves => "effect" \in locks /\ tx[c].seen \in locks
  PROVE  SqlInvariant'
  <1> DEFINE o == tx[c]
  <1>1. tx \in [Clients -> {Idle} \union Transaction]
    BY DEF SqlInvariant, Types
  <1>2. /\ o \in Transaction /\ Head(o.todo) = s /\ Agrees(c) /\ o.op = "admit" /\ Permitted(c)
        /\ o.todo \in Reading \union Writing \union Admitting /\ o.shares = {}
        /\ s = "transfer" => backend = "mysql"
        /\ backend = "postgres" => "effect" \in o.locks
    BY AdmissionFields DEF Agrees, PlanAgrees
  <1>3. Tail(o.todo) = <<"commit">>
    BY <1>2, AtStatement, Plans
  <1>4. PICK t : t = [o EXCEPT !.todo = Tail(o.todo), !.locks = locks]
    OBVIOUS
  <1>5. /\ t \in Transaction /\ t.op = o.op /\ t.proposal = o.proposal /\ t.target = o.target
        /\ t.read = o.read /\ t.had = o.had /\ t.seen = o.seen
        /\ t.locks = locks /\ t.shares = o.shares /\ t.todo = <<"commit">>
    BY <1>2, <1>3, <1>4 DEF Transaction, Admitting
  <1>6. tx' = [tx EXCEPT ![c] = t]
    BY <1>4
  <1>7. tx'[c] = t /\ owner' = owner /\ rows' = rows /\ backend' = backend
    BY <1>1, <1>6 DEF Stored
  <1>8. Head(t.todo) = "commit" /\ t.todo \in Admitting
    BY <1>5, Plans DEF Admitting
  <1>9. TakesFree(c, t)
    BY <1>2, <1>5 DEF TakesFree
  <1>10. TestsAgree(c)'
    <2>1. Permitted(c)'
      BY <1>2, <1>5, <1>7, SamePermission
    <2> QED BY <1>5, <1>7, <1>8, <2>1 DEF TestsAgree, EndedWithoutEffect
  <1> HIDE DEF o
  <1> QED BY <1>2, <1>5, <1>6, <1>8, <1>9, <1>10, WriterGoesOn DEF o

\* Others hold nothing of what c holds, nor what is free for c.
LEMMA HeldOrFree ==
  ASSUME SqlInvariant, NEW c \in Clients, NEW r, Free(c, r)
  PROVE  \A d \in Clients : d # c =>
           (tx[c].locks \union {r}) \intersect (tx[d].locks \union tx[d].shares) = {}
  BY DEF SqlInvariant, Exclusive, Free

\* Insert, keep or transfer of the claim.
LEMMA ClaimKeeps ==
  ASSUME SqlInvariant, NEW c \in Clients, Claim(c)
  PROVE  SqlInvariant'
  <1> DEFINE o == tx[c]
  <1>1. /\ UNCHANGED Stored /\ tx \in [Clients -> {Idle} \union Transaction] /\ At(c, "claim")
        /\ backend \in {"postgres", "mysql", "sqlite"} /\ owner \in Proposals \union {NoProposal}
    BY DEF Claim, SqlInvariant, Types
  <1>2. /\ o \in Transaction /\ Head(o.todo) = "claim" /\ Agrees(c) /\ o.op = "admit" /\ Permitted(c)
        /\ o.todo \in Reading \union Writing \union Admitting /\ o.shares = {}
        /\ o.locks \subseteq Resource /\ "effect" \in Resource
        /\ o.seen \in Proposals \union {NoProposal}
        /\ backend = "postgres" => "effect" \in o.locks
    BY <1>1, AdmissionFields
  <1>3. (backend # "mysql" \/ o.seen = o.proposal) => owner = o.seen
    BY <1>2 DEF Agrees, TestsAgree
  <1>4. CASE RollBack(c)
    BY <1>1, <1>4, RollBackKeeps
  <1>5. ASSUME Proceed(c), owner = o.seen,
               o.seen \in {NoProposal, o.proposal} \/ Transferable(c),
               backend # "mysql" \/ o.seen = o.proposal, o.seen = o.proposal => o.seen # NoProposal
        PROVE  SqlInvariant'
    <2>1. tx' = [tx EXCEPT ![c] = [tx[c] EXCEPT !.todo = Tail(tx[c].todo), !.locks = tx[c].locks]]
      <3>1. [o EXCEPT !.todo = Tail(o.todo), !.locks = o.locks] = [o EXCEPT !.todo = Tail(o.todo)]
        BY <1>2 DEF Transaction
      <3> QED BY <1>1, <1>5, <3>1 DEF Proceed
    <2>2. \A d \in Clients : d # c => tx[c].locks \intersect (tx[d].locks \union tx[d].shares) = {}
      BY DEF SqlInvariant, Exclusive
    <2>3. o.seen \notin {NoProposal, o.proposal} => rows[o.seen].status \in ReleasesClaim
      BY <1>5 DEF Transferable
    <2> QED BY <1>1, <1>2, <1>5, <2>1, <2>2, <2>3, ClaimSettled
  <1>6. o.proposal # NoProposal
    BY <1>2, SqlAssumption DEF Transaction
  <1>7. CASE backend # "mysql"
    <2>1. RollBack(c) \/ (Proceed(c) /\ (o.seen \in {NoProposal, o.proposal} \/ Transferable(c)))
      BY <1>1, <1>7 DEF Claim, PostgresClaims, SQLiteClaims
    <2> QED BY <1>3, <1>4, <1>5, <1>6, <1>7, <2>1
  <1>8. CASE backend = "mysql" /\ o.seen = o.proposal /\ Proceed(c)
    BY <1>3, <1>5, <1>6, <1>8
  <1>9. CASE backend = "mysql" /\ o.seen = NoProposal /\ owner = NoProposal /\ Free(c, "effect")
               /\ Lock(c, "effect")
    <2>1. tx' = [tx EXCEPT ![c] = [tx[c] EXCEPT !.todo = Tail(tx[c].todo),
                                               !.locks = tx[c].locks \union {"effect"}]]
      BY <1>1, <1>9 DEF Lock
    <2>2. PICK locks \in SUBSET Resource : locks = o.locks \union {"effect"}
      BY <1>2
    <2>3. \A d \in Clients : d # c => locks \intersect (tx[d].locks \union tx[d].shares) = {}
      BY <1>9, <2>2, HeldOrFree
    <2>4. "effect" \in locks /\ o.locks \subseteq locks
      BY <2>2
    <2>5. tx' = [tx EXCEPT ![c] = [tx[c] EXCEPT !.todo = Tail(tx[c].todo), !.locks = locks]]
      BY <2>1, <2>2
    <2> QED BY <1>1, <1>9, <2>3, <2>4, <2>5, ClaimSettled
  <1>10. CASE backend = "mysql" /\ o.seen \notin {NoProposal, o.proposal} /\ Free(c, "effect")
                /\ LocksClaimForTransfer(c)
    <2>1. PICK t : t = [o EXCEPT !.todo = <<"transfer", "commit">>, !.locks = o.locks \union {"effect"}]
      OBVIOUS
    <2>2. /\ t \in Transaction /\ t.op = o.op /\ t.proposal = o.proposal /\ t.target = o.target
          /\ t.read = o.read /\ t.had = o.had /\ t.seen = o.seen
          /\ t.locks = o.locks \union {"effect"} /\ t.shares = o.shares
          /\ t.todo = <<"transfer", "commit">>
      BY <1>2, <2>1 DEF Transaction, Admitting
    <2>3. tx' = [tx EXCEPT ![c] = t]
      BY <1>1, <1>10, <2>1 DEF LocksClaimForTransfer
    <2>4. tx'[c] = t /\ owner' = owner
      BY <1>1, <2>3 DEF Stored
    <2>5. Head(t.todo) = "transfer" /\ t.todo \in Admitting
      BY <2>2, Plans DEF Admitting
    <2>6. TakesFree(c, t)
      BY <1>10, <2>2, FreeIsExclusive
    <2>7. TestsAgree(c)'
      <3>1. Permitted(c)'
        BY <1>1, <1>2, <2>2, <2>4, SamePermission
      <3> QED BY <1>10, <2>2, <2>4, <2>5, <3>1 DEF TestsAgree
    <2> HIDE DEF o
    <2> QED BY <1>1, <1>2, <1>10, <2>2, <2>3, <2>5, <2>6, <2>7, WriterGoesOn DEF o
  <1>11. CASE backend = "mysql"
    <2>1. MySQLClaims(c)
      BY <1>11 DEF Claim
    <2> QED BY <1>4, <1>8, <1>9, <1>10, <1>11, <2>1 DEF MySQLClaims
  <1> QED BY <1>7, <1>11

\* threvo_actions_transfer_effect_claim.
LEMMA MySQLTransferKeeps ==
  ASSUME SqlInvariant, NEW c \in Clients, MySQLTransfer(c)
  PROVE  SqlInvariant'
  <1> DEFINE o == tx[c]
  <1>1. /\ UNCHANGED Stored /\ tx \in [Clients -> {Idle} \union Transaction] /\ At(c, "transfer")
        /\ Free(c, o.seen)
    BY DEF MySQLTransfer, SqlInvariant, Types
  <1>2. /\ o \in Transaction /\ Agrees(c) /\ Head(o.todo) = "transfer"
        /\ o.locks \subseteq Resource /\ o.seen \in Proposals \union {NoProposal}
    BY <1>1, AdmissionFields
  <1>3. /\ o.seen \notin {NoProposal, o.proposal} /\ "effect" \in o.locks
    BY <1>2 DEF Agrees, TestsAgree, LocksAgree
  <1>4. CASE RollBack(c)
    BY <1>1, <1>4, RollBackKeeps
  <1>5. CASE Transferable(c) /\ Lock(c, o.seen)
    <2>1. tx' = [tx EXCEPT ![c] = [tx[c] EXCEPT !.todo = Tail(tx[c].todo),
                                               !.locks = tx[c].locks \union {tx[c].seen}]]
      BY <1>1, <1>5 DEF Lock
    <2>2. o.locks \union {o.seen} \in SUBSET Resource
      BY <1>2, <1>3 DEF Resource
    <2>3. owner = o.seen /\ rows[o.seen].status \in ReleasesClaim
      BY <1>5 DEF Transferable
    <2> QED BY <1>1, <1>3, <2>1, <2>2, <2>3, ClaimSettled, HeldOrFree
  <1> QED BY <1>4, <1>5 DEF MySQLTransfer

\* A lock failure ends the transaction or starts the admission again.
LEMMA LockFailureKeeps ==
  ASSUME SqlInvariant, NEW c \in Clients, LockFailure(c)
  PROVE  SqlInvariant'
  <1> DEFINE o == tx[c]
  <1>1. /\ UNCHANGED Stored /\ tx \in [Clients -> {Idle} \union Transaction]
        /\ backend \in {"postgres", "mysql", "sqlite"}
    BY DEF LockFailure, SqlInvariant, Types
  <1>2. CASE RollBack(c)
    BY <1>1, <1>2, RollBackKeeps
  <1>3. CASE backend = "mysql" /\ Retry(c)
    <2>1. PICK s \in {"row", "file", "claim", "transfer"} : At(c, s)
      BY DEF LockFailure
    <2>2. o \in Transaction /\ Head(o.todo) = s /\ Agrees(c) /\ o.op = "admit"
      BY <1>3, <2>1, InTransaction DEF Retry
    <2>3. PICK t : t = [o EXCEPT !.todo = Statements("admit"), !.seen = NoProposal,
                                 !.attempt = o.attempt + 1, !.locks = {}]
      OBVIOUS
    <2>4. Statements("admit") \in Admitting
      BY <1>1, StatementsOf DEF Admitting
    <2>5. /\ t \in Transaction /\ t.op = o.op /\ t.proposal = o.proposal /\ t.target = o.target
          /\ t.read = o.read /\ t.had = o.had /\ t.locks = {} /\ t.shares = o.shares
          /\ t.todo = Statements("admit")
      <3>1. o.attempt + 1 \in Nat /\ {} \in SUBSET Resource
        BY <2>2 DEF Transaction
      <3>2. Statements("admit") \in Reading \union Writing \union Admitting
        BY <2>4
      <3> HIDE DEF o
      <3> QED BY <2>2, <2>3, <3>1, <3>2 DEF Transaction
    <2>6. tx' = [tx EXCEPT ![c] = t]
      BY <1>1, <1>3, <2>3 DEF Retry
    <2>7. tx'[c] = t /\ backend' = backend /\ rows' = rows /\ receipts' = receipts
      BY <1>1, <2>6 DEF Stored
    <2>8. /\ t.shares = {} /\ t.target = "executing" /\ t.read.revision < MaxRevision
      BY <2>2, <2>5 DEF Agrees, LocksAgree, PlanAgrees
    <2>9. PlanAgrees(c)' /\ LocksAgree(c)' /\ TestsAgree(c)' /\ Head(t.todo) # "children"
      BY <1>1, <2>2, <2>5, <2>7, <2>8, BeginningAgrees
    <2>10. ReadAgrees(c)'
      <3>1. Head(o.todo) # "children"
        BY <2>2
      <3> QED BY <2>2, <2>5, <2>7, <2>9, <3>1 DEF Agrees, ReadAgrees, Whole
    <2>11. TakesFree(c, t)
      BY <2>5, <2>8 DEF TakesFree
    <2> QED BY <1>1, <2>5, <2>6, <2>9, <2>10, <2>11, StatementKeeps DEF Agrees
  <1> QED BY <1>2, <1>3 DEF LockFailure

-----------------------------------------------------------------------------
(* The commit *)

\* What the transition table says of proposals that may have the effect and of
\* those that ended without it.
LEMMA AllowedFacts ==
  ASSUME NEW s \in LifecycleStatus, NEW t \in AllowedNext(s)
  PROVE  /\ t \in MayHaveEffect /\ t # "executing" => s \in MayHaveEffect
         /\ s \in EndedWithoutEffect => t \in EndedWithoutEffect
         /\ t = "executing" => s \notin EndedWithoutEffect
  BY DEF LifecycleStatus, AllowedNext, MayHaveEffect, EndedWithoutEffect, ReleasesClaim

\* Whoever commits has the row as it is, and passed the tests on it.
LEMMA CommitReadsRow ==
  ASSUME SqlInvariant, NEW c \in Clients, At(c, "commit")
  PROVE  /\ tx[c] \in Transaction /\ Agrees(c) /\ Head(tx[c].todo) = "commit"
         /\ tx[c].op \in {"set", "admit", "mark", "complete"} /\ Permitted(c)
         /\ tx[c].proposal \in Proposals /\ rows[tx[c].proposal] \in Row
         /\ receipts[tx[c].proposal] \in Nat
         /\ tx[c].read = rows[tx[c].proposal] /\ tx[c].had = receipts[tx[c].proposal]
         /\ rows[tx[c].proposal].revision < MaxRevision
         /\ Guard(c) \in tx[c].locks
         /\ tx[c].op = "admit" => tx[c].target = "executing"
         /\ tx[c].op = "set" => tx[c].target \in AllowedNext(rows[tx[c].proposal].status)
         /\ tx[c].target \in LifecycleStatus
  <1> DEFINE o == tx[c]
  <1>1. o \in Transaction /\ Agrees(c) /\ Head(o.todo) = "commit"
    BY InTransaction
  <1>2. o.op \in Ops /\ o.proposal \in Proposals /\ o.read \in Row /\ o.target \in LifecycleStatus
    BY <1>1 DEF Transaction
  <1>3. o.op \in {"set", "admit", "mark", "complete"}
    BY <1>1, <1>2, PlanOfOperation DEF Agrees, PlanAgrees, Ops
  <1>4. Permitted(c) /\ Guard(c) \in o.locks
    BY <1>1, <1>3 DEF Agrees, TestsAgree, LocksAgree
  <1>5. rows[o.proposal] \in Row /\ receipts[o.proposal] \in Nat
    BY <1>2 DEF SqlInvariant, Types
  <1>6. rows[o.proposal].revision = o.read.revision
    BY <1>3, <1>4 DEF Permitted, MaySet, MayAdmit, MayMark, MayComplete
  <1>7. rows[o.proposal].revision \in Int /\ o.read.revision \in Int
    BY <1>2, <1>5 DEF Row
  <1>8. o.read = rows[o.proposal] /\ o.had = receipts[o.proposal]
    BY <1>1, <1>3, <1>6, <1>7 DEF Agrees, ReadAgrees
  <1>9. /\ o.read.revision < MaxRevision
        /\ o.op = "admit" => o.target = "executing"
        /\ o.op = "set" => o.target \in AllowedNext(o.read.status)
    BY <1>1, <1>3 DEF Agrees, PlanAgrees
  <1> HIDE DEF o
  <1> QED BY <1>1, <1>2, <1>3, <1>4, <1>5, <1>8, <1>9 DEF o

\* The row and the number of receipts that a commit stores, per operation.
LEMMA CommitStores ==
  ASSUME SqlInvariant, NEW c \in Clients, At(c, "commit"),
         NEW p \in Proposals, p = tx[c].proposal
  PROVE  /\ UpdatedRow(c) \in Row /\ InsertChildren(c) \in Nat
         /\ UpdatedRow(c).revision = rows[p].revision + 1
         /\ Whole(UpdatedRow(c), InsertChildren(c))
         /\ tx[c].op \in {"set", "admit"} =>
              /\ UpdatedRow(c) = [rows[p] EXCEPT !.status = tx[c].target, !.revision = @ + 1]
              /\ UpdatedRow(c).status = tx[c].target
              /\ InsertChildren(c) = receipts[p] + 1
         /\ tx[c].op = "mark" =>
              /\ UpdatedRow(c) = [rows[p] EXCEPT !.erasure = "pending", !.revision = @ + 1]
              /\ UpdatedRow(c).status = rows[p].status
              /\ InsertChildren(c) = receipts[p]
         /\ tx[c].op = "complete" =>
              /\ UpdatedRow(c) = [rows[p] EXCEPT !.erasure = "erased", !.revision = @ + 1]
              /\ UpdatedRow(c).status = rows[p].status
              /\ InsertChildren(c) = 0
  <1> DEFINE o == tx[c]
             row == rows[p]
             n == receipts[p]
  <1>1. /\ o.op \in {"set", "admit", "mark", "complete"} /\ Permitted(c)
        /\ row \in Row /\ n \in Nat /\ o.read = row /\ o.had = n /\ row.revision < MaxRevision
        /\ o.target \in LifecycleStatus
    BY CommitReadsRow
  <1>2. Whole(row, n)
    BY DEF SqlInvariant, TablesAgree
  <1>3. row.revision \in Nat /\ row.revision + 1 \in 0..MaxRevision
    BY <1>1, SqlAssumption DEF Row
  <1>4. CASE o.op \in {"set", "admit"}
    <2>1. row.erasure # "erased"
      BY <1>1, <1>4 DEF Permitted, MaySet, MayAdmit
    <2>2. UpdatedRow(c) = [row EXCEPT !.status = o.target, !.revision = row.revision + 1]
      BY <1>1, <1>4 DEF UpdatedRow
    <2>3. InsertChildren(c) = n + 1
      BY <1>1, <1>4 DEF InsertChildren
    <2>4. PICK r : r = UpdatedRow(c)
      OBVIOUS
    <2>5. /\ r \in Row /\ r.status = o.target /\ r.revision = row.revision + 1
          /\ r.erasure = row.erasure
      BY <1>1, <1>3, <2>2, <2>4 DEF Row
    <2>6. Whole(r, n + 1)
      BY <1>1, <1>2, <1>3, <2>1, <2>5 DEF Whole
    <2> QED BY <1>1, <1>4, <2>2, <2>3, <2>4, <2>5, <2>6
  <1>5. CASE o.op = "mark"
    <2>1. row.erasure = "none"
      BY <1>1, <1>5 DEF Permitted, MayMark
    <2>2. UpdatedRow(c) = [row EXCEPT !.erasure = "pending", !.revision = row.revision + 1]
      BY <1>1, <1>5 DEF UpdatedRow
    <2>3. InsertChildren(c) = n
      BY <1>1, <1>5 DEF InsertChildren
    <2>4. PICK r : r = UpdatedRow(c)
      OBVIOUS
    <2>5. /\ r \in Row /\ r.status = row.status /\ r.revision = row.revision + 1
          /\ r.erasure = "pending"
      BY <1>1, <1>3, <2>2, <2>4 DEF Row
    <2>6. Whole(r, n)
      BY <1>1, <1>2, <1>3, <2>1, <2>5 DEF Whole
    <2> QED BY <1>1, <1>5, <2>2, <2>3, <2>4, <2>5, <2>6
  <1>6. CASE o.op = "complete"
    <2>2. UpdatedRow(c) = [row EXCEPT !.erasure = "erased", !.revision = row.revision + 1]
      BY <1>1, <1>6 DEF UpdatedRow
    <2>3. InsertChildren(c) = 0
      BY <1>1, <1>6 DEF InsertChildren
    <2>4. PICK r : r = UpdatedRow(c)
      OBVIOUS
    <2>5. /\ r \in Row /\ r.status = row.status /\ r.revision = row.revision + 1
          /\ r.erasure = "erased"
      BY <1>1, <1>3, <2>2, <2>4 DEF Row
    <2>6. Whole(r, 0)
      BY <2>5 DEF Whole
    <2> QED BY <1>6, <2>2, <2>3, <2>4, <2>5, <2>6
  <1> QED BY <1>1, <1>4, <1>5, <1>6

\* While c commits, no other transaction has the same row locked; on SQLite
\* none has begun to write.
LEMMA CommitIsAlone ==
  ASSUME SqlInvariant, NEW c \in Clients, At(c, "commit"),
         NEW d \in Clients, d # c, tx[d] \in Transaction, Agrees(d)
  PROVE  /\ tx[d].op # "get" /\ Head(tx[d].todo) \notin {"row", "file"} =>
              backend # "sqlite" /\ tx[d].proposal # tx[c].proposal
         /\ Head(tx[d].todo) = "children" => tx[d].proposal # tx[c].proposal
         /\ \A r : ~(r \in tx[c].locks /\ r \in tx[d].locks)
  <1>1. Guard(c) \in tx[c].locks
    BY CommitReadsRow
  <1>2. tx[c].locks \intersect (tx[d].locks \union tx[d].shares) = {}
    BY DEF SqlInvariant, Exclusive
  <1>3. tx[d].op # "get" /\ Head(tx[d].todo) \notin {"row", "file"} => Guard(d) \in tx[d].locks
    BY DEF Agrees, LocksAgree
  <1>4. Head(tx[d].todo) = "children" => tx[d].shares = {tx[d].proposal} /\ backend = "postgres"
    BY DEF Agrees, LocksAgree, PlanAgrees
  <1> QED BY <1>1, <1>2, <1>3, <1>4 DEF Guard

\* The admission that commits takes the claim from nobody who may have the
\* effect.
LEMMA AdmissionTakesClaim ==
  ASSUME SqlInvariant, NEW c \in Clients, At(c, "commit"), tx[c].op = "admit"
  PROVE  /\ owner = tx[c].seen
         /\ owner \in {NoProposal, tx[c].proposal} \/ rows[owner].status \in EndedWithoutEffect
         /\ backend = "postgres" => "effect" \in tx[c].locks
         /\ backend = "mysql" /\ owner = NoProposal => "effect" \in tx[c].locks
         /\ backend = "mysql" /\ owner \notin {NoProposal, tx[c].proposal} =>
              "effect" \in tx[c].locks /\ owner \in tx[c].locks
  BY CommitReadsRow DEF Agrees, TestsAgree, LocksAgree

\* The tests that another transaction passed stay true when c commits.
LEMMA CommitKeepsTests ==
  ASSUME SqlInvariant, NEW c \in Clients, Commit(c),
         NEW d \in Clients, d # c, tx[d] \in Transaction, Agrees(d), tx'[d] = tx[d]
  PROVE  TestsAgree(d)'
  <1> DEFINE o == tx[c]
             t == tx[d]
             h == Head(t.todo)
  <1>1. /\ At(c, "commit") /\ backend' = backend
        /\ rows \in [Proposals -> Row] /\ owner \in Proposals \union {NoProposal}
        /\ rows' = [rows EXCEPT ![o.proposal] = UpdatedRow(c)]
        /\ owner' = IF o.op = "admit" THEN o.proposal ELSE owner
    BY DEF Commit, SqlInvariant, Types
  <1>2. /\ o.op \in {"set", "admit", "mark", "complete"} /\ o.proposal \in Proposals
        /\ rows[o.proposal] \in Row
        /\ o.op = "set" => o.target \in AllowedNext(rows[o.proposal].status)
        /\ o.op = "admit" => o.target = "executing"
        /\ Permitted(c)
    BY <1>1, CommitReadsRow
  <1>3. /\ t.op \in Ops /\ t.proposal \in Proposals /\ t.seen \in Proposals \union {NoProposal}
        /\ t.proposal # NoProposal /\ t.todo \in Reading \union Writing \union Admitting
    BY SqlAssumption DEF Transaction
  <1>4. /\ t.op # "get" /\ h \notin {"row", "file"} =>
             backend # "sqlite" /\ t.proposal # o.proposal /\ rows'[t.proposal] = rows[t.proposal]
        /\ \A r : ~(r \in o.locks /\ r \in t.locks)
    BY <1>1, <1>2, <1>3, CommitIsAlone
  <1>5. UpdatedRow(c).status \in {rows[o.proposal].status} \union
             (IF o.op \in {"set", "admit"} THEN {o.target} ELSE {})
    BY <1>1, <1>2, CommitStores
  <1>6. ASSUME t.op # "get", h \notin {"row", "file", "check"}
        PROVE  Permitted(d)'
    <2>1. Permitted(d) /\ rows'[t.proposal] = rows[t.proposal]
      BY <1>4, <1>6 DEF Agrees, TestsAgree
    <2>2. CASE t.op # "set"
      BY <1>3, <1>6, <2>1, <2>2 DEF Permitted, MaySet, MayAdmit, MayMark, MayComplete, Ops
    <2>3. CASE t.op = "set"
      <3>1. MaySet(d) /\ t.target \in AllowedNext(rows[t.proposal].status)
            /\ rows[t.proposal].status \in LifecycleStatus
        BY <1>1, <1>3, <2>1, <2>3 DEF Permitted, MaySet, Agrees, PlanAgrees, Row
      <3>2. t.target = "executing" => owner' = t.proposal
        <4>1. CASE t.target = "executing" /\ o.op = "admit"
          <5>1. owner = t.proposal /\ rows[t.proposal].status \notin EndedWithoutEffect
            BY <3>1, <4>1, AllowedFacts DEF MaySet
          <5>2. owner = o.proposal
            BY <1>1, <1>3, <4>1, <5>1, AdmissionTakesClaim
          <5> QED BY <1>1, <4>1, <5>1, <5>2
        <4>2. CASE o.op # "admit"
          BY <1>1, <3>1, <4>2 DEF MaySet
        <4> QED BY <4>1, <4>2
      <3> QED BY <2>1, <2>3, <3>1, <3>2 DEF Permitted, MaySet
    <2> QED BY <2>2, <2>3
  <1>7. h \in {"claim", "transfer"} => t.op = "admit"
    BY <1>3, PlanOfOperation DEF Agrees, PlanAgrees, Ops
  <1>8. ASSUME h = "claim", backend # "mysql" \/ t.seen = t.proposal
        PROVE  owner' = t.seen
    <2>1. owner = t.seen /\ t.op = "admit" /\ backend # "sqlite" /\ t.proposal # o.proposal
      BY <1>4, <1>7, <1>8 DEF Agrees, TestsAgree
    <2>2. CASE o.op # "admit"
      BY <1>1, <2>1, <2>2
    <2>3. CASE o.op = "admit" /\ backend = "postgres"
      <3>1. "effect" \in o.locks /\ "effect" \in t.locks
        BY <1>1, <1>8, <2>1, <2>3, AdmissionTakesClaim DEF Agrees, LocksAgree
      <3> QED BY <1>4, <3>1
    <2>4. CASE o.op = "admit" /\ backend = "mysql"
      <3>1. t.proposal \in t.locks
        BY <1>8, <2>1, <2>4 DEF Agrees, LocksAgree, Guard
      <3>2. t.proposal \in o.locks
        BY <1>1, <1>3, <1>8, <2>1, <2>4, AdmissionTakesClaim
      <3> QED BY <1>4, <3>1, <3>2
    <2> QED BY <2>1, <2>2, <2>3, <2>4 DEF SqlInvariant, Types
  <1>9. ASSUME h = "commit", t.op = "admit"
        PROVE  /\ owner' = t.seen
               /\ t.seen \notin {NoProposal, t.proposal} => rows'[t.seen].status \in EndedWithoutEffect
    <2>1. /\ owner = t.seen
          /\ t.seen \notin {NoProposal, t.proposal} => rows[t.seen].status \in EndedWithoutEffect
          /\ backend = "mysql" /\ t.seen = NoProposal => "effect" \in t.locks
          /\ backend = "mysql" /\ t.seen \notin {NoProposal, t.proposal} =>
                "effect" \in t.locks /\ t.seen \in t.locks
          /\ backend = "postgres" => "effect" \in t.locks
          /\ backend # "sqlite" /\ t.proposal # o.proposal /\ t.proposal \in t.locks
      BY <1>4, <1>9 DEF Agrees, TestsAgree, LocksAgree, Guard
    <2>2. CASE o.op # "admit"
      <3>1. owner' = t.seen
        BY <1>1, <2>1, <2>2
      <3>2. ASSUME t.seen \notin {NoProposal, t.proposal}
            PROVE  rows'[t.seen].status \in EndedWithoutEffect
        <4>1. t.seen \in Proposals /\ rows[t.seen].status \in EndedWithoutEffect
          BY <1>3, <2>1, <3>2
        <4>2. CASE t.seen # o.proposal
          BY <1>1, <1>2, <4>1, <4>2
        <4>3. CASE t.seen = o.proposal
          <5>1. rows'[t.seen] = UpdatedRow(c) /\ rows[o.proposal].status \in LifecycleStatus
            BY <1>1, <1>2, <4>3 DEF Row
          <5>2. o.op = "set" => o.target \in EndedWithoutEffect
            BY <1>2, <4>1, <4>3, <5>1, AllowedFacts
          <5> QED BY <1>5, <2>2, <4>1, <4>3, <5>1, <5>2
        <4> QED BY <4>2, <4>3
      <3> QED BY <3>1, <3>2
    <2>3. CASE o.op = "admit" /\ backend = "postgres"
      <3>1. "effect" \in o.locks
        BY <1>1, <2>3, AdmissionTakesClaim
      <3> QED BY <1>4, <2>1, <2>3, <3>1
    <2>4. CASE o.op = "admit" /\ backend = "mysql"
      <3>1. /\ owner = NoProposal => "effect" \in o.locks
            /\ owner \notin {NoProposal, o.proposal} => "effect" \in o.locks /\ owner \in o.locks
            /\ o.proposal \in o.locks
        BY <1>1, <2>4, AdmissionTakesClaim, CommitReadsRow DEF Guard
      <3> QED BY <1>1, <1>3, <1>4, <2>1, <2>4, <3>1
    <2> QED BY <2>1, <2>2, <2>3, <2>4 DEF SqlInvariant, Types
  <1>10. tx'[d] = t /\ backend' = backend
    BY <1>1
  <1>11. /\ h = "transfer" => t.seen \notin {NoProposal, t.proposal}
         /\ h = "commit" /\ t.op = "admit" =>
              /\ backend = "mysql" /\ t.seen = NoProposal => "effect" \in t.locks
              /\ backend = "mysql" /\ t.seen \notin {NoProposal, t.proposal} =>
                    "effect" \in t.locks /\ t.seen \in t.locks
    BY DEF Agrees, TestsAgree
  <1> QED BY <1>6, <1>8, <1>9, <1>10, <1>11 DEF TestsAgree

\* _update_parent and commit.
LEMMA CommitKeeps ==
  ASSUME SqlInvariant, NEW c \in Clients, Commit(c)
  PROVE  SqlInvariant'
  <1> DEFINE o == tx[c]
  <1>1. /\ At(c, "commit") /\ backend' = backend /\ backend \in {"postgres", "mysql", "sqlite"}
        /\ rows \in [Proposals -> Row] /\ receipts \in [Proposals -> Nat]
        /\ owner \in Proposals \union {NoProposal} /\ tx \in [Clients -> {Idle} \union Transaction]
        /\ rows' = [rows EXCEPT ![o.proposal] = UpdatedRow(c)]
        /\ receipts' = [receipts EXCEPT ![o.proposal] = InsertChildren(c)]
        /\ owner' = IF o.op = "admit" THEN o.proposal ELSE owner
        /\ tx' = [tx EXCEPT ![c] = Idle]
    BY DEF Commit, RollBack, SqlInvariant, Types
  <1>2. /\ o.op \in {"set", "admit", "mark", "complete"} /\ o.proposal \in Proposals
        /\ rows[o.proposal] \in Row /\ Permitted(c)
        /\ o.op = "set" => o.target \in AllowedNext(rows[o.proposal].status)
        /\ o.op = "admit" => o.target = "executing"
    BY <1>1, CommitReadsRow
  <1>3. PICK p \in Proposals : p = o.proposal
    BY <1>2
  <1>4. /\ UpdatedRow(c) \in Row /\ InsertChildren(c) \in Nat
        /\ UpdatedRow(c).revision = rows[p].revision + 1
        /\ Whole(UpdatedRow(c), InsertChildren(c))
        /\ o.op \in {"set", "admit"} => UpdatedRow(c).status = o.target
        /\ o.op \in {"mark", "complete"} => UpdatedRow(c).status = rows[p].status
    <2>1. At(c, "commit")
      BY <1>1
    <2> HIDE DEF o
    <2> QED BY <1>3, <2>1, CommitStores DEF o
  <1>5. PICK r \in Row, n \in Nat : r = UpdatedRow(c) /\ n = InsertChildren(c)
    BY <1>4
  <1>6. /\ rows' \in [Proposals -> Row] /\ rows'[p] = r
        /\ receipts' \in [Proposals -> Nat] /\ receipts'[p] = n
        /\ \A q \in Proposals : q # p => rows'[q] = rows[q] /\ receipts'[q] = receipts[q]
        /\ tx' \in [Clients -> {Idle} \union Transaction] /\ tx'[c] = Idle
        /\ \A d \in Clients : d # c => tx'[d] = tx[d]
        /\ owner' \in Proposals \union {NoProposal}
    BY <1>1, <1>3, <1>5
  <1>7. Types'
    BY <1>1, <1>6 DEF Types
  <1>8. TablesAgree'
    <2> SUFFICES ASSUME NEW q \in Proposals
                 PROVE  /\ Whole(rows'[q], receipts'[q])
                        /\ rows'[q].status \in MayHaveEffect => owner' = q
      BY DEF TablesAgree, Whole
    <2>1. /\ Whole(rows[q], receipts[q]) /\ (rows[q].status \in MayHaveEffect => owner = q)
          /\ q # NoProposal /\ rows[q].status \in LifecycleStatus
      BY <1>1, SqlAssumption DEF SqlInvariant, TablesAgree, Row
    <2>2. CASE q # p
      <3>1. ASSUME o.op = "admit", rows[q].status \in MayHaveEffect
            PROVE  FALSE
        <4>1. owner = q /\ rows[owner].status \in EndedWithoutEffect
          BY <1>1, <1>3, <2>1, <2>2, <3>1, AdmissionTakesClaim
        <4> QED BY <3>1, <4>1 DEF MayHaveEffect, EndedWithoutEffect, ReleasesClaim
      <3> QED BY <1>1, <1>6, <2>1, <2>2, <3>1
    <2>3. CASE q = p
      <3>1. Whole(r, n)
        BY <1>4, <1>5
      <3>2. CASE o.op = "admit"
        BY <1>1, <1>3, <1>6, <2>3, <3>1, <3>2
      <3>3. CASE o.op = "set"
        <4>1. MaySet(c)
          BY <1>2, <3>3 DEF Permitted
        <4>2. o.target = "executing" => owner = p
          BY <1>3, <4>1 DEF MaySet
        <4>3. o.target \in MayHaveEffect => owner = p
          BY <1>2, <1>3, <2>1, <2>3, <3>3, <4>2, AllowedFacts
        <4> QED BY <1>1, <1>4, <1>5, <1>6, <2>3, <3>1, <3>3, <4>3
      <3>4. CASE o.op \in {"mark", "complete"}
        BY <1>1, <1>4, <1>5, <1>6, <2>1, <2>3, <3>1, <3>4
      <3> QED BY <1>2, <3>2, <3>3, <3>4
    <2> QED BY <2>2, <2>3
  <1>9. Exclusive'
    <2>1. Idle.locks = {} /\ Idle.shares = {}
      BY DEF Idle
    <2> QED BY <1>6, <2>1 DEF SqlInvariant, Exclusive
  <1>10. ASSUME NEW d \in Clients, tx'[d] # Idle
         PROVE  Agrees(d)'
    <2>1. d # c /\ tx'[d] = tx[d]
      BY <1>6, <1>10
    <2>2. tx[d] \in Transaction /\ Agrees(d)
      BY <1>1, <1>10, <2>1 DEF SqlInvariant
    <2>3. TestsAgree(d)'
      BY <2>1, <2>2, CommitKeepsTests
    <2>4. PlanAgrees(d)'
      BY <1>1, <2>1, <2>2 DEF Agrees, PlanAgrees
    <2>5. LocksAgree(d)'
      BY <1>1, <2>1, <2>2 DEF Agrees, LocksAgree, Guard
    <2>6. ReadAgrees(d)'
      <3>1. /\ tx[d].proposal \in Proposals /\ tx[d].read \in Row
            /\ tx[d].read.revision \in Int /\ rows[p].revision \in Int
        BY <1>1, <2>2 DEF Transaction, Row
      <3>2. CASE tx[d].proposal # p
        BY <1>6, <2>1, <2>2, <3>1, <3>2 DEF Agrees, ReadAgrees, Whole
      <3>3. CASE tx[d].proposal = p
        <4>1. Head(tx[d].todo) # "children"
          BY <1>1, <1>3, <2>1, <2>2, <3>3, CommitIsAlone
        <4>2. tx[d].op # "get" => tx[d].read.revision <= rows[p].revision
          BY <2>2, <3>1, <3>3 DEF Agrees, ReadAgrees
        <4>3. rows'[p].revision = rows[p].revision + 1
          BY <1>4, <1>5, <1>6
        <4>4. tx[d].op # "get" => tx[d].read.revision < rows'[p].revision
          BY <3>1, <4>2, <4>3
        <4> QED BY <2>1, <2>2, <3>3, <4>1, <4>4 DEF Agrees, ReadAgrees, Whole
      <3> QED BY <3>2, <3>3
    <2> QED BY <2>3, <2>4, <2>5, <2>6 DEF Agrees
  <1> QED BY <1>7, <1>8, <1>9, <1>10 DEF SqlInvariant

-----------------------------------------------------------------------------
(* Theorems *)

\* Tables of approved rows that nobody uses.
LEMMA InitEstablishes == Init => SqlInvariant
  <1> SUFFICES ASSUME Init PROVE SqlInvariant
    OBVIOUS
  <1> DEFINE approved == [status |-> "authorized", revision |-> 0, erasure |-> "none"]
  <1>1. /\ approved \in Row /\ approved.status = "authorized" /\ approved.revision = 0
        /\ approved.erasure = "none"
    BY SqlAssumption DEF Row, LifecycleStatus
  <1>2. \A p \in Proposals : rows[p] = approved /\ receipts[p] = 0
    BY DEF Init
  <1>3. rows \in [Proposals -> Row] /\ receipts \in [Proposals -> Nat]
    BY <1>1 DEF Init
  <1> HIDE DEF approved
  <1>4. tx \in [Clients -> {Idle} \union Transaction] /\ \A c \in Clients : tx[c] = Idle
    BY DEF Init
  <1>5. Types
    BY <1>3, <1>4 DEF Init, Types
  <1>6. TablesAgree
    BY <1>1, <1>2 DEF TablesAgree, Whole, MayHaveEffect
  <1>7. Exclusive
    BY <1>4 DEF Exclusive, Idle
  <1> QED BY <1>4, <1>5, <1>6, <1>7 DEF SqlInvariant

\* One case per statement.
LEMMA NextKeeps == SqlInvariant /\ [Next]_vars => SqlInvariant'
  <1> SUFFICES ASSUME SqlInvariant, [Next]_vars PROVE SqlInvariant'
    OBVIOUS
  <1>1. ASSUME NEW c \in Clients, NEW p \in Proposals, NEW op \in Ops, NEW target \in LifecycleStatus,
               Call(c, p, op, target)
        PROVE  SqlInvariant'
    BY <1>1, CallKeeps
  <1>2. ASSUME NEW c \in Clients, Step(c)
        PROVE  SqlInvariant'
    BY <1>2, TakeLockKeeps, ReadKeeps, CheckKeeps, ClaimOwnerKeeps, ClaimKeeps, MySQLTransferKeeps,
       CommitKeeps DEF Step
  <1>3. ASSUME NEW c \in Clients, LockFailure(c)
        PROVE  SqlInvariant'
    BY <1>3, LockFailureKeeps
  <1>4. ASSUME NEW c \in Clients, Crash(c)
        PROVE  SqlInvariant'
    BY <1>4, RollBackKeeps DEF Crash
  <1>5. CASE UNCHANGED vars
    <2>1. UNCHANGED Stored /\ tx' = tx
      BY <1>5 DEF vars, Stored
    <2>2. Types'
      BY <2>1 DEF SqlInvariant, Types, Stored
    <2>3. TablesAgree' /\ Exclusive'
      BY <2>1 DEF SqlInvariant, TablesAgree, Whole, Exclusive, Stored
    <2>4. ASSUME NEW d \in Clients, tx'[d] # Idle
          PROVE  Agrees(d)'
      BY <2>1, <2>4, OtherAgrees DEF SqlInvariant
    <2> QED BY <2>2, <2>3, <2>4 DEF SqlInvariant
  <1> QED BY <1>1, <1>2, <1>3, <1>4, <1>5 DEF Next

\* On each database, before every statement, a transaction holds the locks that
\* keep what it has tested true.
THEOREM SqlInvariantHolds == Spec => []SqlInvariant
  BY InitEstablishes, NextKeeps, PTL DEF Spec

\* A get returns the receipts of the revision it returns.
THEOREM ReadsNotTorn == Spec => []ReadsAreWhole
  <1>1. SqlInvariant => ReadsAreWhole
    <2> SUFFICES ASSUME SqlInvariant, NEW c \in Clients, At(c, "done"), tx[c].read.erasure # "erased"
                 PROVE  tx[c].had + (IF tx[c].read.erasure = "pending" THEN 1 ELSE 0) = tx[c].read.revision
      BY DEF ReadsAreWhole
    <2>1. Head(tx[c].todo) = "done" /\ Agrees(c)
      BY InTransaction
    <2> QED BY <2>1 DEF Agrees, ReadAgrees, Whole
  <1> QED BY <1>1, SqlInvariantHolds, PTL

\* In every committed state an attempt in progress or in doubt owns the effect.
THEOREM AttemptOwnsEffect == Spec => []OpenAttemptOwnsEffect
  <1>1. SqlInvariant => OpenAttemptOwnsEffect
    BY DEF SqlInvariant, TablesAgree, OpenAttemptOwnsEffect, MayHaveEffect
  <1> QED BY <1>1, SqlInvariantHolds, PTL

\* A PostgreSQL transaction that waits for a row holds nothing, and only one
\* that has its row waits for the effect.
THEOREM PostgresNeverCycles == Spec => []NoWaitCycle
  <1>1. SqlInvariant => NoWaitCycle
    <2> SUFFICES ASSUME SqlInvariant, backend = "postgres", NEW c \in Clients, NEW d \in Clients, c # d,
                        WaitsFor(c, d), WaitsFor(d, c)
                 PROVE  FALSE
      BY DEF NoWaitCycle
    <2>1. ASSUME NEW a \in Clients, NEW b \in Clients, WaitsFor(a, b), WaitsFor(b, a)
          PROVE  At(a, "advisory") /\ tx[a].locks = {tx[a].proposal} /\ tx[a].shares = {}
      <3>1. tx[a].locks # {} \/ tx[a].shares # {}
        BY <2>1 DEF WaitsFor
      <3>2. PICK s \in {"row", "file", "advisory", "share"} : At(a, s)
        BY <2>1 DEF WaitsFor
      <3>3. Head(tx[a].todo) = s /\ Agrees(a) /\ tx[a] \in Transaction
        BY <3>2, InTransaction
      <3>4. s = "advisory"
        BY <3>1, <3>3 DEF Agrees, LocksAgree
      <3>5. tx[a].op = "admit"
        BY <3>3, <3>4, PlanOfOperation DEF Agrees, PlanAgrees, Transaction, Ops
      <3> QED BY <3>2, <3>3, <3>4, <3>5 DEF Agrees, LocksAgree, Guard
    <2>2. /\ At(c, "advisory") /\ tx[c].locks = {tx[c].proposal} /\ tx[c].shares = {}
          /\ At(d, "advisory") /\ tx[d].locks = {tx[d].proposal} /\ tx[d].shares = {}
      BY <2>1
    <2>3. "effect" \in tx[d].locks /\ "effect" \in tx[c].locks
      BY <2>2 DEF WaitsFor, Wanted, At
    <2> QED BY <2>3 DEF SqlInvariant, Exclusive
  <1> QED BY <1>1, SqlInvariantHolds, PTL

\* The tables of both specifications speak of one transition table.
LEMMA SameTables ==
  /\ \A s : Atomic!AllowedNext(s) = AllowedNext(s)
  /\ Atomic!Erasable = Erasable
  /\ Atomic!EndedWithoutEffect = EndedWithoutEffect
  BY DEF Atomic!AllowedNext, AllowedNext, Atomic!Erasable, Erasable, Atomic!LifecycleStatus,
         LifecycleStatus, Atomic!EndedWithoutEffect, EndedWithoutEffect, Atomic!ReleasesClaim, ReleasesClaim

\* Every commit is the one step of the store contract that its operation stands
\* for.
LEMMA CommitIsAtomic ==
  ASSUME SqlInvariant, NEW c \in Clients, Commit(c)
  PROVE  Atomic!Next
  <1> DEFINE o == tx[c]
  <1>1. /\ At(c, "commit")
        /\ rows' = [rows EXCEPT ![o.proposal] = UpdatedRow(c)]
        /\ receipts' = [receipts EXCEPT ![o.proposal] = InsertChildren(c)]
        /\ owner' = IF o.op = "admit" THEN o.proposal ELSE owner
    BY DEF Commit
  <1>2. /\ o.op \in {"set", "admit", "mark", "complete"} /\ o.proposal \in Proposals
        /\ Permitted(c)
        /\ o.op = "set" => o.target \in AllowedNext(rows[o.proposal].status)
        /\ o.op = "admit" => o.target = "executing"
    BY <1>1, CommitReadsRow
  <1>3. PICK p \in Proposals : p = o.proposal
    BY <1>2
  <1>4. /\ o.op \in {"set", "admit"} =>
             /\ UpdatedRow(c) = [rows[p] EXCEPT !.status = o.target, !.revision = @ + 1]
             /\ InsertChildren(c) = receipts[p] + 1
        /\ o.op = "mark" =>
             /\ UpdatedRow(c) = [rows[p] EXCEPT !.erasure = "pending", !.revision = @ + 1]
             /\ InsertChildren(c) = receipts[p]
        /\ o.op = "complete" =>
             /\ UpdatedRow(c) = [rows[p] EXCEPT !.erasure = "erased", !.revision = @ + 1]
             /\ InsertChildren(c) = 0
    BY <1>1, <1>3, CommitStores
  <1>5. Atomic!Stores(p, UpdatedRow(c), InsertChildren(c))
    BY <1>1, <1>3 DEF Atomic!Stores
  <1>6. CASE o.op = "set"
    <2>1. /\ rows[p].erasure # "erased" /\ (o.target = "executing" => owner = p)
      BY <1>2, <1>3, <1>6 DEF Permitted, MaySet
    <2>2. o.target \in Atomic!AllowedNext(rows[p].status)
      BY <1>2, <1>3, <1>6, SameTables
    <2>3. Atomic!CompareAndSet(p)
      <3>1. PICK s \in Atomic!AllowedNext(rows[p].status) : s = o.target
        BY <2>2
      <3>2. Atomic!Stores(p, [rows[p] EXCEPT !.status = s, !.revision = @ + 1], receipts[p] + 1)
        BY <1>4, <1>5, <1>6, <3>1
      <3>3. owner' = owner /\ (s = "executing" => owner = p)
        BY <1>1, <1>6, <2>1, <3>1
      <3> HIDE DEF o
      <3> QED BY <2>1, <3>2, <3>3 DEF Atomic!CompareAndSet
    <2> QED BY <2>3 DEF Atomic!Next
  <1>7. CASE o.op = "admit"
    <2>1. rows[p].status = "authorized" /\ rows[p].erasure = "none"
      BY <1>2, <1>3, <1>7 DEF Permitted, MayAdmit
    <2>2. owner \in {NoProposal, p} \/ rows[owner].status \in Atomic!EndedWithoutEffect
      BY <1>1, <1>3, <1>7, AdmissionTakesClaim, SameTables
    <2>3. Atomic!Admit(p)
      BY <1>1, <1>2, <1>3, <1>4, <1>5, <1>7, <2>1, <2>2 DEF Atomic!Admit
    <2> QED BY <2>3 DEF Atomic!Next
  <1>8. CASE o.op = "mark"
    <2>1. rows[p].status \in Atomic!Erasable /\ rows[p].erasure = "none"
      BY <1>2, <1>3, <1>8, SameTables DEF Permitted, MayMark
    <2>2. Atomic!MarkErasurePending(p)
      BY <1>1, <1>4, <1>5, <1>8, <2>1 DEF Atomic!MarkErasurePending
    <2> QED BY <2>2 DEF Atomic!Next
  <1>9. CASE o.op = "complete"
    <2>1. rows[p].erasure = "pending"
      BY <1>2, <1>3, <1>9 DEF Permitted, MayComplete
    <2>2. Atomic!CompleteErasure(p)
      BY <1>1, <1>4, <1>5, <1>9, <2>1 DEF Atomic!CompleteErasure
    <2> QED BY <2>2 DEF Atomic!Next
  <1> QED BY <1>2, <1>6, <1>7, <1>8, <1>9

\* Every statement but the commit is a stuttering step of the contract.
LEMMA StepSimulates ==
  SqlInvariant /\ [Next]_vars => [Atomic!Next]_<<rows, receipts, owner>>
  <1> SUFFICES ASSUME SqlInvariant, [Next]_vars, ~ UNCHANGED <<rows, receipts, owner>>
               PROVE  Atomic!Next
    OBVIOUS
  <1>1. ~UNCHANGED Stored
    BY DEF Stored
  <1>2. \E c \in Clients : Commit(c)
    BY <1>1 DEF Next, vars, Stored, Call, Step, TakeLock, Read, Check, ClaimOwner, Claim, MySQLTransfer,
                LockFailure, Crash
  <1> QED BY <1>2, CommitIsAtomic

\* The transactions of each database implement the atomic store contract: at
\* each commit what the operation had checked before is still true of the tables.
THEOREM StoresAreAtomic == Spec => ImplementsAtomicStore
  <1>1. Init => Atomic!Init
    BY DEF Init, Atomic!Init
  <1> QED BY <1>1, StepSimulates, SqlInvariantHolds, PTL
       DEF Spec, ImplementsAtomicStore, Atomic!Spec
=============================================================================
