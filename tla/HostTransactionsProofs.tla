----------------------- MODULE HostTransactionsProofs -----------------------
(***************************************************************************)
(* Proofs about HostTransactions for any number of clients, intents, rows  *)
(* and customers.                                                          *)
(*                                                                         *)
(* A transaction tests under locks and writes at its commit, some steps    *)
(* later.  The invariant says what each test established and that the      *)
(* locks the transaction has passed by then keep it true until the commit; *)
(* the lock that protects a fact is the one every writer of it also takes. *)
(***************************************************************************)
EXTENDS HostTransactions, SequenceTheorems, TLAPS

Operations == {"reserve", "close", "remember", "update"}
LockStatements == {"row", "customer", "advisory", "intent"}
StatementNames ==
  {"row", "customer", "advisory", "intent", "match", "guard", "decide", "close", "insert", "commit"}

\* The statements of an operation; every action group runs the same.
Script(op) ==
  CASE op = "update" -> HostUpdate
    [] op = "reserve" -> RefundReserve
    [] op = "close" -> RefundClose
    [] op = "remember" -> RefundRemember

Locks == LockStatements \X (Rows \union Intents \union {CustomerOf[r] : r \in Rows})

Transaction ==
  [todo : Seq(StatementNames), op : Operations, intent : Intents, seen : Nat, locks : SUBSET Locks]

\* What is left of a transaction is the end of its script, down to the commit.
OnScript(t) ==
  /\ Len(t.todo) \in 1..Len(Script(t.op))
  /\ \A k \in 1..Len(t.todo) :
       t.todo[k] = Script(t.op)[(Len(Script(t.op)) - Len(t.todo)) + k]

\* The transaction has run this statement.
Passed(t, statement) ==
  \E k \in 1..(Len(Script(t.op)) - Len(t.todo)) : Script(t.op)[k] = statement

LockFor(statement, i) ==
  CASE statement = "row" -> <<"row", RowOf[i]>>
    [] statement = "customer" -> <<"customer", Customer(i)>>
    [] statement = "advisory" -> <<"advisory", Customer(i)>>
    [] statement = "intent" -> <<"intent", i>>

\* What a running transaction has locked and what its tests still guarantee.
TransactionAgrees(t) ==
  /\ OnScript(t)
  /\ \A s \in LockStatements : Passed(t, s) => LockFor(s, t.intent) \in t.locks
  /\ t.op \in {"reserve", "close"} => phase[t.intent] # "absent"
  /\ Passed(t, "match") => version[RowOf[t.intent]] = snapshot[t.intent]
  /\ Passed(t, "decide") => Reservable(t.intent)
  /\ Passed(t, "guard") => Unreserved(t.intent)
  /\ Passed(t, "insert") => phase[t.intent] = "absent"

\* The values every variable may take.
Types ==
  /\ plan \in Plans
  /\ phase \in [Intents -> {"absent", "ready", "reserved", "closed"}]
  /\ snapshot \in [Intents -> Nat]
  /\ version \in [Rows -> Nat]
  /\ tx \in [Clients -> Transaction \union {Idle}]

\* No lock has two holders.
LocksExclude ==
  \A c, d \in Clients : c # d => tx[c].locks \cap tx[d].locks = {}

TransactionInvariant ==
  /\ Types
  /\ LocksExclude
  /\ \A c \in Clients : tx[c] # Idle => TransactionAgrees(tx[c])
  /\ OneReservationPerCustomer
  /\ ReservedSnapshotIsCurrent

-----------------------------------------------------------------------------
(* Scripts. *)

\* Every intent has a group and a business row.
LEMMA PlanFields ==
  ASSUME plan \in Plans
  PROVE  Kind \in [Intents -> Kinds] /\ RowOf \in [Intents -> Rows]
  BY HostAssumption DEF Kind, RowOf

\* The action groups run the same statements.
LEMMA ScriptOf ==
  ASSUME plan \in Plans, NEW i \in Intents, NEW op \in Operations
  PROVE  Statements(op, i) = Script(op)
  <1>1. Kind[i] \in Kinds
    BY PlanFields
  <1>2. CASE op = "update"
    BY <1>2 DEF Statements, Script
  <1>3. CASE op = "reserve"
    BY <1>1, <1>3 DEF Statements, Script, Kinds, RefundReserve, SubscriptionReserve, CreditNoteReserve
  <1>4. CASE op = "close"
    BY <1>1, <1>4 DEF Statements, Script, Kinds, RefundClose, SubscriptionClose, CreditNoteClose
  <1>5. CASE op = "remember"
    BY <1>1, <1>5 DEF Statements, Script, Kinds, RefundRemember, SubscriptionRemember, CreditNoteRemember
  <1> QED BY <1>2, <1>3, <1>4, <1>5 DEF Operations

\* The scripts, spelled out.
LEMMA Scripts ==
  /\ Len(Script("update")) = 4 /\ Script("update")[1] = "row" /\ Script("update")[2] = "customer"
  /\ Script("update")[3] = "guard" /\ Script("update")[4] = "commit"
  /\ Len(Script("reserve")) = 7 /\ Script("reserve")[1] = "row" /\ Script("reserve")[2] = "match"
  /\ Script("reserve")[3] = "customer" /\ Script("reserve")[4] = "advisory" /\ Script("reserve")[5] = "intent"
  /\ Script("reserve")[6] = "decide" /\ Script("reserve")[7] = "commit"
  /\ Len(Script("close")) = 5 /\ Script("close")[1] = "row" /\ Script("close")[2] = "customer"
  /\ Script("close")[3] = "intent" /\ Script("close")[4] = "close" /\ Script("close")[5] = "commit"
  /\ Len(Script("remember")) = 3 /\ Script("remember")[1] = "intent" /\ Script("remember")[2] = "insert"
  /\ Script("remember")[3] = "commit"
  <1>1. Script("update") = <<"row", "customer", "guard", "commit">>
    BY DEF Script, HostUpdate
  <1>2. Script("reserve") = <<"row", "match", "customer", "advisory", "intent", "decide", "commit">>
    BY DEF Script, RefundReserve
  <1>3. Script("close") = <<"row", "customer", "intent", "close", "commit">>
    BY DEF Script, RefundClose
  <1>4. Script("remember") = <<"intent", "insert", "commit">>
    BY DEF Script, RefundRemember
  <1> QED BY <1>1, <1>2, <1>3, <1>4

\* A script ends with its only commit.
LEMMA ScriptEnds ==
  ASSUME NEW op \in Operations
  PROVE  /\ Len(Script(op)) \in Nat /\ Len(Script(op)) >= 3
         /\ Script(op)[Len(Script(op))] = "commit"
         /\ \A k \in 1..Len(Script(op)) : Script(op)[k] = "commit" => k = Len(Script(op))
  <1>1. CASE op = "update"
    <2>1. Len(Script(op)) = 4 /\ Script(op)[4] = "commit"
      BY <1>1, Scripts
    <2>2. \A k \in 1..4 : Script(op)[k] = "commit" => k = 4
      BY <1>1, Scripts
    <2> QED BY <2>1, <2>2
  <1>2. CASE op = "reserve"
    <2>1. Len(Script(op)) = 7 /\ Script(op)[7] = "commit"
      BY <1>2, Scripts
    <2>2. \A k \in 1..7 : Script(op)[k] = "commit" => k = 7
      BY <1>2, Scripts
    <2> QED BY <2>1, <2>2
  <1>3. CASE op = "close"
    <2>1. Len(Script(op)) = 5 /\ Script(op)[5] = "commit"
      BY <1>3, Scripts
    <2>2. \A k \in 1..5 : Script(op)[k] = "commit" => k = 5
      BY <1>3, Scripts
    <2> QED BY <2>1, <2>2
  <1>4. CASE op = "remember"
    <2>1. Len(Script(op)) = 3 /\ Script(op)[3] = "commit"
      BY <1>4, Scripts
    <2>2. \A k \in 1..3 : Script(op)[k] = "commit" => k = 3
      BY <1>4, Scripts
    <2> QED BY <2>1, <2>2
  <1> QED BY <1>1, <1>2, <1>3, <1>4 DEF Operations

\* How many statements are left tells which ones have run.
LEMMA PassedStatements ==
  ASSUME NEW t \in Transaction, OnScript(t)
  PROVE  /\ t.op = "update" =>
              /\ (Passed(t, "row") <=> Len(t.todo) <= 3) /\ (Passed(t, "customer") <=> Len(t.todo) <= 2)
              /\ (Passed(t, "guard") <=> Len(t.todo) <= 1) /\ ~Passed(t, "match")
              /\ ~Passed(t, "decide") /\ ~Passed(t, "insert")
         /\ t.op = "reserve" =>
              /\ (Passed(t, "row") <=> Len(t.todo) <= 6) /\ (Passed(t, "match") <=> Len(t.todo) <= 5)
              /\ (Passed(t, "customer") <=> Len(t.todo) <= 4) /\ (Passed(t, "advisory") <=> Len(t.todo) <= 3)
              /\ (Passed(t, "intent") <=> Len(t.todo) <= 2) /\ (Passed(t, "decide") <=> Len(t.todo) <= 1)
              /\ ~Passed(t, "guard") /\ ~Passed(t, "insert")
         /\ t.op = "close" =>
              /\ (Passed(t, "row") <=> Len(t.todo) <= 4) /\ (Passed(t, "customer") <=> Len(t.todo) <= 3)
              /\ (Passed(t, "intent") <=> Len(t.todo) <= 2) /\ (Passed(t, "close") <=> Len(t.todo) <= 1)
              /\ ~Passed(t, "match") /\ ~Passed(t, "decide")
              /\ ~Passed(t, "guard") /\ ~Passed(t, "insert")
         /\ t.op = "remember" =>
              /\ (Passed(t, "intent") <=> Len(t.todo) <= 2) /\ (Passed(t, "insert") <=> Len(t.todo) <= 1)
              /\ ~Passed(t, "match") /\ ~Passed(t, "decide")
              /\ ~Passed(t, "guard")
  <1>1. Len(t.todo) \in 1..Len(Script(t.op))
    BY DEF OnScript
  <1>2. CASE t.op = "update"
    <2>1. \A k \in 1..4 : k = 1 \/ k = 2 \/ k = 3 \/ k = 4
      OBVIOUS
    <2>2. Len(t.todo) \in 1..4
      BY <1>1, <1>2, Scripts
    <2>3. \A s : Passed(t, s) <=> \E k \in 1..(4 - Len(t.todo)) : Script("update")[k] = s
      BY <1>2, Scripts DEF Passed
    <2> QED BY <1>2, <2>1, <2>2, <2>3, Scripts
  <1>3. CASE t.op = "reserve"
    <2>1. \A k \in 1..7 : k = 1 \/ k = 2 \/ k = 3 \/ k = 4 \/ k = 5 \/ k = 6 \/ k = 7
      OBVIOUS
    <2>2. Len(t.todo) \in 1..7
      BY <1>1, <1>3, Scripts
    <2>3. \A s : Passed(t, s) <=> \E k \in 1..(7 - Len(t.todo)) : Script("reserve")[k] = s
      BY <1>3, Scripts DEF Passed
    <2>4. \A k \in 1..7 : /\ Script("reserve")[k] = "row" <=> k = 1
                          /\ Script("reserve")[k] = "match" <=> k = 2
                          /\ Script("reserve")[k] = "customer" <=> k = 3
                          /\ Script("reserve")[k] = "advisory" <=> k = 4
                          /\ Script("reserve")[k] = "intent" <=> k = 5
                          /\ Script("reserve")[k] = "decide" <=> k = 6
                          /\ Script("reserve")[k] # "guard" /\ Script("reserve")[k] # "insert"
      BY <2>1, Scripts
    <2> DEFINE n == Len(t.todo)
    <2>5. \A s : Passed(t, s) <=> \E k \in 1..(7 - n) : Script("reserve")[k] = s
      BY <2>3
    <2>6. n \in 1..7
      BY <2>2
    <2> HIDE DEF n
    <2>7. /\ Passed(t, "row") <=> n <= 6
          /\ Passed(t, "match") <=> n <= 5
          /\ Passed(t, "customer") <=> n <= 4
      BY <2>4, <2>5, <2>6
    <2>8. /\ Passed(t, "advisory") <=> n <= 3
          /\ Passed(t, "intent") <=> n <= 2
          /\ Passed(t, "decide") <=> n <= 1
      BY <2>4, <2>5, <2>6
    <2>9. ~Passed(t, "guard") /\ ~Passed(t, "insert")
      BY <2>4, <2>5, <2>6
    <2> QED BY <1>3, <2>7, <2>8, <2>9 DEF n
  <1>4. CASE t.op = "close"
    <2>1. \A k \in 1..5 : k = 1 \/ k = 2 \/ k = 3 \/ k = 4 \/ k = 5
      OBVIOUS
    <2>2. Len(t.todo) \in 1..5
      BY <1>1, <1>4, Scripts
    <2>3. \A s : Passed(t, s) <=> \E k \in 1..(5 - Len(t.todo)) : Script("close")[k] = s
      BY <1>4, Scripts DEF Passed
    <2>4. \A k \in 1..5 : /\ Script("close")[k] = "row" <=> k = 1
                          /\ Script("close")[k] = "customer" <=> k = 2
                          /\ Script("close")[k] = "intent" <=> k = 3
                          /\ Script("close")[k] = "close" <=> k = 4
                          /\ Script("close")[k] \notin {"match", "advisory", "decide", "guard", "insert"}
      BY <2>1, Scripts
    <2> DEFINE n == Len(t.todo)
    <2>5. \A s : Passed(t, s) <=> \E k \in 1..(5 - n) : Script("close")[k] = s
      BY <2>3
    <2>6. n \in 1..5
      BY <2>2
    <2> HIDE DEF n
    <2>7. /\ Passed(t, "row") <=> n <= 4
          /\ Passed(t, "customer") <=> n <= 3
          /\ Passed(t, "intent") <=> n <= 2
          /\ Passed(t, "close") <=> n <= 1
      BY <2>4, <2>5, <2>6
    <2>8. \A s \in {"match", "advisory", "decide", "guard", "insert"} : ~Passed(t, s)
      BY <2>4, <2>5, <2>6
    <2> QED BY <1>4, <2>7, <2>8 DEF n
  <1>5. CASE t.op = "remember"
    <2>1. \A k \in 1..3 : k = 1 \/ k = 2 \/ k = 3
      OBVIOUS
    <2>2. Len(t.todo) \in 1..3
      BY <1>1, <1>5, Scripts
    <2>3. \A s : Passed(t, s) <=> \E k \in 1..(3 - Len(t.todo)) : Script("remember")[k] = s
      BY <1>5, Scripts DEF Passed
    <2> QED BY <1>5, <2>1, <2>2, <2>3, Scripts
  <1> QED BY <1>2, <1>3, <1>4, <1>5

\* Tests come after the locks that protect what they read.
LEMMA LocksComeFirst ==
  ASSUME NEW t \in Transaction, OnScript(t)
  PROVE  /\ Passed(t, "match") => t.op = "reserve" /\ Passed(t, "row")
         /\ Passed(t, "decide") =>
              /\ t.op = "reserve"
              /\ Passed(t, "row") /\ Passed(t, "match") /\ Passed(t, "customer")
              /\ Passed(t, "intent")
         /\ Passed(t, "guard") => t.op = "update" /\ Passed(t, "row") /\ Passed(t, "customer")
         /\ Passed(t, "insert") => t.op = "remember" /\ Passed(t, "intent")
  <1>1. t.op \in Operations /\ Len(t.todo) \in Nat
    BY DEF Transaction
  <1> QED BY <1>1, PassedStatements DEF Operations

\* A transaction that is about to commit has run everything else.
LEMMA CommitComesLast ==
  ASSUME NEW t \in Transaction, OnScript(t), Head(t.todo) = "commit"
  PROVE  /\ t.op = "reserve" => Passed(t, "decide")
         /\ t.op = "close" => Passed(t, "intent") /\ Passed(t, "customer")
         /\ t.op = "remember" => Passed(t, "insert")
         /\ t.op = "update" => Passed(t, "guard")
  <1> DEFINE m == Len(Script(t.op))
             n == Len(t.todo)
  <1>1. t.op \in Operations /\ t.todo \in Seq(StatementNames) /\ n \in Nat
    BY DEF Transaction
  <1>2. /\ m \in Nat /\ n \in 1..m
        /\ \A k \in 1..n : t.todo[k] = Script(t.op)[(m - n) + k]
    BY <1>1, ScriptEnds DEF OnScript
  <1>3. \A k \in 1..m : Script(t.op)[k] = "commit" => k = m
    BY <1>1, ScriptEnds
  <1>4. t.todo # <<>>
    BY <1>1, <1>2
  <1>5. t.todo[1] = "commit"
    BY <1>1, <1>4
  <1> HIDE DEF m, n
  <1>6. n = 1
    BY <1>1, <1>2, <1>3, <1>5
  <1>7. Len(t.todo) = 1
    BY <1>6 DEF n
  <1>8. Len(t.todo) <= 1 /\ Len(t.todo) <= 2 /\ Len(t.todo) <= 3
    BY <1>7
  <1>9. t.op = "reserve" => (Passed(t, "decide") <=> Len(t.todo) <= 1)
    BY PassedStatements
  <1>10. t.op = "close" => /\ Passed(t, "intent") <=> Len(t.todo) <= 2
                           /\ Passed(t, "customer") <=> Len(t.todo) <= 3
    BY PassedStatements
  <1>11. t.op = "remember" => (Passed(t, "insert") <=> Len(t.todo) <= 1)
    BY PassedStatements
  <1>12. t.op = "update" => (Passed(t, "guard") <=> Len(t.todo) <= 1)
    BY PassedStatements
  <1> QED BY <1>8, <1>9, <1>10, <1>11, <1>12, Zenon

\* Running the next statement, which is not the commit.
LEMMA NextStatement ==
  ASSUME NEW t \in Transaction, OnScript(t), Head(t.todo) # "commit",
         NEW u \in Transaction, u.op = t.op, u.todo = Tail(t.todo)
  PROVE  /\ OnScript(u)
         /\ \A s : Passed(u, s) => Passed(t, s) \/ s = Head(t.todo)
  <1> DEFINE m == Len(Script(t.op))
             n == Len(t.todo)
  <1>1. t.op \in Operations /\ t.todo \in Seq(StatementNames)
    BY DEF Transaction
  <1>2. m \in Nat /\ n \in 1..m /\ m >= 3
    BY <1>1, ScriptEnds DEF OnScript
  <1>3. \A k \in 1..n : t.todo[k] = Script(t.op)[(m - n) + k]
    BY DEF OnScript
  <1>4. Head(t.todo) = Script(t.op)[(m - n) + 1]
    <2>1. t.todo # <<>> /\ Head(t.todo) = t.todo[1]
      BY <1>1, <1>2
    <2> HIDE DEF m, n
    <2> QED BY <1>2, <1>3, <2>1
  <1>5. n > 1
    <2>1. Script(t.op)[m] = "commit"
      BY <1>1, ScriptEnds
    <2> HIDE DEF m, n
    <2> QED BY <1>2, <1>4, <2>1
  <1>6. /\ Len(u.todo) = n - 1
        /\ \A k \in 1..(n - 1) : u.todo[k] = t.todo[k + 1]
    BY <1>1, <1>2, <1>5
  <1> HIDE DEF m, n
  <1>7. \A k \in 1..(n - 1) : u.todo[k] = Script(t.op)[(m - (n - 1)) + k]
    <2> SUFFICES ASSUME NEW k \in 1..(n - 1)
                 PROVE  u.todo[k] = Script(t.op)[(m - (n - 1)) + k]
      OBVIOUS
    <2>1. k + 1 \in 1..n /\ (m - n) + (k + 1) = (m - (n - 1)) + k
      BY <1>2
    <2>2. t.todo[k + 1] = Script(t.op)[(m - n) + (k + 1)]
      BY <1>3, <2>1
    <2>3. u.todo[k] = t.todo[k + 1]
      BY <1>6
    <2> QED BY <2>1, <2>2, <2>3
  <1>8. OnScript(u)
    <2>1. n - 1 \in 1..m
      BY <1>2, <1>5
    <2>2. /\ Len(u.todo) \in 1..m
          /\ \A k \in 1..Len(u.todo) : u.todo[k] = Script(t.op)[(m - Len(u.todo)) + k]
      BY <1>6, <1>7, <2>1, Zenon
    <2> QED BY <2>2 DEF OnScript, m
  <1>9. ASSUME NEW s, Passed(u, s) PROVE Passed(t, s) \/ s = Head(t.todo)
    <2>1. PICK k \in 1..(m - (n - 1)) : Script(t.op)[k] = s
      BY <1>6, <1>9 DEF Passed, m
    <2>2. CASE k = (m - n) + 1
      BY <1>4, <2>1, <2>2
    <2>3. CASE k \in 1..(m - n)
      BY <2>1, <2>3 DEF Passed, m, n
    <2> QED BY <1>2, <2>1, <2>2, <2>3
  <1> QED BY <1>8, <1>9

-----------------------------------------------------------------------------
(* Steps of a transaction before its commit. *)

\* A client at a statement has a running transaction.
LEMMA AtStatement ==
  ASSUME TransactionInvariant, NEW c \in Clients, NEW s, At(c, s)
  PROVE  tx[c] # Idle /\ tx[c] \in Transaction /\ TransactionAgrees(tx[c])
         /\ Head(tx[c].todo) = s
  <1>1. tx[c].todo # <<>> /\ Head(tx[c].todo) = s
    BY DEF At
  <1>2. tx[c] # Idle
    BY <1>1 DEF Idle
  <1> QED BY <1>1, <1>2 DEF TransactionInvariant, Types

\* A step of one client that writes no table.
LEMMA ClientStep ==
  ASSUME TransactionInvariant, UNCHANGED <<plan, phase, snapshot, version>>,
         NEW c \in Clients, NEW t \in Transaction \union {Idle},
         tx' = [tx EXCEPT ![c] = t],
         t # Idle => TransactionAgrees(t),
         \A d \in Clients : d # c => t.locks \cap tx[d].locks = {}
  PROVE  TransactionInvariant'
  <1>1. /\ tx' \in [Clients -> Transaction \union {Idle}] /\ tx'[c] = t
        /\ \A d \in Clients : d # c => tx'[d] = tx[d]
    BY DEF TransactionInvariant, Types
  <1>2. Types'
    BY <1>1 DEF TransactionInvariant, Types
  <1>3. LocksExclude'
    BY <1>1 DEF TransactionInvariant, LocksExclude
  <1>4. (\A d \in Clients : tx[d] # Idle => TransactionAgrees(tx[d]))'
    <2> SUFFICES ASSUME NEW d \in Clients, tx'[d] # Idle PROVE TransactionAgrees(tx[d])'
      OBVIOUS
    <2>1. TransactionAgrees(tx'[d])
      BY <1>1 DEF TransactionInvariant
    <2>2. /\ Reservable(tx'[d].intent) => Reservable(tx[d].intent)'
          /\ Unreserved(tx'[d].intent) => Unreserved(tx[d].intent)'
          /\ RowOf' = RowOf
          /\ \A s \in LockStatements : LockFor(s, tx[d].intent)' = LockFor(s, tx'[d].intent)
      BY DEF Reservable, Unreserved, LockFor, Customer, RowOf
    <2> QED BY <2>1, <2>2 DEF TransactionAgrees, OnScript, Passed
  <1>5. OneReservationPerCustomer' /\ ReservedSnapshotIsCurrent'
    BY DEF TransactionInvariant, OneReservationPerCustomer, ReservedSnapshotIsCurrent, Customer, RowOf
  <1> QED BY <1>2, <1>3, <1>4, <1>5 DEF TransactionInvariant

\* A transaction ends without a write and releases its locks.
LEMMA RollBackKeeps ==
  ASSUME TransactionInvariant, UNCHANGED <<plan, phase, snapshot, version>>,
         NEW c \in Clients, tx' = [tx EXCEPT ![c] = Idle]
  PROVE  TransactionInvariant'
  <1>1. \A d \in Clients : d # c => Idle.locks \cap tx[d].locks = {}
    BY DEF Idle
  <1> QED BY <1>1, ClientStep

\* A transaction begins with its whole script and no locks.
LEMMA BeginKeeps ==
  ASSUME TransactionInvariant, NEW c \in Clients, NEW i \in Intents, NEW op \in Operations,
         Begin(c, i, op)
  PROVE  TransactionInvariant'
  <1> DEFINE t == [todo |-> Script(op), op |-> op, intent |-> i,
                   seen |-> version[RowOf[i]], locks |-> {}]
  <1>1. plan \in Plans /\ version \in [Rows -> Nat]
    BY DEF TransactionInvariant, Types
  <1>2. /\ tx' = [tx EXCEPT ![c] = t]
        /\ op \in {"reserve", "close"} => phase[i] # "absent"
        /\ UNCHANGED <<plan, phase, snapshot, version>>
    BY <1>1, ScriptOf DEF Begin
  <1>3. Script(op) \in Seq(StatementNames)
    <2>1. /\ HostUpdate \in Seq(StatementNames) /\ RefundReserve \in Seq(StatementNames)
          /\ RefundClose \in Seq(StatementNames) /\ RefundRemember \in Seq(StatementNames)
      BY DEF HostUpdate, RefundReserve, RefundClose, RefundRemember, StatementNames
    <2> QED BY <2>1 DEF Operations, Script
  <1>4. t \in Transaction /\ t.locks = {} /\ t.op = op /\ t.intent = i
    BY <1>1, <1>3, PlanFields DEF Transaction
  <1>5. OnScript(t) /\ \A s : ~Passed(t, s)
    <2> DEFINE m == Len(Script(op))
    <2>1. m \in Nat /\ m >= 3
      BY ScriptEnds
    <2> HIDE DEF m
    <2>2. m \in 1..m /\ 1..(m - m) = {} /\ \A k \in 1..m : (m - m) + k = k
      BY <2>1
    <2>3. OnScript(t)
      BY <2>2 DEF OnScript, m
    <2> QED BY <2>2, <2>3 DEF Passed, m
  <1> HIDE DEF t
  <1>6. TransactionAgrees(t)
    BY <1>2, <1>4, <1>5 DEF TransactionAgrees
  <1> QED BY <1>2, <1>4, <1>6, ClientStep

\* The lock a client waits for is the lock of its statement.
LEMMA WantedLock ==
  ASSUME TransactionInvariant, NEW c \in Clients, NEW s \in LockStatements, At(c, s)
  PROVE  Wanted(c) = LockFor(s, tx[c].intent) /\ Wanted(c) \in Locks
  <1>1. tx[c].intent \in Intents /\ plan \in Plans /\ tx[c].todo # <<>> /\ Head(tx[c].todo) = s
    BY AtStatement DEF Transaction, TransactionInvariant, Types, At
  <1>2. Wanted(c) = LockFor(s, tx[c].intent)
    BY <1>1 DEF Wanted, At, LockFor, LockStatements
  <1>3. RowOf[tx[c].intent] \in Rows
    BY <1>1, PlanFields
  <1>4. LockFor(s, tx[c].intent) \in Locks
    BY <1>1, <1>3 DEF LockFor, Locks, LockStatements, Customer
  <1> QED BY <1>2, <1>4

\* A lock is taken when no other client holds it.
LEMMA TakeLockKeeps ==
  ASSUME TransactionInvariant, NEW c \in Clients, TakeLock(c)
  PROVE  TransactionInvariant'
  <1>1. PICK s \in LockStatements : At(c, s)
    BY DEF TakeLock, LockStatements
  <1> DEFINE t == tx[c]
             u == [t EXCEPT !.todo = Tail(@), !.locks = @ \union {Wanted(c)}]
  <1>2. /\ \A d \in Clients : d # c => Wanted(c) \notin tx[d].locks
        /\ UNCHANGED <<plan, phase, snapshot, version>>
        /\ tx' = [tx EXCEPT ![c] = u]
    BY DEF TakeLock
  <1>3. t \in Transaction /\ TransactionAgrees(t) /\ Head(t.todo) = s
    BY <1>1, AtStatement
  <1>4. Wanted(c) = LockFor(s, t.intent) /\ Wanted(c) \in Locks
    BY <1>1, WantedLock
  <1>5. t.todo # <<>>
    BY <1>1 DEF At
  <1>6. /\ u \in Transaction /\ u.op = t.op /\ u.intent = t.intent
        /\ u.todo = Tail(t.todo) /\ u.locks = t.locks \union {Wanted(c)}
    <2>1. Tail(t.todo) \in Seq(StatementNames)
      BY <1>3, <1>5, HeadTailProperties DEF Transaction
    <2> QED BY <1>3, <1>4, <2>1 DEF Transaction
  <1> HIDE DEF t, u
  <1>7. OnScript(u) /\ \A x : Passed(u, x) => Passed(t, x) \/ x = s
    BY <1>3, <1>6, NextStatement DEF TransactionAgrees, LockStatements
  <1>8. TransactionAgrees(u)
    BY <1>3, <1>4, <1>6, <1>7 DEF TransactionAgrees, LockStatements
  <1>9. \A d \in Clients : d # c => u.locks \cap tx[d].locks = {}
    BY <1>2, <1>6 DEF TransactionInvariant, LocksExclude, t
  <1> QED BY <1>2, <1>6, <1>8, <1>9, ClientStep

\* A test holds, and is remembered by the statement having passed, or ends the
\* transaction.
LEMMA TestKeeps ==
  ASSUME TransactionInvariant, NEW c \in Clients, Test(c)
  PROVE  TransactionInvariant'
  <1>1. PICK s \in {"match", "guard", "decide", "close", "insert"} : At(c, s)
    BY DEF Test
  <1>2. UNCHANGED <<plan, phase, snapshot, version>>
    BY DEF Test
  <1> DEFINE t == tx[c]
             u == [t EXCEPT !.todo = Tail(@)]
  <1>3. t \in Transaction /\ TransactionAgrees(t) /\ Head(t.todo) = s /\ t.todo # <<>>
    BY <1>1, AtStatement DEF At
  <1>4. CASE ~Holds(c)
    BY <1>2, <1>4, RollBackKeeps DEF Test
  <1>5. CASE Holds(c)
    <2>1. tx' = [tx EXCEPT ![c] = u]
      BY <1>5 DEF Test
    <2>2. /\ u \in Transaction /\ u.op = t.op /\ u.intent = t.intent
          /\ u.todo = Tail(t.todo) /\ u.locks = t.locks
      <3>1. Tail(t.todo) \in Seq(StatementNames)
        BY <1>3, HeadTailProperties DEF Transaction
      <3> QED BY <1>3, <3>1 DEF Transaction
    <2>3. /\ s = "match" => version[RowOf[t.intent]] = snapshot[t.intent]
          /\ s = "guard" => Unreserved(t.intent)
          /\ s = "decide" => Reservable(t.intent)
          /\ s = "insert" => phase[t.intent] = "absent"
      BY <1>3, <1>5 DEF Holds, At, RowMatches
    <2> HIDE DEF t, u
    <2>4. OnScript(u) /\ \A x : Passed(u, x) => Passed(t, x) \/ x = s
      BY <1>3, <2>2, NextStatement DEF TransactionAgrees
    <2>5. TransactionAgrees(u)
      BY <1>3, <2>2, <2>3, <2>4 DEF TransactionAgrees, LockStatements
    <2>6. \A d \in Clients : d # c => u.locks \cap tx[d].locks = {}
      BY <2>2 DEF TransactionInvariant, LocksExclude, t
    <2> QED BY <1>2, <2>1, <2>2, <2>5, <2>6, ClientStep
  <1> QED BY <1>4, <1>5

-----------------------------------------------------------------------------
(* The commit. *)

\* Two transactions that passed the same lock statement are about different
\* rows, customers or intents.
LEMMA LocksSeparate ==
  ASSUME TransactionInvariant, NEW c \in Clients, NEW d \in Clients, c # d,
         tx[c] # Idle, tx[d] # Idle
  PROVE  /\ Passed(tx[c], "row") /\ Passed(tx[d], "row")
              => RowOf[tx[c].intent] # RowOf[tx[d].intent]
         /\ Passed(tx[c], "customer") /\ Passed(tx[d], "customer")
              => Customer(tx[c].intent) # Customer(tx[d].intent)
         /\ Passed(tx[c], "intent") /\ Passed(tx[d], "intent")
              => tx[c].intent # tx[d].intent
  <1>1. TransactionAgrees(tx[c]) /\ TransactionAgrees(tx[d]) /\ tx[c].locks \cap tx[d].locks = {}
    BY DEF TransactionInvariant, LocksExclude
  <1>2. ASSUME NEW s \in LockStatements, Passed(tx[c], s), Passed(tx[d], s)
        PROVE  LockFor(s, tx[c].intent) # LockFor(s, tx[d].intent)
    BY <1>1, <1>2 DEF TransactionAgrees
  <1>3. CASE Passed(tx[c], "row") /\ Passed(tx[d], "row")
               /\ RowOf[tx[c].intent] = RowOf[tx[d].intent]
    BY <1>2, <1>3 DEF LockFor, LockStatements
  <1>4. CASE Passed(tx[c], "customer") /\ Passed(tx[d], "customer")
               /\ Customer(tx[c].intent) = Customer(tx[d].intent)
    BY <1>2, <1>4 DEF LockFor, LockStatements
  <1>5. CASE Passed(tx[c], "intent") /\ Passed(tx[d], "intent") /\ tx[c].intent = tx[d].intent
    BY <1>2, <1>5 DEF LockFor, LockStatements
  <1> QED BY <1>3, <1>4, <1>5

\* What a running transaction relies on, with the locks it has for it.
LEMMA Reliance ==
  ASSUME TransactionInvariant, NEW d \in Clients, tx[d] # Idle
  PROVE  LET t == tx[d] IN
         /\ t \in Transaction /\ TransactionAgrees(t) /\ t.intent \in Intents
         /\ Passed(t, "match") => /\ Passed(t, "row") /\ phase[t.intent] # "absent"
                                  /\ version[RowOf[t.intent]] = snapshot[t.intent]
         /\ Passed(t, "decide") => /\ Passed(t, "customer") /\ Passed(t, "intent")
                                   /\ Reservable(t.intent)
         /\ Passed(t, "guard") => Passed(t, "customer") /\ Unreserved(t.intent)
         /\ Passed(t, "insert") => Passed(t, "intent") /\ phase[t.intent] = "absent"
         /\ t.op \in {"reserve", "close"} => phase[t.intent] # "absent"
  <1>1. tx[d] \in Transaction /\ TransactionAgrees(tx[d])
    BY DEF TransactionInvariant, Types
  <1>2. tx[d].intent \in Intents
    BY <1>1 DEF Transaction
  <1> HIDE DEF TransactionInvariant
  <1> QED BY <1>1, <1>2, LocksComeFirst DEF TransactionAgrees

\* What a transaction has locked and tested when it commits.
LEMMA AtCommit ==
  ASSUME TransactionInvariant, NEW c \in Clients, Commit(c)
  PROVE  /\ tx[c] # Idle /\ tx[c] \in Transaction /\ tx[c].intent \in Intents
         /\ tx[c].op = "reserve" =>
              /\ Passed(tx[c], "customer") /\ Reservable(tx[c].intent)
              /\ version[RowOf[tx[c].intent]] = snapshot[tx[c].intent]
         /\ tx[c].op = "close" => Passed(tx[c], "intent") /\ phase[tx[c].intent] # "absent"
         /\ tx[c].op = "remember" => Passed(tx[c], "intent") /\ phase[tx[c].intent] = "absent"
         /\ tx[c].op = "update" => Passed(tx[c], "row") /\ Unreserved(tx[c].intent)
  <1>1. /\ tx[c] # Idle /\ tx[c] \in Transaction /\ OnScript(tx[c])
        /\ Head(tx[c].todo) = "commit" /\ tx[c].intent \in Intents
    BY AtStatement DEF Commit, TransactionAgrees, Transaction
  <1>2. CASE tx[c].op = "reserve"
    <2>1. Passed(tx[c], "decide")
      BY <1>1, <1>2, CommitComesLast
    <2>2. Passed(tx[c], "match") /\ Passed(tx[c], "customer")
      BY <1>1, <2>1, LocksComeFirst
    <2> QED BY <1>1, <1>2, <2>1, <2>2, Reliance
  <1>3. CASE tx[c].op = "close"
    <2>1. Passed(tx[c], "intent")
      BY <1>1, <1>3, CommitComesLast
    <2> QED BY <1>1, <1>3, <2>1, Reliance
  <1>4. CASE tx[c].op = "remember"
    <2>1. Passed(tx[c], "insert")
      BY <1>1, <1>4, CommitComesLast
    <2> QED BY <1>1, <1>4, <2>1, Reliance
  <1>5. CASE tx[c].op = "update"
    <2>1. Passed(tx[c], "guard")
      BY <1>1, <1>5, CommitComesLast
    <2>2. Passed(tx[c], "row")
      BY <1>1, <2>1, LocksComeFirst
    <2> QED BY <1>1, <1>5, <2>1, <2>2, Reliance
  <1>6. tx[c].op \in Operations
    BY <1>1 DEF Transaction
  <1> QED BY <1>1, <1>2, <1>3, <1>4, <1>5, <1>6 DEF Operations

\* A commit keeps the invariant when it keeps the tables' own properties and,
\* for every other transaction, what that one relies on.
LEMMA CommitStep ==
  ASSUME TransactionInvariant, NEW c \in Clients, tx' = [tx EXCEPT ![c] = Idle], UNCHANGED plan,
         phase' \in [Intents -> {"absent", "ready", "reserved", "closed"}],
         snapshot' \in [Intents -> Nat], version' \in [Rows -> Nat],
         OneReservationPerCustomer', ReservedSnapshotIsCurrent',
         \A d \in Clients : d # c /\ tx[d] # Idle =>
           LET t == tx[d] IN
           /\ t.op \in {"reserve", "close"} => phase'[t.intent] # "absent"
           /\ Passed(t, "match") => version'[RowOf[t.intent]] = snapshot'[t.intent]
           /\ Passed(t, "decide") =>
                /\ phase'[t.intent] = "ready"
                /\ \A j \in Intents \ {t.intent} :
                     Customer(j) = Customer(t.intent) => phase'[j] # "reserved"
           /\ Passed(t, "guard") =>
                \A j \in Intents : Customer(j) = Customer(t.intent) => phase'[j] # "reserved"
           /\ Passed(t, "insert") => phase'[t.intent] = "absent"
  PROVE  TransactionInvariant'
  <1>1. /\ tx' \in [Clients -> Transaction \union {Idle}] /\ tx'[c] = Idle
        /\ \A d \in Clients : d # c => tx'[d] = tx[d]
    BY DEF TransactionInvariant, Types
  <1>2. Types'
    BY <1>1 DEF TransactionInvariant, Types
  <1>3. LocksExclude'
    BY <1>1 DEF TransactionInvariant, LocksExclude, Idle
  <1>4. (\A d \in Clients : tx[d] # Idle => TransactionAgrees(tx[d]))'
    <2> SUFFICES ASSUME NEW d \in Clients, tx'[d] # Idle PROVE TransactionAgrees(tx[d])'
      OBVIOUS
    <2>1. d # c /\ tx'[d] = tx[d] /\ tx[d] # Idle
      BY <1>1
    <2>2. TransactionAgrees(tx[d])
      BY <2>1 DEF TransactionInvariant
    <2>3. /\ RowOf' = RowOf
          /\ \A j : Customer(j)' = Customer(j)
          /\ \A s \in LockStatements : LockFor(s, tx[d].intent)' = LockFor(s, tx[d].intent)
      BY <2>1 DEF LockFor, Customer, RowOf
    <2>4. Passed(tx[d], "decide") => Reservable(tx[d].intent)'
      BY <2>1, <2>3 DEF Reservable
    <2>5. Passed(tx[d], "guard") => Unreserved(tx[d].intent)'
      BY <2>1, <2>3 DEF Unreserved
    <2>6. /\ tx[d].op \in {"reserve", "close"} => phase'[tx[d].intent] # "absent"
          /\ Passed(tx[d], "match") => version'[RowOf[tx[d].intent]] = snapshot'[tx[d].intent]
          /\ Passed(tx[d], "insert") => phase'[tx[d].intent] = "absent"
      BY <2>1
    <2>7. /\ OnScript(tx[d])' /\ OnScript(tx[d])
          /\ \A s : Passed(tx[d], s)' <=> Passed(tx[d], s)
      BY <2>1, <2>2 DEF TransactionAgrees, OnScript, Passed
    <2>8. \A s \in LockStatements : Passed(tx[d], s) => LockFor(s, tx[d].intent) \in tx[d].locks
      BY <2>2 DEF TransactionAgrees
    <2> QED BY <2>1, <2>3, <2>4, <2>5, <2>6, <2>7, <2>8 DEF TransactionAgrees
  <1> QED BY <1>2, <1>3, <1>4 DEF TransactionInvariant

\* The update of a business row commits while nothing of its customer is reserved.
LEMMA UpdateCommits ==
  ASSUME TransactionInvariant, NEW c \in Clients, Commit(c), tx[c].op = "update"
  PROVE  /\ TransactionInvariant'
         /\ \A i \in Intents : version'[RowOf[i]] # version[RowOf[i]] => Unreserved(i)
  <1> DEFINE t == tx[c]
             i == t.intent
  <1>1. /\ t # Idle /\ Passed(t, "row") /\ i \in Intents /\ Unreserved(i)
    <2>1. /\ tx[c] # Idle /\ tx[c].intent \in Intents
          /\ tx[c].op = "update" => Passed(tx[c], "row") /\ Unreserved(tx[c].intent)
      BY AtCommit
    <2> QED BY <2>1
  <1>2. /\ phase' = phase /\ snapshot' = snapshot /\ plan' = plan
        /\ version' = [version EXCEPT ![RowOf[i]] = @ + 1]
        /\ tx' = [tx EXCEPT ![c] = Idle]
    BY DEF Commit
  <1>3. /\ plan \in Plans /\ phase \in [Intents -> {"absent", "ready", "reserved", "closed"}]
        /\ snapshot \in [Intents -> Nat] /\ version \in [Rows -> Nat]
    BY DEF TransactionInvariant, Types
  <1>4. \A j \in Intents : RowOf[j] \in Rows
    BY <1>3, PlanFields
  <1>5. /\ version' \in [Rows -> Nat]
        /\ \A r \in Rows : r # RowOf[i] => version'[r] = version[r]
    BY <1>1, <1>2, <1>3, <1>4
  <1>6. \A j \in Intents : version'[RowOf[j]] # version[RowOf[j]] => Unreserved(j)
    BY <1>1, <1>4, <1>5 DEF Unreserved, Customer
  <1>7. OneReservationPerCustomer'
    BY <1>2 DEF TransactionInvariant, OneReservationPerCustomer, Customer, RowOf
  <1>8. ReservedSnapshotIsCurrent'
    BY <1>2, <1>6 DEF TransactionInvariant, ReservedSnapshotIsCurrent, Unreserved, RowOf
  <1>9. ASSUME NEW d \in Clients, d # c, tx[d] # Idle, Passed(tx[d], "match")
        PROVE  version'[RowOf[tx[d].intent]] = snapshot'[tx[d].intent]
    <2>1. Passed(tx[d], "row") /\ tx[d].intent \in Intents
          /\ version[RowOf[tx[d].intent]] = snapshot[tx[d].intent]
      BY <1>9, Reliance
    <2>2. RowOf[tx[d].intent] # RowOf[i]
      BY <1>1, <1>9, <2>1, LocksSeparate
    <2> QED BY <1>2, <1>4, <1>5, <2>1, <2>2
  <1>10. ASSUME NEW d \in Clients, d # c, tx[d] # Idle
         PROVE  LET u == tx[d] IN
           /\ u.op \in {"reserve", "close"} => phase'[u.intent] # "absent"
           /\ Passed(u, "match") => version'[RowOf[u.intent]] = snapshot'[u.intent]
           /\ Passed(u, "decide") =>
                /\ phase'[u.intent] = "ready"
                /\ \A j \in Intents \ {u.intent} :
                     Customer(j) = Customer(u.intent) => phase'[j] # "reserved"
           /\ Passed(u, "guard") =>
                \A j \in Intents : Customer(j) = Customer(u.intent) => phase'[j] # "reserved"
           /\ Passed(u, "insert") => phase'[u.intent] = "absent"
    BY <1>2, <1>9, <1>10, Reliance DEF Reservable, Unreserved
  <1> HIDE DEF t, i
  <1>11. TransactionInvariant'
    BY <1>2, <1>3, <1>5, <1>7, <1>8, <1>10, CommitStep
  <1> QED BY <1>6, <1>11

\* A new phase of intent i falsifies no test another transaction has passed.
DisturbsNobody(c, i, next) ==
  \A d \in Clients : d # c /\ tx[d] # Idle =>
    /\ Passed(tx[d], "decide") \/ Passed(tx[d], "guard") =>
         next # "reserved" \/ Customer(i) # Customer(tx[d].intent)
    /\ Passed(tx[d], "decide") => tx[d].intent # i
    /\ Passed(tx[d], "insert") => tx[d].intent # i

\* The other commits change the phase of one intent; they disturb no other
\* transaction when that intent is not the one it decides on.
LEMMA PhaseCommits ==
  ASSUME TransactionInvariant, NEW c \in Clients, tx' = [tx EXCEPT ![c] = Idle],
         UNCHANGED <<plan, version>>, NEW i \in Intents, NEW next \in {"ready", "reserved", "closed"},
         phase' = [phase EXCEPT ![i] = next],
         snapshot' \in [Intents -> Nat],
         \A j \in Intents : phase[j] # "absent" => snapshot'[j] = snapshot[j],
         next = "reserved" => /\ Reservable(i)
                              /\ version[RowOf[i]] = snapshot[i],
         DisturbsNobody(c, i, next)
  PROVE  TransactionInvariant'
  <1>1. /\ plan \in Plans /\ phase \in [Intents -> {"absent", "ready", "reserved", "closed"}]
        /\ version \in [Rows -> Nat]
    BY DEF TransactionInvariant, Types
  <1>2. /\ phase' \in [Intents -> {"absent", "ready", "reserved", "closed"}]
        /\ phase'[i] = next
        /\ \A j \in Intents : j # i => phase'[j] = phase[j]
        /\ \A j \in Intents : phase[j] # "absent" => phase'[j] # "absent"
    BY <1>1
  <1>3. OneReservationPerCustomer'
    BY <1>2 DEF TransactionInvariant, OneReservationPerCustomer, Reservable, Customer, RowOf
  <1>4. ReservedSnapshotIsCurrent'
    BY <1>2 DEF TransactionInvariant, ReservedSnapshotIsCurrent, Reservable, RowOf
  <1>5. ASSUME NEW d \in Clients, d # c, tx[d] # Idle
        PROVE  LET u == tx[d] IN
           /\ u.op \in {"reserve", "close"} => phase'[u.intent] # "absent"
           /\ Passed(u, "match") => version'[RowOf[u.intent]] = snapshot'[u.intent]
           /\ Passed(u, "decide") =>
                /\ phase'[u.intent] = "ready"
                /\ \A j \in Intents \ {u.intent} :
                     Customer(j) = Customer(u.intent) => phase'[j] # "reserved"
           /\ Passed(u, "guard") =>
                \A j \in Intents : Customer(j) = Customer(u.intent) => phase'[j] # "reserved"
           /\ Passed(u, "insert") => phase'[u.intent] = "absent"
    <2> DEFINE u == tx[d]
               k == u.intent
    <2>1. /\ k \in Intents
          /\ u.op \in {"reserve", "close"} => phase[k] # "absent"
          /\ Passed(u, "match") => phase[k] # "absent" /\ version[RowOf[k]] = snapshot[k]
          /\ Passed(u, "decide") => Reservable(k)
          /\ Passed(u, "guard") => Unreserved(k)
          /\ Passed(u, "insert") => phase[k] = "absent"
      BY <1>5, Reliance
    <2>2. /\ Passed(u, "decide") \/ Passed(u, "guard") => next # "reserved" \/ Customer(i) # Customer(k)
          /\ Passed(u, "decide") => k # i
          /\ Passed(u, "insert") => k # i
      BY <1>5 DEF DisturbsNobody
    <2> HIDE DEF u, k
    <2>3. Passed(u, "decide") =>
            /\ phase'[k] = "ready"
            /\ \A j \in Intents \ {k} : Customer(j) = Customer(k) => phase'[j] # "reserved"
      BY <1>2, <2>1, <2>2 DEF Reservable
    <2>4. Passed(u, "guard") =>
            \A j \in Intents : Customer(j) = Customer(k) => phase'[j] # "reserved"
      BY <1>2, <2>1, <2>2 DEF Unreserved
    <2>5. /\ u.op \in {"reserve", "close"} => phase'[k] # "absent"
          /\ Passed(u, "match") => version'[RowOf[k]] = snapshot'[k]
          /\ Passed(u, "insert") => phase'[k] = "absent"
      BY <1>2, <2>1, <2>2
    <2> QED BY <2>3, <2>4, <2>5 DEF u, k
  <1> QED BY <1>1, <1>2, <1>3, <1>4, <1>5, CommitStep

\* Every commit keeps the invariant.
LEMMA CommitKeeps ==
  ASSUME TransactionInvariant, NEW c \in Clients, Commit(c)
  PROVE  TransactionInvariant'
  <1> DEFINE t == tx[c]
             i == t.intent
  <1>1. /\ t # Idle /\ t \in Transaction /\ i \in Intents /\ t.op \in Operations /\ t.seen \in Nat
        /\ snapshot \in [Intents -> Nat]
    BY AtCommit DEF Transaction, TransactionInvariant, Types
  <1>2. tx' = [tx EXCEPT ![c] = Idle] /\ plan' = plan
    BY DEF Commit
  <1>3. CASE t.op = "update"
    BY <1>3, UpdateCommits
  <1>4. CASE t.op = "reserve"
    <2>1. /\ phase' = [phase EXCEPT ![i] = "reserved"] /\ version' = version /\ snapshot' = snapshot
      BY <1>4 DEF Commit
    <2>2. /\ Passed(t, "customer") /\ Reservable(i) /\ version[RowOf[i]] = snapshot[i]
      BY <1>4, AtCommit
    <2>3. ASSUME NEW d \in Clients, d # c, tx[d] # Idle
          PROVE  /\ Passed(tx[d], "decide") \/ Passed(tx[d], "guard") =>
                      Customer(i) # Customer(tx[d].intent)
                 /\ Passed(tx[d], "decide") => tx[d].intent # i
                 /\ Passed(tx[d], "insert") => tx[d].intent # i
      <3>1. Passed(tx[d], "decide") \/ Passed(tx[d], "guard") => Passed(tx[d], "customer")
        BY <2>3, Reliance
      <3>2. Passed(tx[d], "customer") => Customer(i) # Customer(tx[d].intent)
        BY <1>1, <2>2, <2>3, LocksSeparate
      <3>3. Passed(tx[d], "insert") => phase[tx[d].intent] = "absent"
        BY <2>3, Reliance
      <3> HIDE DEF i
      <3> QED BY <2>2, <3>1, <3>2, <3>3 DEF Reservable
    <2> HIDE DEF t, i
    <2>4. /\ "reserved" \in {"ready", "reserved", "closed"} /\ snapshot' \in [Intents -> Nat]
          /\ \A j \in Intents : phase[j] # "absent" => snapshot'[j] = snapshot[j]
      BY <1>1, <2>1
    <2>5. UNCHANGED <<plan, version>>
      BY <1>2, <2>1
    <2>6. DisturbsNobody(c, i, "reserved")
      BY <2>3 DEF DisturbsNobody
    <2> QED BY <1>1, <1>2, <2>1, <2>2, <2>4, <2>5, <2>6, PhaseCommits
  <1>5. CASE t.op = "close"
    <2>1. /\ phase' = [phase EXCEPT ![i] = "closed"] /\ version' = version /\ snapshot' = snapshot
      BY <1>5 DEF Commit
    <2>2. Passed(t, "intent") /\ phase[i] # "absent"
      BY <1>5, AtCommit
    <2>3. ASSUME NEW d \in Clients, d # c, tx[d] # Idle
          PROVE  /\ Passed(tx[d], "decide") => tx[d].intent # i
                 /\ Passed(tx[d], "insert") => tx[d].intent # i
      <3>1. Passed(tx[d], "decide") \/ Passed(tx[d], "insert") => Passed(tx[d], "intent")
        BY <2>3, Reliance
      <3> QED BY <1>1, <2>2, <2>3, <3>1, LocksSeparate
    <2> HIDE DEF t, i
    <2>4. /\ "closed" \in {"ready", "reserved", "closed"} /\ "closed" # "reserved"
          /\ snapshot' \in [Intents -> Nat]
          /\ \A j \in Intents : phase[j] # "absent" => snapshot'[j] = snapshot[j]
      BY <1>1, <2>1
    <2>5. UNCHANGED <<plan, version>>
      BY <1>2, <2>1
    <2>6. DisturbsNobody(c, i, "closed")
      BY <2>3 DEF DisturbsNobody
    <2> QED BY <1>1, <1>2, <2>1, <2>4, <2>5, <2>6, PhaseCommits
  <1>6. CASE t.op = "remember"
    <2>1. /\ phase' = [phase EXCEPT ![i] = "ready"] /\ version' = version
          /\ snapshot' = [snapshot EXCEPT ![i] = t.seen]
      BY <1>6 DEF Commit
    <2>2. Passed(t, "intent") /\ phase[i] = "absent"
      BY <1>6, AtCommit
    <2>3. ASSUME NEW d \in Clients, d # c, tx[d] # Idle
          PROVE  /\ Passed(tx[d], "decide") => tx[d].intent # i
                 /\ Passed(tx[d], "insert") => tx[d].intent # i
      <3>1. Passed(tx[d], "decide") \/ Passed(tx[d], "insert") => Passed(tx[d], "intent")
        BY <2>3, Reliance
      <3> QED BY <1>1, <2>2, <2>3, <3>1, LocksSeparate
    <2>4. /\ "ready" \in {"ready", "reserved", "closed"} /\ "ready" # "reserved"
          /\ snapshot' \in [Intents -> Nat]
          /\ \A j \in Intents : phase[j] # "absent" => snapshot'[j] = snapshot[j]
      BY <1>1, <2>1, <2>2
    <2>5. UNCHANGED <<plan, version>>
      BY <1>2, <2>1
    <2>6. DisturbsNobody(c, i, "ready")
      BY <2>3 DEF DisturbsNobody
    <2> HIDE DEF t, i
    <2> QED BY <1>1, <1>2, <2>1, <2>4, <2>5, <2>6, PhaseCommits
  <1> QED BY <1>1, <1>3, <1>4, <1>5, <1>6 DEF Operations
-----------------------------------------------------------------------------
(* The theorems. *)

\* Nothing is reserved and nobody holds a lock at first.
LEMMA TransactionInit == Init => TransactionInvariant
  <1> SUFFICES ASSUME Init PROVE TransactionInvariant
    OBVIOUS
  <1>1. Types /\ \A c \in Clients : tx[c] = Idle
    BY DEF Init, Types
  <1>2. LocksExclude
    BY <1>1 DEF LocksExclude, Idle
  <1>3. OneReservationPerCustomer /\ ReservedSnapshotIsCurrent
    BY DEF Init, OneReservationPerCustomer, ReservedSnapshotIsCurrent
  <1> QED BY <1>1, <1>2, <1>3 DEF TransactionInvariant

\* Every statement, commit and crash keeps the invariant.
LEMMA TransactionStep == TransactionInvariant /\ [Next]_vars => TransactionInvariant'
  <1> SUFFICES ASSUME TransactionInvariant, [Next]_vars PROVE TransactionInvariant'
    OBVIOUS
  <1>1. CASE \E c \in Clients, i \in Intents, op \in Operations : Begin(c, i, op)
    BY <1>1, BeginKeeps
  <1>2. CASE \E c \in Clients : Step(c)
    BY <1>2, TakeLockKeeps, TestKeeps, CommitKeeps DEF Step
  <1>3. CASE \E c \in Clients : Crash(c)
    BY <1>3, RollBackKeeps DEF Crash
  <1>4. CASE UNCHANGED vars
    <2>1. Types' /\ LocksExclude'
      BY <1>4 DEF vars, TransactionInvariant, Types, LocksExclude
    <2>2. (\A d \in Clients : tx[d] # Idle => TransactionAgrees(tx[d]))'
      <3> SUFFICES ASSUME NEW d \in Clients, tx[d] # Idle PROVE TransactionAgrees(tx[d])'
        BY <1>4 DEF vars
      <3>1. TransactionAgrees(tx[d])
        BY DEF TransactionInvariant
      <3>2. UNCHANGED <<plan, phase, snapshot, version, tx>>
        BY <1>4 DEF vars
      <3> QED BY <3>1, <3>2 DEF TransactionAgrees, OnScript, Passed, LockFor, Reservable,
                                Unreserved, Customer, RowOf
    <2>3. OneReservationPerCustomer' /\ ReservedSnapshotIsCurrent'
      BY <1>4 DEF vars, TransactionInvariant, OneReservationPerCustomer, ReservedSnapshotIsCurrent,
                  Customer, RowOf
    <2> QED BY <2>1, <2>2, <2>3 DEF TransactionInvariant
  <1> QED BY <1>1, <1>2, <1>3, <1>4 DEF Next, Operations

\* What the transactions of the host's repositories have tested under their
\* locks stays true until they commit.
THEOREM TransactionInvariantHolds == Spec => []TransactionInvariant
  BY TransactionInit, TransactionStep, PTL DEF Spec

\* Across action groups a customer has at most one unresolved reservation:
\* reserve_in's conflict query is protected by the customer's lock.
THEOREM OneReservation == Spec => []OneReservationPerCustomer
  <1>1. TransactionInvariant => OneReservationPerCustomer
    BY DEF TransactionInvariant
  <1> QED BY <1>1, TransactionInvariantHolds, PTL

\* The snapshot of a reserved intent names the committed version of its row.
THEOREM SnapshotIsCurrent == Spec => []ReservedSnapshotIsCurrent
  <1>1. TransactionInvariant => ReservedSnapshotIsCurrent
    BY DEF TransactionInvariant
  <1> QED BY <1>1, TransactionInvariantHolds, PTL

\* guard_reserved_customer_resource lets no row of a customer change while a
\* reservation of the customer is unresolved.
THEOREM ReservationGuardsRows == Spec => NoUpdateUnderReservation
  <1>1. TransactionInvariant /\ [Next]_vars
          => [\A i \in Intents : version'[RowOf[i]] # version[RowOf[i]] => Unreserved(i)]_vars
    <2> SUFFICES ASSUME TransactionInvariant, Next, NEW i \in Intents,
                        version'[RowOf[i]] # version[RowOf[i]]
                 PROVE  Unreserved(i)
      OBVIOUS
    <2>1. PICK c \in Clients : Commit(c)
      BY DEF Next, Step, Begin, TakeLock, Test, Crash
    <2>2. tx[c].op = "update"
      BY <2>1 DEF Commit
    <2> QED BY <2>1, <2>2, UpdateCommits
  <1> QED BY <1>1, TransactionInvariantHolds, PTL DEF Spec, NoUpdateUnderReservation
=============================================================================
