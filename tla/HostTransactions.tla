-------------------------- MODULE HostTransactions --------------------------
(***************************************************************************)
(* The transactions of the reference Stripe host: its refund, subscription *)
(* and credit note repositories lock a business row and the customer, and  *)
(* then call the ledger, which locks the customer's advisory key and the   *)
(* intent.  Other code of the host updates business rows under a trigger.  *)
(* StripeWorkflow takes each of these transactions as one step; this       *)
(* module shows why it may.                                                *)
(*                                                                         *)
(* Reads see committed rows only; what a transaction writes becomes        *)
(* visible at its commit.                                                  *)
(***************************************************************************)
EXTENDS Naturals, Sequences

CONSTANTS
  Clients,
  Intents, Rows,     \* ledger intents; payment, subscription and invoice rows
  Plans,             \* action group and business row of each intent
  CustomerOf,        \* customer of each business row
  MaxVersion         \* bound of host updates per row, one at a time

Kinds == {"refund", "subscription", "credit_note"}

ASSUME HostAssumption ==
  /\ Plans \subseteq [kind : [Intents -> Kinds], row : [Intents -> Rows]]
  /\ MaxVersion \in Nat

VARIABLES
  plan,       \* the plan of this behaviour, fixed
  phase,      \* phase of each intent in the ledger
  snapshot,   \* row version that the intent's snapshot names
  version,    \* version of each business row
  tx          \* the transaction of each client

vars == <<plan, phase, snapshot, version, tx>>
Kind == plan.kind
RowOf == plan.row
-----------------------------------------------------------------------------
(* The statements of each transaction.  "row", "customer", "advisory" and    *)
(* "intent" take a lock; "match", "guard", "decide" and "close" test.        *)

WithoutCustomerLock == <<"row", "match", "intent", "decide", "commit">>

RefundReserve == <<"row", "match", "customer", "advisory", "intent", "decide", "commit">>
SubscriptionReserve == <<"row", "match", "customer", "advisory", "intent", "decide", "commit">>
CreditNoteReserve == <<"row", "match", "customer", "advisory", "intent", "decide", "commit">>

LocksIntentFirst == <<"intent", "row", "customer", "close", "commit">>

\* The snapshot that names the row is read without a lock: it never changes.
RefundClose == <<"row", "customer", "intent", "close", "commit">>
SubscriptionClose == <<"row", "customer", "intent", "close", "commit">>
CreditNoteClose == <<"row", "customer", "intent", "close", "commit">>

\* The repositories read the row first, without a lock, for the customer's name.
RefundRemember == <<"intent", "insert", "commit">>
SubscriptionRemember == <<"intent", "insert", "commit">>
CreditNoteRemember == <<"intent", "insert", "commit">>

GuardsBeforeLocks == <<"guard", "row", "customer", "commit">>
SkipsCustomerLock == <<"row", "guard", "commit">>

\* guard_reserved_customer_resource
HostUpdate == <<"row", "customer", "guard", "commit">>

Statements(op, i) ==
  CASE op = "update" -> HostUpdate
    [] op = "reserve" -> [refund |-> RefundReserve, subscription |-> SubscriptionReserve,
                          credit_note |-> CreditNoteReserve][Kind[i]]
    [] op = "close" -> [refund |-> RefundClose, subscription |-> SubscriptionClose,
                        credit_note |-> CreditNoteClose][Kind[i]]
    [] op = "remember" -> [refund |-> RefundRemember, subscription |-> SubscriptionRemember,
                           credit_note |-> CreditNoteRemember][Kind[i]]
-----------------------------------------------------------------------------
Idle == [todo |-> <<>>, locks |-> {}]
Customer(i) == CustomerOf[RowOf[i]]
At(c, statement) == tx[c].todo # <<>> /\ Head(tx[c].todo) = statement

Init ==
  /\ plan \in Plans
  /\ phase = [i \in Intents |-> "absent"]
  /\ snapshot = [i \in Intents |-> 0]
  /\ version = [r \in Rows |-> 0]
  /\ tx = [c \in Clients |-> Idle]

\* The caller prepared its snapshot from the row some time ago.
Begin(c, i, op) ==
  /\ tx[c] = Idle
  /\ op = "update" => /\ version[RowOf[i]] < MaxVersion
                      /\ \A d \in Clients : tx[d] # Idle => tx[d].op # "update"
  /\ op \in {"reserve", "close"} => phase[i] # "absent"
  /\ op = "close" => phase[i] # "closed"
  /\ op = "remember" => phase[i] = "absent"
  /\ tx' = [tx EXCEPT ![c] = [todo |-> Statements(op, i), op |-> op, intent |-> i,
                              seen |-> version[RowOf[i]], locks |-> {}]]
  /\ UNCHANGED <<plan, phase, snapshot, version>>

\* SELECT ... FOR UPDATE, _lock_customer_resource, pg_advisory_xact_lock.
Wanted(c) ==
  CASE At(c, "row") -> <<"row", RowOf[tx[c].intent]>>
    [] At(c, "customer") -> <<"customer", Customer(tx[c].intent)>>
    [] At(c, "advisory") -> <<"advisory", Customer(tx[c].intent)>>
    [] At(c, "intent") -> <<"intent", tx[c].intent>>

TakeLock(c) ==
  /\ At(c, "row") \/ At(c, "customer") \/ At(c, "advisory") \/ At(c, "intent")
  /\ \A d \in Clients \ {c} : Wanted(c) \notin tx[d].locks
  /\ tx' = [tx EXCEPT ![c].todo = Tail(@), ![c].locks = @ \union {Wanted(c)}]
  /\ UNCHANGED <<plan, phase, snapshot, version>>

\* reserve_in after its locks: ready, and no other reservation of the customer.
Reservable(i) ==
  /\ phase[i] = "ready"
  /\ \A j \in Intents \ {i} : Customer(j) = Customer(i) => phase[j] # "reserved"

\* _close_in; a verifier's outcome and no_submission both close.
Closable(i) == phase[i] \in {"ready", "reserved"}

\* The repositories' row tests and the trigger's.
RowMatches(c) == version[RowOf[tx[c].intent]] = snapshot[tx[c].intent]
Unreserved(i) == \A j \in Intents : Customer(j) = Customer(i) => phase[j] # "reserved"

Holds(c) ==
  CASE At(c, "match") -> RowMatches(c)
    [] At(c, "guard") -> Unreserved(tx[c].intent)
    [] At(c, "decide") -> Reservable(tx[c].intent)
    [] At(c, "close") -> Closable(tx[c].intent)
    [] At(c, "insert") -> phase[tx[c].intent] = "absent"

\* A failed test ends the transaction without a write.
Test(c) ==
  /\ \E s \in {"match", "guard", "decide", "close", "insert"} : At(c, s)
  /\ tx' = IF Holds(c) THEN [tx EXCEPT ![c].todo = Tail(@)] ELSE [tx EXCEPT ![c] = Idle]
  /\ UNCHANGED <<plan, phase, snapshot, version>>

Commit(c) ==
  /\ At(c, "commit")
  /\ LET t == tx[c]
         next == [reserve |-> "reserved", close |-> "closed", remember |-> "ready"]
     IN /\ phase' = IF t.op = "update" THEN phase ELSE [phase EXCEPT ![t.intent] = next[t.op]]
        /\ version' = IF t.op = "update"
                      THEN [version EXCEPT ![RowOf[t.intent]] = @ + 1] ELSE version
        /\ snapshot' = IF t.op = "remember" THEN [snapshot EXCEPT ![t.intent] = t.seen] ELSE snapshot
  /\ tx' = [tx EXCEPT ![c] = Idle]
  /\ UNCHANGED plan

Crash(c) ==
  /\ tx[c] # Idle
  /\ tx' = [tx EXCEPT ![c] = Idle]
  /\ UNCHANGED <<plan, phase, snapshot, version>>

Step(c) == TakeLock(c) \/ Test(c) \/ Commit(c)

Next ==
  \/ \E c \in Clients, i \in Intents, op \in {"reserve", "close", "remember", "update"} : Begin(c, i, op)
  \/ \E c \in Clients : Step(c) \/ Crash(c)

Spec == Init /\ [][Next]_vars

\* PostgreSQL runs every transaction that is not waiting, and grants a lock that
\* is released again and again to each waiter in turn.
FairSpec == Spec /\ \A c \in Clients : SF_vars(Step(c))
-----------------------------------------------------------------------------
\* Across action groups a customer has at most one unresolved reservation in the
\* committed tables, whoever reserves at the same time (reserve_in's conflict
\* query reads other intents that it does not lock).
OneReservationPerCustomer ==
  \A i, j \in Intents : phase[i] = "reserved" /\ phase[j] = "reserved" /\ Customer(i) = Customer(j) => i = j

\* A reserved intent's snapshot names the committed version of its row.
ReservedSnapshotIsCurrent ==
  \A i \in Intents : phase[i] = "reserved" => version[RowOf[i]] = snapshot[i]

\* No business row of a customer changes while a reservation of that customer is
\* unresolved, also when both transactions began before either committed.
NoUpdateUnderReservation ==
  [][\A i \in Intents : version'[RowOf[i]] # version[RowOf[i]] => Unreserved(i)]_vars

\* Nobody waits for ever: the transactions lock in one order, row, customer,
\* advisory key, intent, so they end without PostgreSQL's deadlock detector.
TransactionsFinish == \A c \in Clients : tx[c] # Idle ~> tx[c] = Idle
=============================================================================
