------------------------ MODULE StripeWorkflowProofs ------------------------
(***************************************************************************)
(* Proofs about StripeWorkflow for any number of intents, objects, workers *)
(* and customers.                                                          *)
(*                                                                         *)
(* The properties say what the ledger promises; none is inductive, because *)
(* none says who may still send or close.  The invariant adds it: the call *)
(* that acquired a reservation is the only one that acts under it until it *)
(* has sent the request or closed the intent, and a call that is about to  *)
(* record an outcome has seen the settled object.                          *)
(***************************************************************************)
EXTENDS StripeWorkflow, TLAPS

LedgerEntry == [phase : Phases, close : Closings, snapshot : Snapshots]

\* The values every variable may take.
Types ==
  /\ plan \in Plans
  /\ ledger \in [Intents -> LedgerEntry]
  /\ version \in [Objects -> Nat] /\ foreign \in [Objects -> Nat]
  /\ writes \in [Objects -> Int]
  /\ effect \in [Intents -> {"none", "open", "done", "failed"}]
  /\ wire \subseteq Intents /\ revoked \subseteq Intents
  /\ sent \in [Intents -> Nat]
  /\ now \in 0..MaxTime
  /\ call \in [Workers -> Calls]
  /\ verdicts \subseteq Intents \X {"done", "failed"}

\* A request is sent once, and only its settled object closes what was sent.
EntryAgrees(i) ==
  /\ ledger[i].phase # "closed" => ledger[i].close = "none"
  /\ sent[i] <= 1
  /\ sent[i] > 0 => \/ ledger[i].phase = "reserved"
                    \/ ledger[i].close \in {"done", "failed"}
  /\ ledger[i].close \in {"done", "failed"} => effect[i] \in {"done", "failed"}
  /\ effect[i] # "none" \/ i \in wire => sent[i] > 0
  /\ i \in wire => effect[i] = "none"

\* The object carries no more than the approved snapshot says; refunds do not
\* require it.
Undisturbed(i) == Kind[i] # "refund" => writes[Object[i]] <= ledger[i].snapshot.writes

\* Between acquiring a reservation and sending or closing.
Holding == {"authorize", "current", "reauthorize", "preflight", "dispatch", "close"}

CallAgrees(c) ==
  /\ c.pc \in Holding => ledger[c.intent].phase = "reserved" /\ sent[c.intent] = 0
  /\ c.pc = "preflight" => Kind[c.intent] = "refund"
  /\ c.pc \in {"reauthorize", "dispatch"} => Undisturbed(c.intent)
  /\ c.pc = "record" => effect[c.intent] \in {"done", "failed"}

OneHolder ==
  \A v, w \in Workers :
    call[v].pc \in Holding /\ call[w].pc \in Holding
      /\ call[v].intent = call[w].intent => v = w

OneReservation ==
  \A i, j \in Intents :
    ledger[i].phase = "reserved" /\ ledger[j].phase = "reserved"
      /\ Customer[i] = Customer[j] => i = j

WorkflowInvariant ==
  /\ Types
  /\ \A i \in Intents : EntryAgrees(i)
  /\ \A i \in wire : Undisturbed(i)
  /\ \A w \in Workers : CallAgrees(call[w])
  /\ OneHolder
  /\ OneReservation
  /\ VerdictsMatchLedger

-----------------------------------------------------------------------------
(* The plan, and the calls. *)

\* Intents on one object belong to one customer.
LEMMA PlanFields ==
  ASSUME plan \in Plans
  PROVE  /\ Kind \in [Intents -> Kinds]
         /\ Object \in [Intents -> Objects]
         /\ \A i, j \in Intents : Object[i] = Object[j] => Customer[i] = Customer[j]
  BY StripeAssumption DEF Kind, Object

\* A call at an await of execute has an intent and a deadline.
LEMMA ExecuteCall ==
  ASSUME NEW c \in Calls, c.pc \in ExecutePcs
  PROVE  c \in [pc : ExecutePcs, intent : Intents, notAfter : 0..MaxTime]
  BY DEF Calls, ExecutePcs, Idle

\* A call at the await of verify has an intent and the outcome it read.
LEMMA RecordCall ==
  ASSUME NEW c \in Calls, c.pc = "record"
  PROVE  c \in [pc : {"record"}, intent : Intents, outcome : {"done", "failed"}]
  BY DEF Calls, ExecutePcs, Idle

\* A call that is not idle has an intent.
LEMMA CallIntent ==
  ASSUME NEW c \in Calls, c.pc # "idle"
  PROVE  c.intent \in Intents
  BY DEF Calls, Idle

\* Goto moves one call of execute and keeps its intent.
LEMMA GotoFields ==
  ASSUME call \in [Workers -> Calls], NEW w \in Workers, NEW pc \in ExecutePcs,
         call[w].pc \in ExecutePcs, Goto(w, pc)
  PROVE  /\ call' \in [Workers -> Calls]
         /\ \A v \in Workers : v # w => call'[v] = call[v]
         /\ call'[w].pc = pc
         /\ call'[w].intent = call[w].intent
  <1> DEFINE c == call[w]
             d == [c EXCEPT !.pc = pc]
  <1>1. c \in [pc : ExecutePcs, intent : Intents, notAfter : 0..MaxTime]
    BY ExecuteCall
  <1>2. /\ d \in [pc : ExecutePcs, intent : Intents, notAfter : 0..MaxTime]
        /\ d.pc = pc /\ d.intent = c.intent
    BY <1>1
  <1>3. d \in Calls
    BY <1>2 DEF Calls
  <1>4. call' = [call EXCEPT ![w] = d]
    BY DEF Goto
  <1> QED BY <1>2, <1>3, <1>4

\* Return ends one call.
LEMMA ReturnFields ==
  ASSUME call \in [Workers -> Calls], NEW w \in Workers, Return(w)
  PROVE  /\ call' \in [Workers -> Calls]
         /\ \A v \in Workers : v # w => call'[v] = call[v]
         /\ call'[w].pc = "idle"
  BY DEF Return, Calls, Idle

\* A step that only moves one call keeps the invariant if the call agrees with
\* the state, and holds a reservation only if it already did.
LEMMA CallStep ==
  ASSUME WorkflowInvariant, NEW w \in Workers,
         UNCHANGED <<ledger, provider, sent, verdicts>>,
         revoked' \subseteq Intents, now' \in 0..MaxTime,
         call' \in [Workers -> Calls],
         \A v \in Workers : v # w => call'[v] = call[v],
         CallAgrees(call'[w]),
         call'[w].pc \in Holding =>
           call[w].pc \in Holding /\ call'[w].intent = call[w].intent
  PROVE  WorkflowInvariant'
  <1>1. Types' /\ (\A i \in Intents : EntryAgrees(i))' /\ (\A i \in wire : Undisturbed(i))'
    BY DEF WorkflowInvariant, Types, EntryAgrees, Undisturbed, provider, Kind, Object
  <1>2. (\A v \in Workers : CallAgrees(call[v]))'
    BY DEF WorkflowInvariant, CallAgrees, Undisturbed, provider, Kind, Object
  <1>3. OneHolder'
    BY DEF WorkflowInvariant, OneHolder
  <1>4. OneReservation' /\ VerdictsMatchLedger'
    BY DEF WorkflowInvariant, OneReservation, VerdictsMatchLedger
  <1> QED BY <1>1, <1>2, <1>3, <1>4 DEF WorkflowInvariant

\* A step of execute that goes to another await without touching anything else.
LEMMA GotoStep ==
  ASSUME WorkflowInvariant, NEW w \in Workers, NEW pc \in ExecutePcs,
         call[w].pc \in ExecutePcs, Goto(w, pc),
         UNCHANGED <<ledger, provider, sent, revoked, now, verdicts>>,
         pc \in Holding => call[w].pc \in Holding,
         pc = "preflight" => Kind[call[w].intent] = "refund",
         pc \in {"reauthorize", "dispatch"} => Undisturbed(call[w].intent)
  PROVE  WorkflowInvariant'
  <1>1. /\ call' \in [Workers -> Calls]
        /\ \A v \in Workers : v # w => call'[v] = call[v]
        /\ call'[w].pc = pc
        /\ call'[w].intent = call[w].intent
    BY GotoFields DEF WorkflowInvariant, Types
  <1>2. CallAgrees(call'[w])
    BY <1>1 DEF WorkflowInvariant, CallAgrees, ExecutePcs
  <1>3. revoked' \subseteq Intents /\ now' \in 0..MaxTime
    BY DEF WorkflowInvariant, Types
  <1> QED BY <1>1, <1>2, <1>3, CallStep

\* A call that ends without touching anything else.
LEMMA ReturnStep ==
  ASSUME WorkflowInvariant, NEW w \in Workers, Return(w),
         UNCHANGED <<ledger, provider, sent, revoked, now, verdicts>>
  PROVE  WorkflowInvariant'
  <1>1. /\ call' \in [Workers -> Calls]
        /\ \A v \in Workers : v # w => call'[v] = call[v]
        /\ call'[w].pc = "idle"
    BY ReturnFields DEF WorkflowInvariant, Types
  <1>2. CallAgrees(call'[w]) /\ call'[w].pc \notin Holding
    BY <1>1 DEF CallAgrees, Holding
  <1>3. revoked' \subseteq Intents /\ now' \in 0..MaxTime
    BY DEF WorkflowInvariant, Types
  <1> QED BY <1>1, <1>2, <1>3, CallStep
-----------------------------------------------------------------------------
(* Steps that only move a call. *)

\* _current of each group compares the object with the snapshot.
LEMMA CurrentIsUndisturbed ==
  ASSUME plan \in Plans, writes \in [Objects -> Int], NEW i \in Intents, Current(i)
  PROVE  Undisturbed(i)
  <1>1. Kind[i] \in Kinds /\ writes[Object[i]] \in Int
    BY PlanFields
  <1>2. CASE Kind[i] = "refund"
    BY <1>2 DEF Undisturbed
  <1>3. CASE Kind[i] = "credit_note"
    <2>1. CreditNoteCurrent(i)
      BY <1>3 DEF Current
    <2>2. ledger[i].snapshot = InvoiceObserved(i)
      BY <2>1 DEF CreditNoteCurrent
    <2> QED BY <1>1, <2>2 DEF InvoiceObserved, Undisturbed
  <1>4. CASE Kind[i] = "subscription"
    <2>1. SubscriptionCurrent(i)
      BY <1>4 DEF Current
    <2>2. ledger[i].snapshot = SubscriptionObserved(i)
      BY <2>1 DEF SubscriptionCurrent
    <2> QED BY <1>1, <2>2 DEF SubscriptionObserved, Undisturbed
  <1> QED BY <1>1, <1>2, <1>3, <1>4 DEF Kinds

\* The steps of execute that test and go on, each call's own.
LEMMA ExecuteKeeps ==
  ASSUME WorkflowInvariant, NEW w \in Workers,
         Admit(w) \/ Authorize(w) \/ Recheck(w) \/ Reauthorize(w) \/ Preflight(w) \/ Answer(w)
           \/ Crash(w)
  PROVE  WorkflowInvariant'
  <1> DEFINE c == call[w]
  <1> USE DEF Holding, ExecutePcs
  <1>1. CASE Admit(w)
    BY <1>1, GotoStep, ReturnStep DEF Admit
  <1>2. CASE Authorize(w)
    <2>1. CASE c.intent \in revoked
      BY <1>2, <2>1, GotoStep DEF Authorize
    <2>2. CASE c.intent \notin revoked /\ Kind[c.intent] = "refund"
      BY <1>2, <2>2, GotoStep DEF Authorize
    <2>3. CASE c.intent \notin revoked /\ Kind[c.intent] # "refund"
      BY <1>2, <2>3, GotoStep DEF Authorize
    <2> QED BY <2>1, <2>2, <2>3
  <1>3. CASE Recheck(w)
    <2>1. c.pc = "current" /\ UNCHANGED <<ledger, provider, sent, revoked, now, verdicts>>
      BY <1>3 DEF Recheck
    <2>2. c \in Calls /\ plan \in Plans /\ writes \in [Objects -> Int]
      BY DEF WorkflowInvariant, Types
    <2>3. c.intent \in Intents
      BY <2>1, <2>2, CallIntent
    <2>4. CASE Goto(w, "reauthorize") /\ Current(c.intent)
      BY <2>1, <2>2, <2>3, <2>4, GotoStep, CurrentIsUndisturbed
    <2>5. CASE Goto(w, "close")
      BY <2>1, <2>5, GotoStep
    <2>6. CASE Return(w)
      BY <2>1, <2>6, ReturnStep
    <2> QED BY <1>3, <2>4, <2>5, <2>6 DEF Recheck
  <1>4. CASE Reauthorize(w)
    <2>1. Undisturbed(c.intent)
      BY <1>4 DEF Reauthorize, WorkflowInvariant, CallAgrees
    <2> QED BY <1>4, <2>1, GotoStep DEF Reauthorize
  <1>5. CASE Preflight(w)
    <2>1. Undisturbed(c.intent)
      BY <1>5 DEF Preflight, WorkflowInvariant, CallAgrees, Undisturbed
    <2> QED BY <1>5, <2>1, GotoStep DEF Preflight
  <1>6. CASE Answer(w)
    BY <1>6, ReturnStep DEF Answer
  <1>7. CASE Crash(w)
    BY <1>7, ReturnStep DEF Crash
  <1> QED BY <1>1, <1>2, <1>3, <1>4, <1>5, <1>6, <1>7

\* execute and verify start; verify has read a settled object.
LEMMA StartKeeps ==
  ASSUME WorkflowInvariant, NEW w \in Workers, NEW i \in Intents,
         StartExecute(w, i) \/ StartVerify(w, i)
  PROVE  WorkflowInvariant'
  <1>1. /\ UNCHANGED <<ledger, provider, sent, revoked, now, verdicts>>
        /\ revoked' \subseteq Intents /\ now' \in 0..MaxTime
        /\ call \in [Workers -> Calls]
        /\ plan \in Plans /\ now \in Nat
    BY StripeAssumption DEF WorkflowInvariant, Types, StartExecute, StartVerify
  <1>2. CASE StartExecute(w, i)
    <2>1. PICK notAfter \in now..MaxTime :
            call' = [call EXCEPT ![w] = [pc |-> "admit", intent |-> i, notAfter |-> notAfter]]
      BY <1>2 DEF StartExecute
    <2> DEFINE d == [pc |-> "admit", intent |-> i, notAfter |-> notAfter]
    <2>2. notAfter \in 0..MaxTime
      BY <1>1, StripeAssumption
    <2>3. d \in Calls
      BY <2>2 DEF Calls, ExecutePcs
    <2>4. call' \in [Workers -> Calls] /\ call'[w] = d /\ \A v \in Workers : v # w => call'[v] = call[v]
      BY <1>1, <2>1, <2>3
    <2>5. CallAgrees(call'[w]) /\ call'[w].pc \notin Holding
      BY <2>4 DEF CallAgrees, Holding
    <2> QED BY <1>1, <2>4, <2>5, CallStep
  <1>3. CASE StartVerify(w, i)
    <2> DEFINE d == [pc |-> "record", intent |-> i, outcome |-> Verdict(i)]
    <2>0. CASE Verdict(i) \notin {"done", "failed"}
      <3>1. call' = call /\ call[w].pc = "idle"
        BY <1>3, <2>0 DEF StartVerify, Idle
      <3>2. CallAgrees(call'[w]) /\ call'[w].pc \notin Holding
        BY <3>1 DEF CallAgrees, Holding
      <3> QED BY <1>1, <3>1, <3>2, CallStep
    <2> SUFFICES ASSUME Verdict(i) \in {"done", "failed"} PROVE WorkflowInvariant'
      BY <2>0
    <2>1. Verdict(i) \in {"done", "failed"} /\ call' = [call EXCEPT ![w] = d]
      BY <1>3 DEF StartVerify
    <2>2. effect[i] \in {"done", "failed"}
      <3>1. Kind[i] \in Kinds
        BY <1>1, PlanFields
      <3> QED BY <2>1, <3>1 DEF Kinds, Verdict, RefundVerdict, CreditNoteVerdict, SubscriptionVerdict
    <2>3. d \in Calls
      BY <2>1 DEF Calls
    <2>4. call' \in [Workers -> Calls] /\ call'[w] = d /\ \A v \in Workers : v # w => call'[v] = call[v]
      BY <1>1, <2>1, <2>3
    <2>5. CallAgrees(call'[w]) /\ call'[w].pc \notin Holding
      BY <2>2, <2>4 DEF CallAgrees, Holding
    <2> QED BY <1>1, <2>4, <2>5, CallStep
  <1> QED BY <1>2, <1>3

-----------------------------------------------------------------------------
(* Steps on the ledger. *)

\* remember inserts a row for an intent that had none.
LEMMA PrepareKeeps ==
  ASSUME WorkflowInvariant, NEW i \in Intents, Prepare(i)
  PROVE  WorkflowInvariant'
  <1>1. PICK seen \in [version : 0..version[Object[i]], writes : 0..SentTo(Object[i]),
                       foreign : 0..foreign[Object[i]]] :
          /\ Remembered(ledger[i], seen) = "created"
          /\ ledger' = [ledger EXCEPT ![i] = Entry("ready", "none", seen)]
    BY DEF Prepare
  <1>2. UNCHANGED <<provider, sent, revoked, now, call, verdicts>>
    BY DEF Prepare
  <1>3. ledger[i].phase = "absent"
    BY <1>1 DEF Remembered
  <1>4. Entry("ready", "none", seen) \in LedgerEntry
    BY <1>1 DEF Snapshots, Entry, LedgerEntry, Phases, Closings
  <1>5. /\ ledger' \in [Intents -> LedgerEntry]
        /\ ledger'[i].phase = "ready" /\ ledger'[i].close = "none"
        /\ \A j \in Intents : j # i => ledger'[j] = ledger[j]
    BY <1>1, <1>4 DEF WorkflowInvariant, Types, Entry
  <1>6. Types'
    BY <1>2, <1>5 DEF WorkflowInvariant, Types, provider
  <1>7. sent[i] = 0 /\ i \notin wire
    BY <1>3 DEF WorkflowInvariant, Types, EntryAgrees
  <1>8. (\A j \in Intents : EntryAgrees(j))'
    BY <1>2, <1>5, <1>7 DEF WorkflowInvariant, EntryAgrees, provider
  <1>9. (\A j \in wire : Undisturbed(j))'
    BY <1>2, <1>5, <1>7 DEF WorkflowInvariant, Types, Undisturbed, provider, Kind, Object
  <1>10. (\A w \in Workers : CallAgrees(call[w]))'
    <2> SUFFICES ASSUME NEW w \in Workers PROVE CallAgrees(call[w])'
      OBVIOUS
    <2>1. call[w].pc # "idle" => call[w].intent \in Intents
      BY CallIntent DEF WorkflowInvariant, Types
    <2>2. CallAgrees(call[w])
      BY DEF WorkflowInvariant
    <2>3. call[w].pc \in Holding => call[w].intent # i
      BY <1>3, <2>2 DEF CallAgrees
    <2> QED BY <1>2, <1>5, <2>1, <2>2, <2>3
            DEF CallAgrees, Undisturbed, Holding, provider, Kind, Object
  <1>11. OneHolder' /\ OneReservation'
    BY <1>2, <1>5 DEF WorkflowInvariant, OneHolder, OneReservation
  <1>12. VerdictsMatchLedger'
    BY <1>2, <1>3, <1>5 DEF WorkflowInvariant, Types, VerdictsMatchLedger
  <1> QED BY <1>6, <1>8, <1>9, <1>10, <1>11, <1>12 DEF WorkflowInvariant

\* reserve_in acquires a ready intent of a customer without a reservation.
LEMMA ReserveKeeps ==
  ASSUME WorkflowInvariant, NEW w \in Workers, Reserve(w)
  PROVE  WorkflowInvariant'
  <1> DEFINE i == call[w].intent
  <1>1. /\ call[w].pc = "reserve"
        /\ UNCHANGED <<provider, sent, revoked, now, verdicts>>
        /\ \/ /\ ReserveIn(ledger, i, ledger[i].snapshot, now, call[w].notAfter) = "acquired"
              /\ ledger' = [ledger EXCEPT ![i].phase = "reserved"]
              /\ Goto(w, "authorize")
           \/ Return(w) /\ UNCHANGED ledger
    BY DEF Reserve
  <1>2. CASE Return(w) /\ UNCHANGED ledger
    BY <1>1, <1>2, ReturnStep
  <1>3. CASE /\ ReserveIn(ledger, i, ledger[i].snapshot, now, call[w].notAfter) = "acquired"
             /\ ledger' = [ledger EXCEPT ![i].phase = "reserved"]
             /\ Goto(w, "authorize")
    <2>1. i \in Intents /\ call \in [Workers -> Calls]
      BY <1>1, CallIntent DEF WorkflowInvariant, Types
    <2>2. /\ ledger[i].phase = "ready"
          /\ \A j \in Intents : j # i /\ Customer[j] = Customer[i] => ledger[j].phase # "reserved"
      BY <1>3, <2>1 DEF ReserveIn
    <2>3. /\ ledger' \in [Intents -> LedgerEntry]
          /\ ledger'[i].phase = "reserved" /\ ledger'[i].close = ledger[i].close
          /\ ledger'[i].snapshot = ledger[i].snapshot
          /\ \A j \in Intents : j # i => ledger'[j] = ledger[j]
      <3>1. ledger \in [Intents -> LedgerEntry]
        BY DEF WorkflowInvariant, Types
      <3>2. PICK e : e = [ledger[i] EXCEPT !.phase = "reserved"]
        OBVIOUS
      <3>3. /\ e \in LedgerEntry /\ e.phase = "reserved"
            /\ e.close = ledger[i].close /\ e.snapshot = ledger[i].snapshot
        BY <2>1, <3>1, <3>2 DEF LedgerEntry, Phases
      <3>4. ledger' = [ledger EXCEPT ![i] = e]
        BY <1>3, <2>1, <3>1, <3>2
      <3> HIDE DEF i
      <3> QED BY <2>1, <3>1, <3>3, <3>4
    <2>4. /\ call' \in [Workers -> Calls]
          /\ \A v \in Workers : v # w => call'[v] = call[v]
          /\ call'[w].pc = "authorize"
          /\ call'[w].intent = i
      <3> HIDE DEF i
      <3> QED BY <1>1, <1>3, <2>1, GotoFields DEF ExecutePcs, i
    <2>5. Types'
      BY <1>1, <2>3, <2>4 DEF WorkflowInvariant, Types, provider
    <2>6. sent[i] = 0
      BY <2>1, <2>2 DEF WorkflowInvariant, Types, EntryAgrees
    <2>7. (\A j \in Intents : EntryAgrees(j))'
      BY <1>1, <2>1, <2>2, <2>3, <2>6 DEF WorkflowInvariant, EntryAgrees, provider
    <2>8. (\A j \in wire : Undisturbed(j))'
      BY <1>1, <2>1, <2>3 DEF WorkflowInvariant, Types, Undisturbed, provider, Kind, Object
    <2>9. \A v \in Workers : call[v].pc \in Holding => call[v].intent # i
      BY <2>2 DEF WorkflowInvariant, CallAgrees
    <2>10. (\A v \in Workers : CallAgrees(call[v]))'
      <3> SUFFICES ASSUME NEW v \in Workers PROVE CallAgrees(call[v])'
        OBVIOUS
      <3>1. CASE v = w
        BY <1>1, <2>3, <2>4, <2>6, <3>1 DEF CallAgrees
      <3>2. CASE v # w
        <4>1. call[v].pc # "idle" => call[v].intent \in Intents
          BY <2>1, CallIntent
        <4>2. CallAgrees(call[v])
          BY DEF WorkflowInvariant
        <4> QED BY <1>1, <2>3, <2>4, <2>9, <3>2, <4>1, <4>2
                DEF CallAgrees, Undisturbed, Holding, provider, Kind, Object
      <3> QED BY <3>1, <3>2
    <2>11. OneHolder'
      BY <2>4, <2>9 DEF WorkflowInvariant, OneHolder
    <2>12. OneReservation'
      BY <2>1, <2>2, <2>3 DEF WorkflowInvariant, OneReservation
    <2>13. VerdictsMatchLedger'
      BY <1>1, <2>2, <2>3 DEF WorkflowInvariant, Types, VerdictsMatchLedger
    <2> QED BY <2>5, <2>7, <2>8, <2>10, <2>11, <2>12, <2>13 DEF WorkflowInvariant
  <1> QED BY <1>1, <1>2, <1>3

\* _close_in records nothing on an absent or closed row, and an outcome only on
\* a reserved one.
LEMMA ClosingFields ==
  ASSUME WorkflowInvariant, NEW i \in Intents, NEW close \in {"no_submission", "done", "failed"},
         CloseIn(ledger[i], close) = "recorded"
  PROVE  /\ ledger[i].phase \in {"ready", "reserved"}
         /\ close # "no_submission" => ledger[i].phase = "reserved"
         /\ Closed(i, close) \in [Intents -> LedgerEntry]
         /\ Closed(i, close)[i].phase = "closed" /\ Closed(i, close)[i].close = close
         /\ Closed(i, close)[i].snapshot = ledger[i].snapshot
         /\ \A j \in Intents : j # i => Closed(i, close)[j] = ledger[j]
  <1>1. ledger \in [Intents -> LedgerEntry]
    BY DEF WorkflowInvariant, Types
  <1>2. ledger[i].phase \in Phases
    BY <1>1 DEF LedgerEntry
  <1>3. /\ ledger[i].phase \in {"ready", "reserved"}
        /\ close # "no_submission" => ledger[i].phase = "reserved"
    BY <1>2 DEF CloseIn, Phases
  <1>4. Closed(i, close) = [ledger EXCEPT ![i].phase = "closed", ![i].close = close]
    BY DEF Closed
  <1> DEFINE e == [[ledger[i] EXCEPT !.phase = "closed"] EXCEPT !.close = close]
             x == Closed(i, close)
  <1>5. /\ e \in LedgerEntry
        /\ e.phase = "closed" /\ e.close = close /\ e.snapshot = ledger[i].snapshot
    BY <1>1 DEF LedgerEntry, Phases, Closings
  <1>6. x = [ledger EXCEPT ![i] = e]
    BY <1>1, <1>4
  <1> HIDE DEF e, x
  <1>7. /\ x \in [Intents -> LedgerEntry] /\ x[i] = e
        /\ \A j \in Intents : j # i => x[j] = ledger[j]
    BY <1>1, <1>5, <1>6
  <1> QED BY <1>3, <1>5, <1>7 DEF x

\* Closing an intent that no other call holds, by the call that ends.
LEMMA CloseKeeps ==
  ASSUME WorkflowInvariant, NEW w \in Workers, NEW i \in Intents,
         NEW close \in {"no_submission", "done", "failed"},
         CloseIn(ledger[i], close) = "recorded",
         ledger' = Closed(i, close), Return(w),
         UNCHANGED <<provider, sent, revoked, now>>,
         verdicts' \subseteq verdicts \union ({<<i, close>>} \cap (Intents \X {"done", "failed"})),
         \A v \in Workers : v # w => ~(call[v].pc \in Holding /\ call[v].intent = i),
         close = "no_submission" => sent[i] = 0,
         close # "no_submission" => effect[i] \in {"done", "failed"}
  PROVE  WorkflowInvariant'
  <1>1. /\ ledger[i].phase \in {"ready", "reserved"}
        /\ ledger' \in [Intents -> LedgerEntry]
        /\ ledger'[i].phase = "closed" /\ ledger'[i].close = close
        /\ ledger'[i].snapshot = ledger[i].snapshot
        /\ \A j \in Intents : j # i => ledger'[j] = ledger[j]
    BY ClosingFields
  <1>2. /\ call \in [Workers -> Calls]
        /\ call' \in [Workers -> Calls]
        /\ \A v \in Workers : v # w => call'[v] = call[v]
        /\ call'[w].pc = "idle"
    BY ReturnFields DEF WorkflowInvariant, Types
  <1>3. Types'
    BY <1>1, <1>2 DEF WorkflowInvariant, Types, provider
  <1>4. (\A j \in Intents : EntryAgrees(j))'
    BY <1>1 DEF WorkflowInvariant, Types, EntryAgrees, provider
  <1>5. (\A j \in wire : Undisturbed(j))'
    BY <1>1 DEF WorkflowInvariant, Types, Undisturbed, provider, Kind, Object
  <1>6. (\A v \in Workers : CallAgrees(call[v]))'
    <2> SUFFICES ASSUME NEW v \in Workers PROVE CallAgrees(call[v])'
      OBVIOUS
    <2>1. CASE v = w
      BY <1>2, <2>1 DEF CallAgrees, Holding
    <2>2. CASE v # w
      <3>1. call[v].pc # "idle" => call[v].intent \in Intents
        BY <1>2, CallIntent
      <3>2. CallAgrees(call[v])
        BY DEF WorkflowInvariant
      <3> QED BY <1>1, <1>2, <2>2, <3>1, <3>2
              DEF CallAgrees, Undisturbed, Holding, provider, Kind, Object
    <2> QED BY <2>1, <2>2
  <1>7. OneHolder'
    BY <1>2 DEF WorkflowInvariant, OneHolder, Holding
  <1>8. OneReservation'
    BY <1>1 DEF WorkflowInvariant, OneReservation
  <1>9. VerdictsMatchLedger'
    <2> SUFFICES ASSUME NEW v \in verdicts'
                 PROVE  ledger'[v[1]].phase = "closed" /\ ledger'[v[1]].close = v[2]
      BY DEF VerdictsMatchLedger
    <2>1. CASE v = <<i, close>>
      BY <1>1, <2>1
    <2>2. CASE v \in verdicts
      BY <1>1, <2>2 DEF WorkflowInvariant, Types, VerdictsMatchLedger
    <2> QED BY <2>1, <2>2
  <1> QED BY <1>3, <1>4, <1>5, <1>6, <1>7, <1>8, <1>9 DEF WorkflowInvariant

\* record_no_submission closes what its own call reserved and never sent.
LEMMA NoSubmissionKeeps ==
  ASSUME WorkflowInvariant, NEW w \in Workers, RecordNoSubmission(w)
  PROVE  WorkflowInvariant'
  <1> DEFINE i == call[w].intent
  <1>1. /\ call[w].pc = "close" /\ Return(w)
        /\ UNCHANGED <<provider, sent, revoked, now, verdicts>>
        /\ ledger' = IF CloseIn(ledger[i], "no_submission") = "recorded"
                     THEN Closed(i, "no_submission") ELSE ledger
    BY DEF RecordNoSubmission
  <1>2. i \in Intents
    BY <1>1, CallIntent DEF WorkflowInvariant, Types
  <1>3. sent[i] = 0 /\ \A v \in Workers : v # w => ~(call[v].pc \in Holding /\ call[v].intent = i)
    BY <1>1 DEF WorkflowInvariant, CallAgrees, OneHolder, Holding
  <1>4. CASE CloseIn(ledger[i], "no_submission") = "recorded"
    <2>1. verdicts' \subseteq
            verdicts \union ({<<i, "no_submission">>} \cap (Intents \X {"done", "failed"}))
      BY <1>1
    <2> HIDE DEF i
    <2> QED BY <1>1, <1>2, <1>3, <1>4, <2>1, CloseKeeps
  <1>5. CASE CloseIn(ledger[i], "no_submission") # "recorded"
    BY <1>1, <1>5, ReturnStep
  <1> QED BY <1>4, <1>5

\* A call that holds a reservation has sent nothing, so no object of it settled.
LEMMA SettledIsNotHeld ==
  ASSUME WorkflowInvariant, NEW i \in Intents, effect[i] # "none" \/ i \in wire, NEW v \in Workers
  PROVE  ~(call[v].pc \in Holding /\ call[v].intent = i)
  BY DEF WorkflowInvariant, Types, CallAgrees, EntryAgrees

\* record_outcome closes a reserved intent with what the provider showed.
LEMMA OutcomeKeeps ==
  ASSUME WorkflowInvariant, NEW w \in Workers, RecordOutcome(w)
  PROVE  WorkflowInvariant'
  <1> DEFINE i == call[w].intent
             close == call[w].outcome
             status == CloseIn(ledger[i], close)
  <1>1. /\ call[w].pc = "record" /\ Return(w)
        /\ UNCHANGED <<provider, sent, revoked, now>>
        /\ ledger' = IF status = "recorded" THEN Closed(i, close) ELSE ledger
        /\ verdicts' = IF status \in {"recorded", "matched"}
                       THEN verdicts \union {<<i, close>>} ELSE verdicts
    BY DEF RecordOutcome
  <1>2. call \in [Workers -> Calls] /\ ledger \in [Intents -> LedgerEntry]
    BY DEF WorkflowInvariant, Types
  <1>3. i \in Intents /\ close \in {"done", "failed"}
    BY <1>1, <1>2, RecordCall
  <1>4. effect[i] \in {"done", "failed"}
    BY <1>1 DEF WorkflowInvariant, CallAgrees
  <1>5. \A v \in Workers : ~(call[v].pc \in Holding /\ call[v].intent = i)
    BY <1>3, <1>4, SettledIsNotHeld
  <1>6. CASE status = "recorded"
    <2>1. verdicts' \subseteq verdicts \union ({<<i, close>>} \cap (Intents \X {"done", "failed"}))
      BY <1>1, <1>3
    <2>2. close \in {"no_submission", "done", "failed"} /\ close # "no_submission"
      BY <1>3
    <2>3. CloseIn(ledger[i], close) = "recorded" /\ ledger' = Closed(i, close)
      BY <1>1, <1>6
    <2> HIDE DEF i, close
    <2> QED BY <1>1, <1>3, <1>4, <1>5, <2>1, <2>2, <2>3, CloseKeeps
  <1>7. CASE status = "matched"
    <2>1. ledger[i].phase \in Phases
      BY <1>2, <1>3 DEF LedgerEntry
    <2>2. ledger[i].phase = "closed" /\ ledger[i].close = close
      BY <1>7, <2>1 DEF CloseIn, Phases
    <2>3. ledger' = ledger /\ verdicts' = verdicts \union {<<i, close>>}
      BY <1>1, <1>7
    <2>4. <<i, close>>[1] = i /\ <<i, close>>[2] = close
      OBVIOUS
    <2> HIDE DEF i, close, status
    <2>5. verdicts' \subseteq Intents \X {"done", "failed"}
      BY <1>3, <2>3 DEF WorkflowInvariant, Types
    <2>6. VerdictsMatchLedger'
      BY <2>2, <2>3, <2>4 DEF WorkflowInvariant, VerdictsMatchLedger
    <2>7. /\ call' \in [Workers -> Calls]
          /\ \A v \in Workers : v # w => call'[v] = call[v]
          /\ call'[w].pc = "idle"
      BY <1>1, <1>2, ReturnFields
    <2>8. Types' /\ (\A j \in Intents : EntryAgrees(j))' /\ (\A j \in wire : Undisturbed(j))'
      BY <1>1, <2>3, <2>5, <2>7
         DEF WorkflowInvariant, Types, EntryAgrees, Undisturbed, provider, Kind, Object
    <2>9. (\A v \in Workers : CallAgrees(call[v]))'
      BY <1>1, <2>3, <2>7
         DEF WorkflowInvariant, CallAgrees, Undisturbed, Holding, provider, Kind, Object
    <2>10. OneHolder' /\ OneReservation'
      BY <2>3, <2>7 DEF WorkflowInvariant, OneHolder, OneReservation, Holding
    <2> QED BY <2>6, <2>8, <2>9, <2>10 DEF WorkflowInvariant
  <1>8. CASE status \notin {"recorded", "matched"}
    BY <1>1, <1>8, ReturnStep
  <1> QED BY <1>6, <1>7, <1>8
-----------------------------------------------------------------------------
(* Steps of the provider, the network and the host. *)

\* Dispatch sends the request of an intent its call holds, or goes to close it.
LEMMA DispatchKeeps ==
  ASSUME WorkflowInvariant, NEW w \in Workers, Dispatch(w)
  PROVE  WorkflowInvariant'
  <1> DEFINE i == call[w].intent
  <1>1. /\ call[w].pc = "dispatch"
        /\ UNCHANGED <<plan, ledger, version, writes, foreign, effect, revoked, now, verdicts>>
        /\ \/ Goto(w, "close") /\ UNCHANGED <<wire, sent>>
           \/ /\ wire' = wire \union {i}
              /\ sent' = [sent EXCEPT ![i] = @ + 1]
              /\ Goto(w, "answer")
    BY DEF Dispatch
  <1>2. i \in Intents /\ call \in [Workers -> Calls]
    BY <1>1, CallIntent DEF WorkflowInvariant, Types
  <1>3. ledger[i].phase = "reserved" /\ sent[i] = 0 /\ Undisturbed(i)
    BY <1>1 DEF WorkflowInvariant, CallAgrees, Holding
  <1>4. CASE Goto(w, "close") /\ UNCHANGED <<wire, sent>>
    <2>1. UNCHANGED <<ledger, provider, sent, revoked, now, verdicts>>
      BY <1>1, <1>4 DEF provider
    <2> QED BY <1>1, <1>4, <2>1, GotoStep DEF Holding, ExecutePcs
  <1>5. CASE /\ wire' = wire \union {i}
             /\ sent' = [sent EXCEPT ![i] = @ + 1]
             /\ Goto(w, "answer")
    <2>1. /\ call' \in [Workers -> Calls]
          /\ \A v \in Workers : v # w => call'[v] = call[v]
          /\ call'[w].pc = "answer"
      <3> HIDE DEF i
      <3> QED BY <1>1, <1>2, <1>5, GotoFields DEF ExecutePcs
    <2>2. /\ sent' \in [Intents -> Nat] /\ sent'[i] = 1
          /\ \A j \in Intents : j # i => sent'[j] = sent[j]
      BY <1>2, <1>3, <1>5 DEF WorkflowInvariant, Types
    <2> HIDE DEF i
    <2>3. Types'
      BY <1>1, <1>2, <1>5, <2>1, <2>2 DEF WorkflowInvariant, Types
    <2>4. (\A j \in Intents : EntryAgrees(j))'
      <3> SUFFICES ASSUME NEW j \in Intents PROVE EntryAgrees(j)'
        OBVIOUS
      <3>1. EntryAgrees(j)
        BY DEF WorkflowInvariant
      <3>2. sent[j] \in Nat /\ sent'[j] \in Nat
        BY <2>2 DEF WorkflowInvariant, Types
      <3> QED BY <1>1, <1>3, <1>5, <2>2, <3>1, <3>2 DEF EntryAgrees
    <2>5. (\A j \in wire : Undisturbed(j))'
      BY <1>1, <1>3, <1>5 DEF WorkflowInvariant, Undisturbed, Kind, Object
    <2>6. \A v \in Workers : v # w => ~(call[v].pc \in Holding /\ call[v].intent = i)
      BY <1>1 DEF WorkflowInvariant, OneHolder, Holding, i
    <2>7. (\A v \in Workers : CallAgrees(call[v]))'
      <3> SUFFICES ASSUME NEW v \in Workers PROVE CallAgrees(call[v])'
        OBVIOUS
      <3>1. CASE v = w
        BY <2>1, <3>1 DEF CallAgrees, Holding
      <3>2. CASE v # w
        <4>1. call[v].pc # "idle" => call[v].intent \in Intents
          BY <1>2, CallIntent
        <4>2. CallAgrees(call[v])
          BY DEF WorkflowInvariant
        <4> QED BY <1>1, <2>1, <2>2, <2>6, <3>2, <4>1, <4>2
                DEF CallAgrees, Undisturbed, Holding, Kind, Object
      <3> QED BY <3>1, <3>2
    <2>8. OneHolder' /\ OneReservation' /\ VerdictsMatchLedger'
      BY <1>1, <2>1 DEF WorkflowInvariant, OneHolder, OneReservation, VerdictsMatchLedger, Holding
    <2> QED BY <2>3, <2>4, <2>5, <2>7, <2>8 DEF WorkflowInvariant
  <1> QED BY <1>1, <1>4, <1>5

\* A reservation keeps the other intents on its object from being reserved.
LEMMA ReservedAlone ==
  ASSUME WorkflowInvariant, NEW i \in Intents, NEW j \in Intents, i # j,
         ledger[i].phase = "reserved", ledger[j].phase = "reserved"
  PROVE  Object[i] # Object[j]
  BY PlanFields DEF WorkflowInvariant, Types, OneReservation

\* The provider changes the object of an intent that was sent: while others of
\* the object are not reserved, or if it only gives back, none is disturbed.
LEMMA ObjectStep ==
  ASSUME WorkflowInvariant, NEW i \in Intents, NEW status \in {"open", "done", "failed"},
         NEW n \in Int,
         sent[i] > 0,
         ledger[i].phase = "reserved" \/ n <= writes[Object[i]],
         effect[i] \in {"done", "failed"} => status # "open",
         effect' = [effect EXCEPT ![i] = status],
         writes' = [writes EXCEPT ![Object[i]] = n],
         wire' \subseteq wire, i \notin wire',
         UNCHANGED <<plan, ledger, version, foreign, sent, revoked, now, call, verdicts>>
  PROVE  WorkflowInvariant'
  <1>1. Types'
    BY PlanFields DEF WorkflowInvariant, Types
  <1>2. effect'[i] = status /\ \A j \in Intents : j # i => effect'[j] = effect[j]
    BY DEF WorkflowInvariant, Types
  <1>3. (\A j \in Intents : EntryAgrees(j))'
    <2> SUFFICES ASSUME NEW j \in Intents PROVE EntryAgrees(j)'
      OBVIOUS
    <2>1. EntryAgrees(j) /\ sent[j] \in Nat
      BY DEF WorkflowInvariant, Types
    <2> QED BY <1>2, <2>1 DEF EntryAgrees
  <1>4. \A j \in Intents : ledger[j].phase = "reserved" /\ j # i => writes'[Object[j]] <= writes[Object[j]]
    <2> SUFFICES ASSUME NEW j \in Intents, ledger[j].phase = "reserved", j # i
                 PROVE  writes'[Object[j]] <= writes[Object[j]]
      OBVIOUS
    <2>1. Object[i] \in Objects /\ Object[j] \in Objects /\ writes \in [Objects -> Int]
      BY PlanFields DEF WorkflowInvariant, Types
    <2>2. CASE Object[i] = Object[j]
      <3>1. n <= writes[Object[j]]
        BY <2>2, ReservedAlone
      <3> QED BY <2>1, <2>2, <3>1
    <2>3. CASE Object[i] # Object[j]
      BY <2>1, <2>3
    <2> QED BY <2>2, <2>3
  <1>5. \A j \in wire : ledger[j].phase = "reserved" /\ j \in Intents
    <2> SUFFICES ASSUME NEW j \in wire PROVE ledger[j].phase = "reserved" /\ j \in Intents
      OBVIOUS
    <2>1. j \in Intents /\ EntryAgrees(j)
      BY DEF WorkflowInvariant, Types
    <2> QED BY <2>1 DEF EntryAgrees
  <1>5a. \A j \in Intents : /\ writes'[Object[j]] \in Int /\ writes[Object[j]] \in Int
                           /\ ledger[j].snapshot.writes \in Int
    BY <1>1, PlanFields DEF WorkflowInvariant, Types, LedgerEntry, Snapshots
  <1>6. (\A j \in wire : Undisturbed(j))'
    <2> SUFFICES ASSUME NEW j \in wire' PROVE Undisturbed(j)'
      OBVIOUS
    <2>1. Undisturbed(j) /\ j \in Intents /\ writes'[Object[j]] <= writes[Object[j]]
      BY <1>4, <1>5 DEF WorkflowInvariant
    <2> QED BY <1>5a, <2>1 DEF Undisturbed, Kind, Object
  <1>7. (\A v \in Workers : CallAgrees(call[v]))'
    <2> SUFFICES ASSUME NEW v \in Workers PROVE CallAgrees(call[v])'
      OBVIOUS
    <2>1. call[v].pc # "idle" => call[v].intent \in Intents
      BY CallIntent DEF WorkflowInvariant, Types
    <2>2. CallAgrees(call[v])
      BY DEF WorkflowInvariant
    <2>3. call[v].pc \in Holding => /\ ledger[call[v].intent].phase = "reserved"
                                    /\ call[v].intent # i
      BY <2>2 DEF CallAgrees
    <2>4. call[v].pc = "record" => effect'[call[v].intent] \in {"done", "failed"}
      BY <1>2, <2>1, <2>2 DEF CallAgrees
    <2>5. call[v].pc \in Holding => writes'[Object[call[v].intent]] <= writes[Object[call[v].intent]]
      BY <1>4, <2>1, <2>3 DEF Holding
    <2>6. call[v].pc \in {"reauthorize", "dispatch"} => Undisturbed(call[v].intent)'
      BY <1>5a, <2>1, <2>2, <2>5 DEF CallAgrees, Undisturbed, Holding, Kind, Object
    <2> QED BY <2>2, <2>4, <2>6 DEF CallAgrees, Holding, Kind
  <1>8. OneHolder' /\ OneReservation' /\ VerdictsMatchLedger'
    BY DEF WorkflowInvariant, OneHolder, OneReservation, VerdictsMatchLedger
  <1> QED BY <1>1, <1>3, <1>6, <1>7, <1>8 DEF WorkflowInvariant

\* A step of the provider, the network or the host that concerns no intent.
LEMMA QuietStep ==
  ASSUME WorkflowInvariant, wire' \subseteq wire,
         version' \in [Objects -> Nat], foreign' \in [Objects -> Nat],
         revoked' \subseteq Intents, now' \in 0..MaxTime,
         UNCHANGED <<plan, ledger, writes, effect, sent, call, verdicts>>
  PROVE  WorkflowInvariant'
  <1>1. Types' /\ (\A j \in Intents : EntryAgrees(j))' /\ (\A j \in wire : Undisturbed(j))'
    BY DEF WorkflowInvariant, Types, EntryAgrees, Undisturbed, Kind, Object
  <1>2. (\A v \in Workers : CallAgrees(call[v]))'
    BY DEF WorkflowInvariant, CallAgrees, Undisturbed, Kind, Object
  <1>3. OneHolder' /\ OneReservation' /\ VerdictsMatchLedger'
    BY DEF WorkflowInvariant, OneHolder, OneReservation, VerdictsMatchLedger
  <1> QED BY <1>1, <1>2, <1>3 DEF WorkflowInvariant

\* A request arrives, is refused or repeated, or is lost.
LEMMA WireKeeps ==
  ASSUME WorkflowInvariant, NEW i \in Intents, Land(i) \/ Lose(i)
  PROVE  WorkflowInvariant'
  <1>1. /\ i \in wire /\ wire' = wire \ {i}
        /\ UNCHANGED <<plan, ledger, version, foreign, sent, revoked, now, call, verdicts>>
    BY DEF Land, Lose
  <1>2. /\ sent[i] > 0 /\ effect[i] = "none" /\ ledger[i].phase = "reserved"
        /\ plan \in Plans /\ writes \in [Objects -> Int]
    BY <1>1 DEF WorkflowInvariant, Types, EntryAgrees
  <1>3. CASE UNCHANGED <<writes, effect>>
    <2>1. /\ wire' \subseteq wire /\ version' \in [Objects -> Nat] /\ foreign' \in [Objects -> Nat]
          /\ revoked' \subseteq Intents /\ now' \in 0..MaxTime
      BY <1>1 DEF WorkflowInvariant, Types
    <2> QED BY <1>1, <1>3, <2>1, QuietStep
  <1>4. ASSUME NEW status \in {"open", "done", "failed"},
               effect' = [effect EXCEPT ![i] = status],
               writes' = [writes EXCEPT ![Object[i]] = IF status = "failed" THEN @ ELSE @ + 1]
        PROVE  WorkflowInvariant'
    <2> DEFINE n == IF status = "failed" THEN writes[Object[i]] ELSE writes[Object[i]] + 1
    <2>1. n \in Int /\ writes' = [writes EXCEPT ![Object[i]] = n]
      BY <1>2, <1>4, PlanFields
    <2> HIDE DEF n
    <2> QED BY <1>1, <1>2, <1>4, <2>1, ObjectStep
  <1>5. \/ UNCHANGED <<writes, effect>>
        \/ \E status \in {"open", "done", "failed"} :
              /\ effect' = [effect EXCEPT ![i] = status]
              /\ writes' = [writes EXCEPT ![Object[i]] = IF status = "failed" THEN @ ELSE @ + 1]
    BY DEF Land, Lose
  <1> QED BY <1>3, <1>4, <1>5

\* A pending refund settles or an issued credit note is voided.
LEMMA SettleKeeps ==
  ASSUME WorkflowInvariant, NEW i \in Intents, Settle(i)
  PROVE  WorkflowInvariant'
  <1>1. /\ effect[i] \in {"open", "done"}
        /\ UNCHANGED <<plan, ledger, version, foreign, wire, sent, revoked, now, call, verdicts>>
    BY DEF Settle
  <1>2. /\ sent[i] > 0 /\ i \notin wire'
        /\ effect[i] = "open" => ledger[i].phase = "reserved"
        /\ plan \in Plans /\ writes \in [Objects -> Int]
    BY <1>1 DEF WorkflowInvariant, Types, EntryAgrees
  <1>3. ASSUME NEW status \in {"done", "failed"}, effect[i] = "open",
               effect' = [effect EXCEPT ![i] = status],
               writes' = [writes EXCEPT ![Object[i]] = IF status = "failed" THEN @ - 1 ELSE @]
        PROVE  WorkflowInvariant'
    <2> DEFINE n == IF status = "failed" THEN writes[Object[i]] - 1 ELSE writes[Object[i]]
    <2>1. n \in Int /\ writes' = [writes EXCEPT ![Object[i]] = n]
      BY <1>2, <1>3, PlanFields
    <2>2. ledger[i].phase = "reserved" /\ status # "open" /\ wire' \subseteq wire
      BY <1>1, <1>2, <1>3
    <2> HIDE DEF n
    <2> QED BY <1>1, <1>2, <1>3, <2>1, <2>2, ObjectStep
  <1>4. CASE /\ effect' = [effect EXCEPT ![i] = "failed"]
             /\ writes' = [writes EXCEPT ![Object[i]] = @ - 1]
    <2> DEFINE n == writes[Object[i]] - 1
    <2>1. n \in Int /\ writes' = [writes EXCEPT ![Object[i]] = n] /\ wire' \subseteq wire
      BY <1>1, <1>2, <1>4, PlanFields
    <2>2. n <= writes[Object[i]]
      BY <1>2, PlanFields
    <2> HIDE DEF n
    <2> QED BY <1>1, <1>2, <1>4, <2>1, <2>2, ObjectStep
  <1> QED BY <1>3, <1>4 DEF Settle

\* What others do to the object, the host row, the requester and the clock.
LEMMA OutsideKeeps ==
  ASSUME WorkflowInvariant,
         \/ \E o \in Range(Object) : ForeignWrite(o) \/ HostWrite(o)
         \/ \E i \in Intents : Revoke(i)
         \/ Tick
  PROVE  WorkflowInvariant'
  <1>1. /\ plan \in Plans /\ version \in [Objects -> Nat] /\ foreign \in [Objects -> Nat]
        /\ revoked \subseteq Intents /\ now \in 0..MaxTime /\ MaxTime \in Nat
    BY StripeAssumption DEF WorkflowInvariant, Types
  <1>2. Range(Object) \subseteq Objects
    BY <1>1, PlanFields DEF Range
  <1>3. UNCHANGED <<plan, ledger, writes, effect, wire, sent, call, verdicts>>
    BY DEF ForeignWrite, HostWrite, Revoke, Tick, provider
  <1>4. version' \in [Objects -> Nat] /\ foreign' \in [Objects -> Nat]
    BY <1>1, <1>2 DEF ForeignWrite, HostWrite, Revoke, Tick, provider
  <1>5. revoked' \subseteq Intents /\ now' \in 0..MaxTime
    BY <1>1 DEF ForeignWrite, HostWrite, Revoke, Tick
  <1> QED BY <1>3, <1>4, <1>5, QuietStep
-----------------------------------------------------------------------------
(* The theorems. *)

\* Nothing is reserved, sent or recorded at first.
LEMMA WorkflowInit == Init => WorkflowInvariant
  <1> SUFFICES ASSUME Init PROVE WorkflowInvariant
    OBVIOUS
  <1>1. Types
    BY StripeAssumption DEF Init, Types, LedgerEntry, Snapshots, Entry, Phases, Closings, Calls
  <1>2. \A i \in Intents : EntryAgrees(i)
    BY DEF Init, EntryAgrees, Entry
  <1>3. \A w \in Workers : CallAgrees(call[w]) /\ call[w].pc \notin Holding
    BY DEF Init, CallAgrees, Holding, Idle
  <1>4. OneReservation /\ VerdictsMatchLedger /\ \A i \in wire : Undisturbed(i)
    BY DEF Init, OneReservation, VerdictsMatchLedger, Entry
  <1> QED BY <1>1, <1>2, <1>3, <1>4 DEF WorkflowInvariant, OneHolder

\* Every step of a worker, the provider, the network and the host keeps the
\* invariant.
LEMMA WorkflowStep == WorkflowInvariant /\ [Next]_vars => WorkflowInvariant'
  <1> SUFFICES ASSUME WorkflowInvariant, [Next]_vars PROVE WorkflowInvariant'
    OBVIOUS
  <1>1. CASE \E i \in Intents : Prepare(i) \/ Land(i) \/ Lose(i) \/ Settle(i) \/ Revoke(i)
    BY <1>1, PrepareKeeps, WireKeeps, SettleKeeps, OutsideKeeps
  <1>2. CASE \E w \in Workers : Step(w) \/ RecordOutcome(w) \/ Crash(w)
    BY <1>2, ExecuteKeeps, ReserveKeeps, DispatchKeeps, NoSubmissionKeeps, OutcomeKeeps DEF Step
  <1>3. CASE \E w \in Workers, i \in Intents : StartExecute(w, i) \/ StartVerify(w, i)
    BY <1>3, StartKeeps
  <1>4. CASE (\E o \in Range(Object) : ForeignWrite(o) \/ HostWrite(o)) \/ Tick
    BY <1>4, OutsideKeeps
  <1>5. CASE UNCHANGED vars
    <2>1. /\ wire' \subseteq wire /\ version' \in [Objects -> Nat] /\ foreign' \in [Objects -> Nat]
          /\ revoked' \subseteq Intents /\ now' \in 0..MaxTime
          /\ UNCHANGED <<plan, ledger, writes, effect, sent, call, verdicts>>
      BY <1>5 DEF vars, WorkflowInvariant, Types
    <2> QED BY <2>1, QuietStep
  <1> QED BY <1>1, <1>2, <1>3, <1>4, <1>5 DEF Next

\* Ledger, calls, requests and provider agree in every reachable state of the
\* Stripe workflows: one call acts under a reservation, one reservation exists
\* per customer, and what was sent is closed by its settled object only.
THEOREM WorkflowInvariantHolds == Spec => []WorkflowInvariant
  BY WorkflowInit, WorkflowStep, PTL DEF Spec

\* A reservation outlives everything that could still take effect, and an intent
\* closed by record_no_submission was never sent.
THEOREM ReservationOutlivesDoubt == Spec => []DoubtKeepsReservation
  <1>1. WorkflowInvariant => DoubtKeepsReservation
    BY DEF WorkflowInvariant, Types, LedgerEntry, EntryAgrees, DoubtKeepsReservation, InDoubt
  <1> QED BY <1>1, WorkflowInvariantHolds, PTL

\* No retry, late worker or restart of execute sends an intent a second time.
THEOREM SentOnce == Spec => []SentAtMostOnce
  <1>1. WorkflowInvariant => SentAtMostOnce
    BY DEF WorkflowInvariant, EntryAgrees, SentAtMostOnce
  <1> QED BY <1>1, WorkflowInvariantHolds, PTL

\* Every result verify returned is the closing the ledger keeps.
THEOREM VerdictsAgree == Spec => []VerdictsMatchLedger
  <1>1. WorkflowInvariant => VerdictsMatchLedger
    BY DEF WorkflowInvariant
  <1> QED BY <1>1, WorkflowInvariantHolds, PTL

\* A credit note or cancellation takes effect on an object that carries no
\* governed write beyond those of the approved snapshot.
THEOREM BillingIsApproved == Spec => BillingWritesApprovedState
  <1>1. WorkflowInvariant /\ [Next]_vars
          => [\A i \in Intents : Land(i) /\ Kind[i] # "refund"
                => writes[Object[i]] <= ledger[i].snapshot.writes]_vars
    BY DEF WorkflowInvariant, Undisturbed, Land
  <1> QED BY <1>1, WorkflowInvariantHolds, PTL DEF Spec, BillingWritesApprovedState
=============================================================================
