--------------------------- MODULE StripeWorkflow ---------------------------
(***************************************************************************)
(* The Stripe executors and verifiers over the shared ledger: refunds      *)
(* (_RefundWorkflow, StripeRefundConnector), credit notes and subscription *)
(* changes (_Workflow and its subclasses), with the reference host         *)
(* repositories.  Workers call execute and verify for any remembered       *)
(* intent, step at every await, and may die at any of them.                *)
(*                                                                         *)
(* The provider keeps one object per business row (charge, invoice or      *)
(* subscription).  Its state is abstracted to how many governed and how    *)
(* many foreign writes it has seen: a snapshot is current exactly when     *)
(* both counts and the host row's version are the ones it was taken at.    *)
(***************************************************************************)
EXTENDS StripeLedger

CONSTANTS Workers,        \* processes that run execute and verify calls
          Objects,        \* provider objects
          Plans,          \* which group each intent belongs to and which object it changes
          Covers,         \* [Objects -> number of writes the object's amount covers]
          PeriodEnd,      \* when the current subscription period ends
          MaxTime,        \* bound of the clock
          MaxAttempts,    \* max_verification_attempts of the definitions
          MaxLost,        \* bound of verifications that die before they record
          MaxOutside      \* [Objects -> bound of changes made around this integration]

Kinds == {"refund", "credit_note", "subscription"}
Snapshots == [version : Nat, writes : Nat, foreign : Nat]

ASSUME StripeAssumption ==
  /\ Plans \subseteq [kind : [Intents -> Kinds], object : [Intents -> Objects]]
  /\ \A p \in Plans, i, j \in Intents : p.object[i] = p.object[j] => Customer[i] = Customer[j]
  /\ {Covers, MaxOutside} \subseteq [Objects -> Nat]
  /\ {PeriodEnd, MaxTime, MaxAttempts, MaxLost} \subseteq Nat

VARIABLES
  plan,      \* the plan of this behaviour, fixed
  ledger,    \* the intent ledger
  version,   \* version of the host row behind each object
  writes,    \* governed writes each object has received
  foreign,   \* other writes each object has received
  effect,    \* what the provider shows for an intent: none, open, done or failed
  wire,      \* intents whose create or update request is travelling
  sent,      \* how often a request was sent for an intent
  revoked,   \* intents whose requester lost execution authority
  now,       \* the clock of hosts and database
  call,      \* the call each worker is in
  verdicts,  \* verification results returned to the runtime
  tried,     \* verification attempts that reconcile has paid for
  lost       \* how many of them died

vars == <<plan, ledger, version, writes, foreign, effect, wire, sent, revoked, now, call, verdicts,
          tried, lost>>
attempts == <<tried, lost>>
provider == <<plan, version, writes, foreign, effect, wire>>

Kind == plan.kind
Object == plan.object

Idle == [pc |-> "idle"]
ExecutePcs == {"admit", "reserve", "authorize", "current", "reauthorize", "preflight", "dispatch",
               "answer", "close"}
Calls == {Idle}
         \union [pc : ExecutePcs, intent : Intents, notAfter : 0..MaxTime]
         \union [pc : {"record"}, intent : Intents, outcome : {"done", "failed"}]

\* What the host row and the provider's charge, invoice or subscription show now,
\* in the shape of a snapshot.
ChargeObserved(i) ==
  [version |-> version[Object[i]], writes |-> writes[Object[i]], foreign |-> foreign[Object[i]]]
InvoiceObserved(i) ==
  [version |-> version[Object[i]], writes |-> writes[Object[i]], foreign |-> foreign[Object[i]]]
SubscriptionObserved(i) ==
  [version |-> version[Object[i]], writes |-> writes[Object[i]], foreign |-> foreign[Object[i]]]
Observed(i) == CASE Kind[i] = "refund" -> ChargeObserved(i)
                 [] Kind[i] = "credit_note" -> InvoiceObserved(i)
                 [] Kind[i] = "subscription" -> SubscriptionObserved(i)

\* ChargeObservation.permits: what is left of the charge covers the amount.
RefundPermits(i, seen) == seen.writes + seen.foreign < Covers[Object[i]]

\* InvoiceObservation.permits: what remains of the invoice covers the credit.  An
\* invoice whose credits go to the customer's balance covers any number of them.
InvoicePermits(i, seen) == seen.writes + seen.foreign < Covers[Object[i]]

\* SubscriptionObservation.permits: the paid period is still running.
SubscriptionPermits(i, seen) == now < PeriodEnd

Permits(i, seen) == CASE Kind[i] = "refund" -> RefundPermits(i, seen)
                      [] Kind[i] = "credit_note" -> InvoicePermits(i, seen)
                      [] Kind[i] = "subscription" -> SubscriptionPermits(i, seen)

\* _RefundWorkflow.resolve: host row, charge eligibility and refunded balance.
RefundCurrent(i) == RefundPermits(i, ChargeObserved(i)) /\ ChargeObserved(i) = ledger[i].snapshot

\* _CreditNoteWorkflow._current: host row, invoice observation and preview.
CreditNoteCurrent(i) == InvoicePermits(i, InvoiceObserved(i)) /\ InvoiceObserved(i) = ledger[i].snapshot

\* _SubscriptionWorkflow._current: host row, observation and running period.
SubscriptionCurrent(i) ==
  SubscriptionPermits(i, SubscriptionObserved(i)) /\ SubscriptionObserved(i) = ledger[i].snapshot

Current(i) == CASE Kind[i] = "refund" -> RefundCurrent(i)
                [] Kind[i] = "credit_note" -> CreditNoteCurrent(i)
                [] Kind[i] = "subscription" -> SubscriptionCurrent(i)

\* The repositories' reserve compares the locked host row before the ledger.
RowMatches(i) == ledger[i].snapshot.version = version[Object[i]]

Init ==
  /\ plan \in Plans
  /\ ledger = [i \in Intents |-> Entry("absent", "none", [version |-> 0, writes |-> 0, foreign |-> 0])]
  /\ version = [o \in Objects |-> 0]
  /\ writes = [o \in Objects |-> 0]
  /\ foreign = [o \in Objects |-> 0]
  /\ effect = [i \in Intents |-> "none"]
  /\ wire = {} /\ revoked = {} /\ verdicts = {}
  /\ sent = [i \in Intents |-> 0]
  /\ now = 0
  /\ call = [w \in Workers |-> Idle]
  /\ tried = [i \in Intents |-> 0]
  /\ lost = 0
-----------------------------------------------------------------------------
(* prepare *)

\* What _prepare of each group accepts; the runtime asked can_prepare before.
RefundPrepares(i, seen) == RefundPermits(i, seen)
CreditNotePrepares(i, seen) == InvoicePermits(i, seen)
SubscriptionPrepares(i, seen) == SubscriptionPermits(i, seen)
Prepares(i, seen) == CASE Kind[i] = "refund" -> RefundPrepares(i, seen)
                       [] Kind[i] = "credit_note" -> CreditNotePrepares(i, seen)
                       [] Kind[i] = "subscription" -> SubscriptionPrepares(i, seen)

\* No more governed writes than this were ever seen on an object.
SentTo(o) == Cardinality({j \in Intents : Object[j] = o /\ sent[j] > 0})

\* _prepare reads the object and remember persists the snapshot later: what was
\* read may have been overtaken by then, so any earlier count may be stored.
\* A matching row is left as it is; a conflicting binding raises.
Prepare(i) ==
  /\ \E seen \in [version : 0..version[Object[i]], writes : 0..SentTo(Object[i]),
                  foreign : 0..foreign[Object[i]]] :
       /\ Prepares(i, seen)
       /\ Remembered(ledger[i], seen) = "created"
       /\ ledger' = [ledger EXCEPT ![i] = Entry("ready", "none", seen)]
  /\ UNCHANGED <<provider, sent, revoked, now, call, verdicts, attempts>>
-----------------------------------------------------------------------------
(* execute *)

Goto(w, pc) == call' = [call EXCEPT ![w].pc = pc]
Return(w) == call' = [call EXCEPT ![w] = Idle]

\* The first checks of execute: drift since the snapshot is stale_no_effect.
StartExecute(w, i) ==
  /\ call[w] = Idle
  /\ ledger[i].phase # "absent"
  /\ Current(i)
  /\ \E notAfter \in now..MaxTime :
       call' = [call EXCEPT ![w] = [pc |-> "admit", intent |-> i, notAfter |-> notAfter]]
  /\ UNCHANGED <<ledger, provider, sent, revoked, now, verdicts, attempts>>

\* can_execute; the deadline is the least of the proposal's expiry, its
\* verification time and its evidence's expiries, chosen in StartExecute.
Admit(w) ==
  /\ call[w].pc = "admit"
  /\ IF call[w].intent \in revoked THEN Return(w) ELSE Goto(w, "reserve")
  /\ UNCHANGED <<ledger, provider, sent, revoked, now, verdicts, attempts>>

\* The repository's reserve transaction.  Every refusal returns without closing.
Reserve(w) ==
  /\ call[w].pc = "reserve"
  /\ LET i == call[w].intent
         status == IF RowMatches(i)
                   THEN ReserveIn(ledger, i, ledger[i].snapshot, now, call[w].notAfter)
                   ELSE "stale"
     IN IF status = "acquired"
        THEN /\ ledger' = [ledger EXCEPT ![i].phase = "reserved"]
             /\ Goto(w, "authorize")
        ELSE Return(w) /\ UNCHANGED ledger
  /\ UNCHANGED <<provider, sent, revoked, now, verdicts, attempts>>

\* Reservation may have waited: authority is asked again.
Authorize(w) ==
  /\ call[w].pc = "authorize"
  /\ Goto(w, IF call[w].intent \in revoked THEN "close"
             ELSE IF Kind[call[w].intent] = "refund" THEN "preflight" ELSE "current")
  /\ UNCHANGED <<ledger, provider, sent, revoked, now, verdicts, attempts>>

SkipsRecheck(w) ==
  /\ call[w].pc = "current"
  /\ Goto(w, "reauthorize")
  /\ UNCHANGED <<ledger, provider, sent, revoked, now, verdicts, attempts>>

\* _Workflow re-reads host and provider state; a failing read raises out of
\* execute and leaves the reservation.
Recheck(w) ==
  /\ call[w].pc = "current"
  /\ \/ Goto(w, IF Current(call[w].intent) THEN "reauthorize" ELSE "close")
     \/ Return(w)
  /\ UNCHANGED <<ledger, provider, sent, revoked, now, verdicts, attempts>>

Reauthorize(w) ==
  /\ call[w].pc = "reauthorize"
  /\ Goto(w, IF call[w].intent \in revoked THEN "close" ELSE "dispatch")
  /\ UNCHANGED <<ledger, provider, sent, revoked, now, verdicts, attempts>>

\* StripeRefundConnector.submit reads the charge again: it must still cover the
\* amount.  A failing read is failed_known, which closes.
Preflight(w) ==
  /\ call[w].pc = "preflight"
  /\ \/ Goto(w, IF RefundPermits(call[w].intent, ChargeObserved(call[w].intent))
                THEN "dispatch" ELSE "close")
     \/ Goto(w, "close")
  /\ UNCHANGED <<ledger, provider, sent, revoked, now, verdicts, attempts>>

\* Deadlines of the three _submit variants; the subscription's period ends too.
RefundDeadline(w) == call[w].notAfter
CreditNoteDeadline(w) == call[w].notAfter
SubscriptionDeadline(w) == IF call[w].notAfter < PeriodEnd THEN call[w].notAfter ELSE PeriodEnd
SubmitDeadline(w) == CASE Kind[call[w].intent] = "refund" -> RefundDeadline(w)
                       [] Kind[call[w].intent] = "credit_note" -> CreditNoteDeadline(w)
                       [] Kind[call[w].intent] = "subscription" -> SubscriptionDeadline(w)

\* The clock check and the request it admits have no await between them.
Dispatch(w) ==
  /\ call[w].pc = "dispatch"
  /\ IF now >= SubmitDeadline(w)
     THEN Goto(w, "close") /\ UNCHANGED <<wire, sent>>
     ELSE /\ wire' = wire \union {call[w].intent}
          /\ sent' = [sent EXCEPT ![call[w].intent] = @ + 1]
          /\ Goto(w, "answer")
  /\ UNCHANGED <<plan, ledger, version, writes, foreign, effect, revoked, now, verdicts, attempts>>

ClosesUnknown(w) ==
  /\ call[w].pc = "answer"
  /\ \/ call[w].intent \notin wire /\ effect[call[w].intent] # "none" /\ Return(w)
     \/ Goto(w, "close")
  /\ UNCHANGED <<ledger, provider, sent, revoked, now, verdicts, attempts>>

\* accepted once the response arrived, failed_unknown at any time: the request
\* may still be travelling.  Neither touches the ledger.
Answer(w) ==
  /\ call[w].pc = "answer"
  /\ Return(w)
  /\ UNCHANGED <<ledger, provider, sent, revoked, now, verdicts, attempts>>

Closed(i, close) == [ledger EXCEPT ![i].phase = "closed", ![i].close = close]

\* record_no_submission: a conflicting row raises.
RecordNoSubmission(w) ==
  /\ call[w].pc = "close"
  /\ Return(w)
  /\ ledger' = IF CloseIn(ledger[call[w].intent], "no_submission") = "recorded"
               THEN Closed(call[w].intent, "no_submission") ELSE ledger
  /\ UNCHANGED <<provider, sent, revoked, now, verdicts, attempts>>
-----------------------------------------------------------------------------
(* verify and observe *)

OnlySuccessIsAResult(i) == IF effect[i] = "failed" THEN "none" ELSE effect[i]

\* Outcomes of the three _verify variants; only a settled object has a result.
RefundVerdict(i) == effect[i]
CreditNoteVerdict(i) == effect[i]
\* matches_result compares the whole observation, so any later write hides it.
SubscriptionVerdict(i) ==
  IF writes[Object[i]] = ledger[i].snapshot.writes + 1 /\ foreign[Object[i]] = ledger[i].snapshot.foreign
  THEN effect[i] ELSE "none"
Verdict(i) == CASE Kind[i] = "refund" -> RefundVerdict(i)
                [] Kind[i] = "credit_note" -> CreditNoteVerdict(i)
                [] Kind[i] = "subscription" -> SubscriptionVerdict(i)

\* reconcile counts the attempt, then verify loads the intent and reads the
\* provider.  Absence and a pending object record nothing and settle nothing;
\* only a result goes on.  Stripe definitions have no recovery authorization, so
\* what is used up stays used up.  An attempt on an intent that was not sent when
\* its lease ended never finds anything, since Dispatch is over by then.
StartVerify(w, i) ==
  /\ call[w] = Idle
  /\ sent[i] > 0
  /\ tried[i] < MaxAttempts
  /\ tried' = [tried EXCEPT ![i] = @ + 1]
  /\ call' = IF Verdict(i) \in {"done", "failed"}
             THEN [call EXCEPT ![w] = [pc |-> "record", intent |-> i, outcome |-> Verdict(i)]]
             ELSE call
  /\ UNCHANGED <<ledger, provider, sent, revoked, now, verdicts, lost>>

\* record_outcome, and the result verify returns: a conflict or a missing
\* reservation raises instead.
RecordOutcome(w) ==
  /\ call[w].pc = "record"
  /\ Return(w)
  /\ LET i == call[w].intent
         status == CloseIn(ledger[i], call[w].outcome)
     IN /\ ledger' = IF status = "recorded" THEN Closed(i, call[w].outcome) ELSE ledger
        /\ verdicts' = IF status \in {"recorded", "matched"}
                       THEN verdicts \union {<<i, call[w].outcome>>} ELSE verdicts
  /\ UNCHANGED <<provider, sent, revoked, now, attempts>>
-----------------------------------------------------------------------------
(* the provider, the network and the host *)

\* A request arrives.  Stripe refuses an amount the object does not cover and
\* answers a known idempotency key with the object it has; a refund may stay
\* pending, a credit note is issued and a subscription is updated at once.
Land(i) ==
  /\ i \in wire
  /\ wire' = wire \ {i}
  /\ IF effect[i] # "none" \/ ~Permits(i, Observed(i))
     THEN UNCHANGED <<writes, effect>>
     ELSE \E status \in IF Kind[i] = "refund" THEN {"open", "done", "failed"} ELSE {"done"} :
            /\ effect' = [effect EXCEPT ![i] = status]
            /\ writes' = [writes EXCEPT ![Object[i]] = IF status = "failed" THEN @ ELSE @ + 1]
  /\ UNCHANGED <<plan, ledger, version, foreign, sent, revoked, now, call, verdicts, attempts>>

\* The request is lost on the way.
Lose(i) ==
  /\ i \in wire
  /\ wire' = wire \ {i}
  /\ UNCHANGED <<plan, ledger, version, writes, foreign, effect, sent, revoked, now, call, verdicts, attempts>>

\* A pending refund settles, and a failed one returns to the charge's balance; an
\* issued credit note is voided, which returns its amount to the invoice.
Settle(i) ==
  /\ \/ /\ Kind[i] = "refund" /\ effect[i] = "open"
        /\ \E status \in {"done", "failed"} :
             /\ effect' = [effect EXCEPT ![i] = status]
             /\ writes' = [writes EXCEPT ![Object[i]] = IF status = "failed" THEN @ - 1 ELSE @]
     \/ /\ Kind[i] = "credit_note" /\ effect[i] = "done"
        /\ effect' = [effect EXCEPT ![i] = "failed"]
        /\ writes' = [writes EXCEPT ![Object[i]] = @ - 1]
  /\ UNCHANGED <<plan, ledger, version, foreign, wire, sent, revoked, now, call, verdicts, attempts>>

\* Changes made by others to an object, its row or the authority over it, are few.
OutsideChanges(o) == version[o] + foreign[o] + Cardinality({i \in revoked : Object[i] = o})

\* A dashboard or another system writes the object.
ForeignWrite(o) ==
  /\ OutsideChanges(o) < MaxOutside[o]
  /\ foreign' = [foreign EXCEPT ![o] = @ + 1]
  /\ UNCHANGED <<plan, ledger, version, writes, effect, wire, sent, revoked, now, call, verdicts, attempts>>

\* The host updates its own row; the schema's trigger locks the customer and
\* refuses while any intent of it is reserved.
HostWrite(o) ==
  /\ OutsideChanges(o) < MaxOutside[o]
  /\ \A i, j \in Intents : Object[i] = o /\ Customer[j] = Customer[i] => ledger[j].phase # "reserved"
  /\ version' = [version EXCEPT ![o] = @ + 1]
  /\ UNCHANGED <<plan, ledger, writes, foreign, effect, wire, sent, revoked, now, call, verdicts, attempts>>

Revoke(i) ==
  /\ i \notin revoked /\ OutsideChanges(Object[i]) < MaxOutside[Object[i]]
  /\ revoked' = revoked \union {i}
  /\ UNCHANGED <<ledger, provider, sent, now, call, verdicts, attempts>>

Tick ==
  /\ now < MaxTime
  /\ now' = now + 1
  /\ UNCHANGED <<ledger, provider, sent, revoked, call, verdicts, attempts>>

\* The process dies, the caller cancels, or a port raises.
Crash(w) ==
  /\ call[w] # Idle
  /\ Return(w)
  /\ \/ call[w].pc = "record" /\ lost < MaxLost /\ lost' = lost + 1
     \/ call[w].pc # "record" /\ UNCHANGED lost
  /\ UNCHANGED <<ledger, provider, sent, revoked, now, verdicts, tried>>

Step(w) == \/ Admit(w) \/ Reserve(w) \/ Authorize(w) \/ Recheck(w) \/ Reauthorize(w)
           \/ Preflight(w) \/ Dispatch(w) \/ Answer(w) \/ RecordNoSubmission(w)

Next ==
  \/ \E i \in Intents : Prepare(i) \/ Land(i) \/ Lose(i) \/ Settle(i) \/ Revoke(i)
  \/ \E w \in Workers : Step(w) \/ RecordOutcome(w) \/ Crash(w)
  \/ \E w \in Workers, i \in Intents : StartExecute(w, i) \/ StartVerify(w, i)
  \/ \E o \in Range(Object) : ForeignWrite(o) \/ HostWrite(o)
  \/ Tick

Spec == Init /\ [][Next]_vars

\* A recovery schedule finds due work again and again: while reconcile has an
\* attempt left for some open intent, one is made, for whichever intent; and a
\* call that neither dies nor is cancelled goes on.
Fairness ==
  /\ \A w \in Workers : WF_vars(Step(w) \/ RecordOutcome(w))
  /\ SF_vars(\E w \in Workers, i \in Intents : ledger[i].phase # "closed" /\ StartVerify(w, i))

FairSpec == Spec /\ Fairness
-----------------------------------------------------------------------------
\* An intent is in doubt while a request of it travels or its object waits for a
\* recorded outcome.
InDoubt(i) == i \in wire \/ (effect[i] # "none" /\ ledger[i].phase # "closed")

\* The reservation outlives everything that could still take effect: whoever
\* dies, times out or is refused, an intent that was sent is reserved until its
\* own outcome is recorded, and one closed as not submitted was never sent
\* (record_no_submission after failed_known or stale_no_effect only).
DoubtKeepsReservation ==
  \A i \in Intents :
    /\ InDoubt(i) => ledger[i].phase = "reserved"
    /\ sent[i] > 0 => ledger[i].phase = "reserved" \/ ledger[i].close \in {"done", "failed"}

\* No sequence of retries, late workers and restarts sends an intent twice: only
\* the call that acquired the reservation dispatches, and a closed intent is
\* never reopened.
SentAtMostOnce == \A i \in Intents : sent[i] <= 1

\* Every result verify gave the runtime is the one the ledger keeps: two
\* verifiers that read an object before and after it changed cannot both answer.
VerdictsMatchLedger ==
  \A v \in verdicts : ledger[v[1]].phase = "closed" /\ ledger[v[1]].close = v[2]

\* A credit note or cancellation takes effect on an object that carries no
\* governed write beyond those of the snapshot that was approved: _current is
\* repeated under the reservation.  (It may carry less: a note can be voided.)
BillingWritesApprovedState ==
  [][\A i \in Intents : Land(i) /\ Kind[i] # "refund"
       => writes[Object[i]] <= ledger[i].snapshot.writes]_vars

\* The same for refunds, whose drift test is the charge's refunded balance.
RefundsEnforceTheirPrecondition ==
  [][\A i \in Intents : Land(i) /\ Kind[i] = "refund" /\ effect'[i] # "none"
       => writes[Object[i]] = ledger[i].snapshot.writes]_vars

\* A request that took effect does not block its customer for ever, however the
\* executor ended, if it settles in time: with more verification attempts left
\* than can still die, one finds the settled object and closes the intent.  (An
\* effect that settles after the last attempt keeps its reservation: reconcile
\* turns to verification_unresolved and nothing public releases it.)
SettledEffectsAreReleased ==
  \A i \in Intents :
    /\ Kind[i] # "subscription" /\ effect[i] \in {"done", "failed"}
    /\ MaxAttempts - tried[i] > MaxLost - lost
    ~> ledger[i].phase = "closed"
=============================================================================
