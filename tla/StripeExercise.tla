--------------------------- MODULE StripeExercise ---------------------------
(***************************************************************************)
(* The Stripe host exercise: twelve scenarios that the library runs on an  *)
(* adapter, here the PostgreSQL adapter over the intent ledger and one     *)
(* resource that an ordinary writer also changes.  The ledger's decisions  *)
(* are those of StripeLedger.                                              *)
(***************************************************************************)
EXTENDS Conformance

\* A scenario's first intent, one of another action group for the same
\* resource, and one for a resource of its own.
ExerciseIntents == {"first", "sibling", "distant"}
ResourceOf == [first |-> "one", sibling |-> "one", distant |-> "two"]

Ledger == INSTANCE StripeLedger WITH Intents <- ExerciseIntents, Customer <- ResourceOf

NewExercise ==
  [ ledger |-> [i \in ExerciseIntents |-> Ledger!Entry("absent", "none", "original")],
    revision |-> [one |-> 0, two |-> 0],
    writing |-> FALSE ]        \* the ordinary writer holds the lock of "one"
-----------------------------------------------------------------------------
AnswerRemember(s) ==
  LET entry == world.ledger[s.on]
      status == Ledger!Remembered(entry, s.snapshot)
      stored == [world EXCEPT !.ledger[s.on] = Ledger!Entry("ready", "none", s.snapshot)]
  IN  IF status = "conflict" /\ Does("rebinds_intent") THEN Once("matched", stored)
      ELSE Once(status, IF status = "created" THEN stored ELSE world)

AnswerLoad(s) ==
  LET entry == world.ledger[s.on]
      seen == s.tenant = "own" \/ Does("shares_tenants")
  IN  Once(IF ~seen \/ entry.phase = "absent" THEN "none"
           ELSE IF entry.snapshot # "original" THEN "changed"
           ELSE IF entry.phase = "closed" THEN entry.close ELSE entry.phase, world)

\* The ledger's answer to a reservation that found the resource unchanged.
Decision(ledger, i, notAfter) ==
  LET asked == Ledger!ReserveIn(ledger, i, "original", 0, notAfter)
      others == { j \in ExerciseIntents \ {i} : ledger[j].phase = "reserved" }
  IN  CASE asked = "already_submitted" /\ ledger[i].phase = "reserved" /\ Does("double_reserve") -> "acquired"
        [] asked = "already_submitted" /\ ledger[i].phase = "closed" /\ Does("reopens_closed") -> "acquired"
        [] asked = "unavailable" /\ Does("cross_group") -> "acquired"
        [] asked = "stale" /\ ledger[i].phase = "ready" /\ Does("ignores_deadline") -> "acquired"
        [] asked = "acquired" /\ others # {} /\ Does("global_lock") -> "unavailable"
        [] OTHER -> asked
Reserved(w, i, answer) ==
  IF answer = "acquired" THEN [w EXCEPT !.ledger[i].phase = "reserved"] ELSE w

AnswerReserve(s) ==
  LET changed == world.revision[ResourceOf[s.on]] # 0 /\ ~Does("ignores_drift")
      busy == world.writing /\ ResourceOf[s.on] = "one" /\ ~Does("unlocked_writer")
      answer == IF busy THEN "resource_busy" ELSE IF changed THEN "stale"
                ELSE Decision(world.ledger, s.on, s.notAfter)
      kept == IF s.lost /\ Does("forgets_reservation") THEN world ELSE Reserved(world, s.on, answer)
  IN  Once(IF s.lost /\ answer = "acquired" THEN "acknowledgement_lost" ELSE answer, kept)

\* Two gathered reservations; the resource lock serialises them in either order.
AnswerBothReserve(s) ==
  { LET one == Decision(world.ledger, q[1], 1)
        w == Reserved(world, q[1], one)
        two == Decision(w.ledger, q[2], 1)
    IN  <<IF one = "acquired" /\ two = "acquired" THEN "both_acquired"
          ELSE IF one = "acquired" THEN two ELSE "none_acquired",
          Reserved(w, q[2], two)>>
    : q \in {<<s.on, s.with>>, <<s.with, s.on>>} }

AnswerClose(s) ==
  LET entry == world.ledger[s.on]
      status == Ledger!CloseIn(entry, s.close)
      stored == [world EXCEPT !.ledger[s.on].phase = "closed", !.ledger[s.on].close = s.close]
  IN  IF status = "conflict" /\ Does("rebinds_outcome") THEN Once("recorded", stored)
      ELSE Once(status, IF status = "recorded" THEN stored ELSE world)

\* normal_write up to its checkpoint, from there to its commit, or in one go.
AnswerWrite(s) ==
  LET reserved == \E i \in ExerciseIntents :
                    ResourceOf[i] = s.on /\ world.ledger[i].phase = "reserved"
      refuses == reserved /\ ~Does("writer_ignores_reservation")
      applied == [world EXCEPT !.revision[s.on] = @ + 1, !.writing = FALSE]
  IN  CASE s.part = "check" -> Once(IF refuses THEN "refused" ELSE "checked",
                                    [world EXCEPT !.writing = ~refuses])
        [] s.part = "commit" -> Once("applied", applied)
        [] s.part = "whole" -> IF refuses THEN Once("refused", world) ELSE Once("applied", applied)
-----------------------------------------------------------------------------
RememberAs(i, snapshot, answer) ==
  [call |-> "remember", on |-> i, snapshot |-> snapshot, expect |-> {answer}]
Remember(i) == RememberAs(i, "original", "created")
Load(i, answer) == [call |-> "load", on |-> i, tenant |-> "own", expect |-> {answer}]
ReserveAs(i, notAfter, lost, answer) ==
  [call |-> "reserve", on |-> i, notAfter |-> notAfter, lost |-> lost, expect |-> {answer}]
Reserve(i, answer) == ReserveAs(i, 1, FALSE, answer)
BothReserve(i, j, answer) == [call |-> "both_reserve", on |-> i, with |-> j, expect |-> {answer}]
Close(i, close, answer) == [call |-> "close", on |-> i, close |-> close, expect |-> {answer}]
WriteResource(resource, part, answer) ==
  [call |-> "write", on |-> resource, part |-> part, expect |-> {answer}]
Scenario(steps) == <<[call |-> "reset", expect |-> {"done"}]>> \o steps

IsolationScenarios ==
  Scenario(<<Remember("first"), RememberAs("first", "changed", "conflict"), Load("first", "ready")>>)
  \o Scenario(<<Remember("first"), [Load("first", "none") EXCEPT !.tenant = "other"],
                Load("first", "ready")>>)
RaceScenarios ==
  Scenario(<<Remember("first"), BothReserve("first", "first", "already_submitted")>>)
  \o Scenario(<<Remember("first"), Remember("sibling"), BothReserve("first", "sibling", "unavailable")>>)
  \o Scenario(<<Remember("first"), Remember("distant"), BothReserve("first", "distant", "both_acquired")>>)
NormalWriterExclusion ==
  Scenario(<<Remember("first"), WriteResource("one", "check", "checked"),
             Reserve("first", "resource_busy"), WriteResource("one", "commit", "applied"),
             Reserve("first", "stale"), Remember("distant"), Reserve("distant", "acquired"),
             WriteResource("two", "whole", "refused")>>)
DurabilityScenarios ==
  Scenario(<<Remember("first"), ReserveAs("first", 1, TRUE, "acknowledgement_lost"),
             Load("first", "reserved"), Reserve("first", "already_submitted")>>)
  \o Scenario(<<Remember("first"), ReserveAs("first", -1, FALSE, "stale"), Load("first", "ready")>>)
ClosureScenarios ==
  Scenario(<<Remember("first"), Reserve("first", "acquired"), Close("first", "no_submission", "recorded"),
             Reserve("first", "already_submitted")>>)
  \o Scenario(<<Remember("first"), Reserve("first", "acquired"), Close("first", "done", "recorded"),
                Close("first", "done", "matched"), Close("first", "failed", "conflict"),
                Load("first", "done")>>)
  \o Scenario(<<Remember("first"), Remember("sibling"), Reserve("first", "acquired"),
                Reserve("sibling", "unavailable"), Load("first", "reserved")>>)
  \o Scenario(<<Remember("first"), RememberAs("first", "changed", "conflict")>>)

StripeExerciseKit ==
  IsolationScenarios \o RaceScenarios \o NormalWriterExclusion
    \o DurabilityScenarios \o ClosureScenarios
-----------------------------------------------------------------------------
(* Running a kit *)

Programs ==
  [ store |-> ActionStoreKit, connections |-> IndependentConnectionsKit,
    bound_providers |-> ProvidersKit(TRUE), providers |-> ProvidersKit(FALSE),
    runtime |-> RuntimeKit, stripe |-> StripeExerciseKit ]
Kits == DOMAIN Programs

NoWorld == [kit |-> "none"]
NewWorld(k) == CASE k \in {"store", "connections"} -> EmptyStore
                 [] k \in {"bound_providers", "providers"} -> NewProviders
                 [] k = "runtime" -> NewRuntime
                 [] k = "stripe" -> NewExercise

Answers(s) ==
  CASE s.call = "create" -> AnswerCreate(s)
    [] s.call = "get" -> AnswerGet(s)
    [] s.call = "cas" -> AnswerCas(s)
    [] s.call = "admit" -> AnswerAdmit(s)
    [] s.call = "both_admit" -> AnswerBothAdmit(s)
    [] s.call = "both_cas" -> AnswerBothCas(s)
    [] s.call = "owner" -> AnswerOwner(s)
    [] s.call = "mark" -> AnswerMark(s)
    [] s.call = "provider" -> AnswerProvider(s)
    [] s.call = "factory" -> Once(Ran("prepared", 0), [NewRuntime EXCEPT !.status = "authority_pending"])
    [] s.call = "driver" -> Once(Ran("done", 0), [world EXCEPT ![s.field] = s.value])
    [] s.call = "execute" -> AnswerExecute
    [] s.call = "both_execute" -> AnswerBothExecute
    [] s.call = "reconcile" -> AnswerReconcile(s)
    [] s.call = "reset" -> Once("done", NewExercise)
    [] s.call = "remember" -> AnswerRemember(s)
    [] s.call = "load" -> AnswerLoad(s)
    [] s.call = "reserve" -> AnswerReserve(s)
    [] s.call = "both_reserve" -> AnswerBothReserve(s)
    [] s.call = "close" -> AnswerClose(s)
    [] s.call = "write" -> AnswerWrite(s)

ConformanceInit ==
  kit = "none" /\ fault = "none" /\ pc = 0 /\ world = NoWorld /\ verdict = "idle"

StartKit(k, f) ==
  /\ verdict = "idle"
  /\ kit' = k /\ fault' = f /\ pc' = 1 /\ world' = NewWorld(k) /\ verdict' = "running"

\* The first unexpected answer fails the kit; its last expected one passes it.
KitStep ==
  LET s == Programs[kit][pc]
  IN  /\ verdict = "running"
      /\ \E reply \in Answers(s) :
           \/ /\ reply[1] \in s.expect /\ pc < Len(Programs[kit])
              /\ pc' = pc + 1 /\ world' = reply[2] /\ UNCHANGED verdict
           \/ /\ reply[1] \in s.expect /\ pc = Len(Programs[kit])
              /\ verdict' = "passed" /\ world' = NoWorld /\ UNCHANGED pc
           \/ /\ reply[1] \notin s.expect
              /\ verdict' = "failed" /\ world' = NoWorld /\ UNCHANGED pc
      /\ UNCHANGED <<kit, fault>>

\* docs/testing/conformance.md lists revision conflicts and failed-known claim
\* transfer among what the store kit exercises.  Its only stale update names an old
\* status as well as an old revision, and the only claim it transfers is that of a
\* stale proposal, so neither fault changes an answer that it looks at.
UnseenByStoreKit == {"ignores_revision", "keeps_failed_claim"}

(* Whatever the order in which gathered calls are answered, a kit that ends  *)
(* refuses every faulty subject and passes every conforming one, with one    *)
(* exception that contradicts the documentation: the store kit also passes,  *)
(* always, a store that does not compare revisions and a store that keeps    *)
(* the claim of a failed_known proposal.                                     *)
KitSeparates ==
  LET unseen == kit = "store" /\ fault \in UnseenByStoreKit
  IN  /\ verdict = "passed" => fault = "none" \/ unseen
      /\ verdict = "failed" => fault # "none" /\ ~unseen
=============================================================================
