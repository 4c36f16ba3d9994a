---------------------------- MODULE Conformance ----------------------------
(***************************************************************************)
(* The conformance kits: scripted calls on a host's store, on two          *)
(* independent connections to it, on its key providers, on its runtime and *)
(* on its Stripe repositories, each answer compared with what the contract *)
(* requires.  The subject answers as the contract says except for at most  *)
(* one fault; calls the kit gathers are answered in either order.          *)
(*                                                                         *)
(* A kit is a sequence of steps.  Answers(s) is the set of answers that    *)
(* the subject may give to step s, each with the subject's next state; the *)
(* kit goes on when the answer is the expected one and fails otherwise.    *)
(***************************************************************************)
EXTENDS Lifecycle, FiniteSets, Sequences, SequencesExt

CONSTANT Faults     \* for each kit, the faults its subject may have, one at a time

VARIABLES
  kit,       \* the kit that runs, or "none"
  fault,     \* the subject's fault, or "none"
  pc,        \* next step of the kit
  world,     \* state of the subject, with the copies the kit keeps
  verdict    \* idle, running, passed or failed

kvars == <<kit, fault, pc, world, verdict>>

Does(f) == fault = f
Once(answer, w) == {<<answer, w>>}
-----------------------------------------------------------------------------
(* A proposal store, as the kits see it. *)

Subjects == {"original", "competitor", "terminal", "probe", "seed", "cas", "first", "second"}
EffectOfSubject(p) == IF p \in {"probe", "seed"} THEN p ELSE "effect"
NoRow == [status |-> "absent", rev |-> 0, evidence |-> <<>>, receipts |-> <<>>, erased |-> FALSE]
NewRow == [NoRow EXCEPT !.status = "awaiting_authority"]
EmptyStore ==
  [ rows |-> [p \in Subjects |-> NoRow],       \* what the store holds
    mirror |-> [p \in Subjects |-> NoRow],     \* the kit's copy
    owner |-> [e \in {"effect", "probe", "seed"} |-> "none"],
    winner |-> "none", loser |-> "none" ]

Changed(row, change) ==
  LET next == [row EXCEPT !.rev = @ + 1]
  IN  CASE change = "append" -> [next EXCEPT !.status = "authorized",
                                             !.evidence = <<1, 2>>, !.receipts = <<1, 2>>]
        [] change = "cut_evidence" -> [next EXCEPT !.evidence = <<1>>]
        [] change = "swap_evidence" -> [next EXCEPT !.evidence = <<2, 1>>]
        [] change = "cut_receipts" -> [next EXCEPT !.receipts = <<1>>]
        [] change = "swap_receipts" -> [next EXCEPT !.receipts = <<2, 1>>]
        [] change = "erased_with_content" -> [next EXCEPT !.erased = TRUE]
        [] OTHER -> [next EXCEPT !.status = change]

Admitted(row, updated) ==
  /\ updated.rev = row.rev + 1
  /\ IsPrefix(row.evidence, updated.evidence) \/ Does("rewrites_evidence")
  /\ IsPrefix(row.receipts, updated.receipts) \/ Does("rewrites_receipts")
  /\ updated.erased => (updated.evidence = <<>> /\ updated.receipts = <<>>) \/ Does("keeps_content")
  /\ updated.status = row.status \/ updated.status \in AllowedNext(row.status) \/ Does("any_edge")

Sees(tenant) == tenant = "own" \/ Does("shares_tenants")
Named(p) == CASE p = "winner" -> world.winner [] p = "loser" -> world.loser [] OTHER -> p
Wrote(p, row) == [world EXCEPT !.rows[p] = row, !.mirror[p] = row]

AnswerCreate(s) ==
  LET w == Wrote(s.on, NewRow)
  IN  Once("done", [w EXCEPT !.rows[s.on] = IF Does("loses_rows") THEN NoRow ELSE @,
                             !.owner = IF s.on = "seed" THEN [@ EXCEPT !["seed"] = "none"] ELSE @])

\* The second connection of a store that does not share its rows sees none.
AnswerGet(s) ==
  LET seen == IF ~Sees(s.tenant) \/ (s.via = 2 /\ Does("private_connections")) THEN NoRow
              ELSE world.rows[s.on]
  IN  Once(IF seen = world.mirror[s.on] THEN "same" ELSE IF seen = NoRow THEN "none" ELSE "other",
           world)

CasAnswer(row, read, updated, tenant) ==
  IF ~Sees(tenant) \/ row.status # read.status \/ (row.rev # read.rev /\ ~Does("ignores_revision"))
  THEN "false" ELSE IF Admitted(row, updated) THEN "true" ELSE "error"

\* "stale" calls repeat the values of the first copy.
AnswerCas(s) ==
  LET p == Named(s.on)
      row == world.rows[p]
      read == IF s.stale THEN NewRow ELSE world.mirror[p]
      updated == Changed(read, s.change)
      answer == CasAnswer(row, read, updated, s.tenant)
  IN  Once(answer, IF answer = "true" THEN Wrote(p, updated)
                   ELSE IF Does("writes_rejected") THEN [world EXCEPT !.rows[p] = updated]
                   ELSE world)

ClaimIsFree(p) ==
  LET owner == world.owner[EffectOfSubject(p)]
  IN  \/ owner \in {"none", p}
      \/ /\ world.rows[owner].status = "stale" /\ ~Does("keeps_stale_claim")
      \/ /\ world.rows[owner].status = "failed_known" /\ ~Does("keeps_failed_claim")
      \/ /\ world.rows[owner].status = "verified" /\ Does("moves_verified_claim")
AdmitAnswer(p, tenant) ==
  CASE ~Sees(tenant) -> "proposal_not_found"
    [] world.rows[p].status # "authorized" -> "revision_conflict"
    [] ClaimIsFree(p) -> "acquired"
    [] OTHER -> "conflict"
AfterAdmit(p, answer, w) ==
  IF answer # "acquired" THEN w
  ELSE LET row == Changed(w.rows[p], "executing")
       IN  [w EXCEPT !.rows[p] = row, !.mirror[p] = row, !.owner[EffectOfSubject(p)] = p]
AnswerAdmit(s) ==
  LET p == Named(s.on)  answer == AdmitAnswer(p, s.tenant)
  IN  Once(answer, AfterAdmit(p, answer, world))

\* Two gathered admissions: one after the other, or both decided on the same state.
AnswerBothAdmit(s) ==
  { LET second == IF Does("admits_both") THEN "acquired" ELSE "conflict"
        w == AfterAdmit(q[1], "acquired", world)
    IN  <<IF second = "conflict" THEN "one_winner" ELSE "two_winners",
          [AfterAdmit(q[2], second, w) EXCEPT !.winner = q[1], !.loser = q[2]]>>
    : q \in {<<s.on, s.with>>, <<s.with, s.on>>} }
AnswerBothCas(s) ==
  Once(IF Does("cas_not_atomic") THEN "two_winners" ELSE "one_winner",
       Wrote(s.on, Changed(world.mirror[s.on], s.change)))

AnswerOwner(s) ==
  LET owner == IF ~Sees(s.tenant) \/ (s.via = 2 /\ Does("private_connections")) THEN "none"
               ELSE world.owner["effect"]
  IN  Once(IF s.on # "none" /\ owner = Named(s.on) THEN "same" ELSE owner, world)

AnswerMark(s) ==
  LET p == Named(s.on)
      may == Sees(s.tenant) /\ (world.rows[p].status \in Erasable \/ Does("erases_active"))
  IN  Once(IF may THEN "true" ELSE "false", world)
-----------------------------------------------------------------------------
(* Steps of the store kits.                                                  *)

CreateRow(p) == [call |-> "create", on |-> p, expect |-> {"done"}]
GetAs(p, tenant, via, answer) ==
  [call |-> "get", on |-> p, tenant |-> tenant, via |-> via, expect |-> {answer}]
Get(p) == GetAs(p, "own", 1, "same")
CasAs(p, change, tenant, stale, answers) ==
  [call |-> "cas", on |-> p, change |-> change, tenant |-> tenant, stale |-> stale,
   expect |-> answers]
Update(p, change) == CasAs(p, change, "own", FALSE, {"true"})
AdmitAs(p, tenant, answers) == [call |-> "admit", on |-> p, tenant |-> tenant, expect |-> answers]
OwnerAs(p, tenant, via, answer) ==
  [call |-> "owner", on |-> p, tenant |-> tenant, via |-> via, expect |-> {answer}]
MarkAs(p, tenant) == [call |-> "mark", on |-> p, tenant |-> tenant, expect |-> {"false"}]

\* _require_update_rejected: refused or raised, and the row reads as before.
RequireUpdateRejected(p, change) ==
  <<CasAs(p, change, "own", FALSE, {"false", "error"}), Get(p)>>

LifecycleSeedPaths ==
  LET executing == <<"authorized", "executing">>
      verification == Append(executing, "verification_pending")
  IN  [ awaiting_authority |-> <<>>, authorized |-> <<"authorized">>,
        blocked |-> <<"authorized", "blocked">>, denied |-> <<"denied">>,
        executing |-> executing, expired |-> <<"expired">>,
        failed_known |-> Append(executing, "failed_known"),
        failed_unknown |-> Append(executing, "failed_unknown"),
        partially_succeeded |-> Append(verification, "partially_succeeded"),
        stale |-> <<"authorized", "stale">>,
        superseded |-> <<"authorized", "stale", "superseded">>,
        verification_pending |-> verification,
        verification_unresolved |-> Append(verification, "verification_unresolved"),
        verified |-> Append(verification, "verified") ]

SeedStep(target) ==
  IF target = "executing" THEN AdmitAs("seed", "own", {"acquired", "owned_by_proposal"})
  ELSE Update("seed", target)
ProposalAtStatus(s) ==
  LET path == LifecycleSeedPaths[s]
  IN  <<CreateRow("seed")>> \o [i \in DOMAIN path |-> SeedStep(path[i])]
StatusOrder ==
  <<"awaiting_authority", "authorized", "blocked", "denied", "executing", "expired", "failed_known",
    "failed_unknown", "partially_succeeded", "stale", "superseded", "verification_pending",
    "verification_unresolved", "verified">>
GuardsOf(s) ==
  LET Forbidden(t) == t # s /\ t \notin AllowedNext(s)
      targets == SelectSeq(StatusOrder, Forbidden)
  IN  ProposalAtStatus(s)
        \o FlattenSeq([i \in DOMAIN targets |-> RequireUpdateRejected("seed", targets[i])])
LifecycleTransitionGuards == FlattenSeq([i \in DOMAIN StatusOrder |-> GuardsOf(StatusOrder[i])])

StoreUpdateInvariants ==
  <<CreateRow("probe"), Update("probe", "append")>>
    \o RequireUpdateRejected("probe", "cut_evidence")
    \o RequireUpdateRejected("probe", "swap_evidence")
    \o RequireUpdateRejected("probe", "cut_receipts")
    \o RequireUpdateRejected("probe", "swap_receipts")
    \o RequireUpdateRejected("probe", "erased_with_content")

StoreRoundTrip ==
  <<CreateRow("original"), CreateRow("competitor"), Get("original"),
    GetAs("original", "other", 1, "none")>>
StoreForeignTenant ==
  <<CasAs("original", "authorized", "other", FALSE, {"false"}),
    AdmitAs("original", "other", {"proposal_not_found"}),
    MarkAs("original", "other"), OwnerAs("none", "other", 1, "none"), Get("original")>>
StoreGuardedUpdate ==
  <<Update("original", "authorized"), Update("competitor", "authorized"),
    CasAs("original", "authorized", "own", TRUE, {"false"})>>
OmitsActiveErasure ==
  <<[call |-> "both_admit", on |-> "original", with |-> "competitor", expect |-> {"one_winner"}],
    OwnerAs("winner", "own", 1, "same")>>

StoreAdmission ==
  <<[call |-> "both_admit", on |-> "original", with |-> "competitor", expect |-> {"one_winner"}],
    OwnerAs("winner", "own", 1, "same"), MarkAs("winner", "own")>>
StoreClaimTransfer ==
  <<Update("winner", "stale"), AdmitAs("loser", "own", {"acquired"}),
    OwnerAs("loser", "own", 1, "same"), Update("loser", "verification_pending"),
    Update("loser", "verified")>>
StoreTerminalContender ==
  <<CreateRow("terminal"), Update("terminal", "authorized"), AdmitAs("terminal", "own", {"conflict"})>>

ActionStoreKit ==
  StoreRoundTrip \o LifecycleTransitionGuards \o StoreUpdateInvariants \o StoreForeignTenant
    \o StoreGuardedUpdate \o StoreAdmission \o StoreClaimTransfer \o StoreTerminalContender

IndependentConnectionsKit ==
  <<CreateRow("cas"), GetAs("cas", "own", 2, "same"),
    [call |-> "both_cas", on |-> "cas", change |-> "authorized", expect |-> {"one_winner"}],
    Get("cas"), GetAs("cas", "own", 2, "same"),
    CreateRow("first"), Update("first", "authorized"), CreateRow("second"), Update("second", "authorized"),
    [call |-> "both_admit", on |-> "first", with |-> "second", expect |-> {"one_winner"}],
    OwnerAs("winner", "own", 1, "same"), OwnerAs("winner", "own", 2, "same")>>
-----------------------------------------------------------------------------
(* Key providers: a commitment and a protected payload of one proposal. *)

NewProviders == [commitment |-> "absent", payload |-> "absent"]
DestroysOther(s) == \/ Does("destroys_mismatched") /\ s.by = "other_proposal"
                    \/ Does("destroys_cross_tenant") /\ s.by = "other_tenant"

AnswerProvider(s) ==
  LET held == world[s.on]
      destroyed == [world EXCEPT ![s.on] = "destroyed"]
  IN  CASE s.op = "create" -> Once(IF Does("plaintext") /\ s.on = "payload" THEN "readable" ELSE "opaque",
                                   [world EXCEPT ![s.on] = "kept"])
        [] s.op = "verify" -> Once(IF held = "kept" THEN "true" ELSE "false", world)
        [] s.op = "verify_mutated" ->
             Once(IF held = "kept" /\ Does("accepts_mutation") THEN "true" ELSE "false", world)
        [] s.op = "destroy" /\ s.by = "own" ->
             Once(IF held = "destroyed" /\ Does("second_destroy_raises") THEN "raises" ELSE "done",
                  IF Does("never_destroys") THEN world ELSE destroyed)
        [] s.op = "destroy" /\ s.by # "own" ->
             { <<answer, IF DestroysOther(s) THEN destroyed ELSE world>>
               : answer \in {"done", "raises"} }

Provider(on, op, by, answers) ==
  [call |-> "provider", on |-> on, op |-> op, by |-> by, expect |-> answers]
Protected(on) == <<Provider(on, "create", "own", {"opaque"}), Provider(on, "verify", "own", {"true"})>>
RefusesOthers(on) ==
  FlattenSeq([i \in 1..2 |->
    <<Provider(on, "destroy", <<"other_proposal", "other_tenant">>[i], {"done", "raises"}),
      Provider(on, "verify", "own", {"true"})>>])
DestroyedTwice(on) ==
  <<Provider(on, "destroy", "own", {"done"}), Provider(on, "destroy", "own", {"done"}),
    Provider(on, "verify", "own", {"false"})>>

\* Reading a payload back counts as verifying it; only bound ports name the proposal.
ProviderRoundTrips ==
  Protected("commitment") \o <<Provider("commitment", "verify_mutated", "own", {"false"})>>
    \o Protected("payload")
ProviderDestruction(bound) ==
  LET others(on) == IF bound THEN RefusesOthers(on) ELSE <<>>
  IN  others("payload") \o DestroyedTwice("payload")
        \o others("commitment") \o DestroyedTwice("commitment")
ProvidersKit(bound) == ProviderRoundTrips \o ProviderDestruction(bound)
-----------------------------------------------------------------------------
(* A runtime behind a driver; an answer tells the outcome and how often the  *)
(* executor ran.                                                             *)

NewRuntime == [status |-> "none", live |-> "unchanged"]
Ran(outcome, n) == [outcome |-> outcome, ran |-> n]
Unproven == {"verification_pending", "failed_unknown"}

AnswerExecute ==
  LET sent == { <<Ran(status, 1), [world EXCEPT !.status = status]>> : status \in Unproven }
  IN  CASE world.status = "authority_pending" /\ ~Does("executes_unapproved")
             -> Once(Ran("authority_pending", 0), world)
        [] world.status = "authorized" /\ world.live = "revoked" /\ ~Does("skips_reauthorization")
             -> Once(Ran("blocked", 0), [world EXCEPT !.status = "blocked"])
        [] world.status = "authorized" /\ world.live = "drifted" /\ ~Does("ignores_drift")
             -> Once(Ran(IF Does("no_replacement") THEN "stale_alone" ELSE "stale", 0),
                     [world EXCEPT !.status = "stale"])
        [] world.status = "verified" -> Once(Ran("verified", IF Does("repeats_verified") THEN 1 ELSE 0), world)
        [] OTHER -> sent

\* Two gathered executions: one is admitted, the other finds it in progress.
AnswerBothExecute ==
  { <<Ran(status, IF Does("executes_twice") THEN 2 ELSE 1), [world EXCEPT !.status = status]>>
    : status \in Unproven }

\* The driver promises a verdict by the last of the four rounds.
AnswerReconcile(s) ==
  IF world.status = "verified" THEN Once(Ran("verified", 0), world)
  ELSE { <<Ran(status, IF Does("resends_on_verification") THEN 1 ELSE 0), [world EXCEPT !.status = status]>>
         : status \in IF Does("never_verifies") THEN {"verification_pending"}
                       ELSE IF s.last THEN {"verified"} ELSE {"verification_pending", "verified"} }

Driver(op, outcomes, n) ==
  [call |-> op, last |-> FALSE, expect |-> { Ran(outcome, n) : outcome \in outcomes }]
Becomes(field, value) == [call |-> "driver", field |-> field, value |-> value, expect |-> {Ran("done", 0)}]
ApprovedDriver == <<[call |-> "factory", expect |-> {Ran("prepared", 0)}], Becomes("status", "authorized")>>
ReconcileRound(last) ==
  [Driver("reconcile", IF last THEN {"verified"} ELSE {"verification_pending", "verified"}, 0)
     EXCEPT !.last = last]

RuntimeKit ==
  <<[call |-> "factory", expect |-> {Ran("prepared", 0)}],
    Driver("execute", {"authority_pending"}, 0), Becomes("status", "authorized"),
    Driver("both_execute", Unproven, 1),
    ReconcileRound(FALSE), ReconcileRound(FALSE), ReconcileRound(FALSE), ReconcileRound(TRUE),
    Driver("execute", {"verified"}, 0)>>
  \o ApprovedDriver \o <<Becomes("live", "revoked"), Driver("execute", {"blocked"}, 0)>>
  \o ApprovedDriver \o <<Becomes("live", "drifted"), Driver("execute", {"stale"}, 0)>>
=============================================================================
