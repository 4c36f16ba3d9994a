--------------------------- MODULE ActionRuntime ---------------------------
(***************************************************************************)
(* runtime.py's ActionRuntime over a conforming store, called by several   *)
(* workers at once.  A call is a coroutine: it reads a proposal, awaits    *)
(* host ports, and writes with a compare-and-set on the revision it read.  *)
(* Every await is an interleaving point and a point where the call can be  *)
(* cancelled, raise, or die with its process; the store's operations are   *)
(* atomic.  calls[w] is the local state of the call worker w is running.   *)
(*                                                                         *)
(* Host ports (authorization, resolver, executor, verifier) answer as      *)
(* their contracts allow; the authoritative target behind executor and     *)
(* verifier is the external part: attempts in flight, attempts that took   *)
(* effect, and the settling boundary a final absence declares.             *)
(***************************************************************************)
EXTENDS ActionStore

CONSTANTS
    Workers,          \* concurrent callers of the runtime
    Authorities,      \* MOfNApprovals.authorities, as references
    Required,         \* MOfNApprovals.required
    Ttl,              \* proposal_ttl
    Lease,            \* verification_lease_duration
    Delay,            \* verification_delay
    MaxAttempts,      \* max_verification_attempts
    AllowResend,      \* allow_resend_after_final_absence
    Itemized,         \* effect_kind = "itemized"
    RecoveryEnabled,  \* recovery_authorization is configured
    RetentionEnabled, \* a privileged retention store is configured
    MaxTime,          \* bound on the clock
    MaxRevision       \* bound on revisions at which a call may start

VARIABLES
    keys,      \* proposals whose payload and commitment keys still exist
    calls,     \* local state of each worker's call
    inFlight,  \* attempts the target has received and not decided
    applied,   \* attempts that took effect at the target
    boundary   \* attempts up to this revision can no longer take effect

store == <<proposals, claims, now>>
target == <<inFlight, applied, boundary>>
vars == <<store, keys, calls, target>>

ASSUME RuntimeAssumption ==
    /\ Required \in Nat \ {0}
    /\ {Ttl, Lease, MaxAttempts} \subseteq Nat \ {0}
    /\ Delay \in Nat
    /\ {AllowResend, Itemized, RecoveryEnabled, RetentionEnabled} \subseteq BOOLEAN
    /\ {MaxTime, MaxRevision} \subseteq Nat

\* MOfNApprovals.authorities is a frozenset.
ASSUME AuthoritiesAssumption == IsFiniteSet(Authorities)

\* Where a call is suspended.
CallPc ==
    { "idle", "resolve", "recheck", "precheck", "admit", "dispatch", "run",
      "await", "cas", "due", "verify", "observe", "replace", "destroy",
      "tombstone" }

Call ==
    [ pc : CallPc, p : Proposals \cup {NoProposal}, rec : StoredProposal,
      at : Nat, valid : SUBSET Evidence, write : StoredProposal, next : CallPc ]

\* A call suspended at an await with the record it holds.
Suspend(pc, p, record, at) ==
    [ pc |-> pc, p |-> p, rec |-> record, at |-> at, valid |-> {},
      write |-> AbsentProposal, next |-> "idle" ]

NoCall == Suspend("idle", NoProposal, AbsentProposal, 0)

\* About to _cas(record, updated); a success continues at next.
Write(p, record, updated, next, at) ==
    [ pc |-> "cas", p |-> p, rec |-> record, at |-> at, valid |-> {},
      write |-> updated, next |-> next ]

\* One attempt of a proposal, named by the revision that entered executing.
Attempt(p, token) == [proposal |-> p, token |-> token]

AttemptRecord == [proposal : Proposals, token : Nat]

-----------------------------------------------------------------------------
(* Records the handlers write. *)

Move(record, status) == [record EXCEPT !.status = status, !.revision = @ + 1]

MoveWith(record, status, receipt) ==
    [Move(record, status) EXCEPT !.receipts = Append(@, receipt)]

\* Mutant: the lifetime is subtracted.
PreparedBackdated(at) ==
    [ status |-> "awaiting_authority", revision |-> 0, evidence |-> {},
      receipts |-> <<"prepared">>, attempts |-> 0, nextAt |-> NoTime,
      expiresAt |-> at - Ttl, supersededBy |-> NoProposal, erasure |-> "none" ]

Prepared(at) ==
    [ status |-> "awaiting_authority", revision |-> 0, evidence |-> {},
      receipts |-> <<"prepared">>, attempts |-> 0, nextAt |-> NoTime,
      expiresAt |-> at + Ttl, supersededBy |-> NoProposal, erasure |-> "none" ]

Expired(record, at) == record.expiresAt <= at

\* _valid_authority_evidence: bound to p, issued and unexpired.
Valid(evidence, p, at) ==
    {e \in evidence : e.proposal = p /\ e.issued <= at /\ at < e.expires}

\* _satisfied: enough distinct declared authorities approve.
Satisfied(evidence) ==
    Cardinality({e.authority : e \in {x \in evidence : x.decision = "approve"}}
                  \cap Authorities) >= Required

Decided(record, e, p, at) ==
    LET accumulated == record.evidence \cup {e}
        status ==
            IF e.decision = "reject" THEN "denied"
            ELSE IF Satisfied(Valid(accumulated, p, at)) THEN "authorized"
            ELSE "awaiting_authority"
        receipt == IF e.decision = "reject" THEN "authority_rejected"
                                            ELSE "authority_recorded"
    IN  [MoveWith(record, status, receipt) EXCEPT !.evidence = accumulated]

\* Mutant: a blocked execution is recorded as a denial.
BlockedAsDenied(record) == MoveWith(record, "denied", "authority_failed")

\* _block
Blocked(record) == MoveWith(record, "blocked", "authority_failed")

Executing(record, admittedAt) ==
    [MoveWith(record, "executing", "started") EXCEPT
        !.nextAt = admittedAt + Lease]

\* Mutant: an executor without an answer counts as a failure.
SettledOptimistically(record, reply, at) ==
    LET status == IF reply = "failed_unknown" THEN "failed_known" ELSE reply
        move(s, next) == [MoveWith(record, s, status) EXCEPT !.nextAt = next]
    IN  CASE status = "stale_no_effect" -> move("stale", NoTime)
          [] status = "failed_known"    -> move("failed_known", NoTime)
          [] OTHER                      -> move("verification_pending", at + Delay)

\* _settle_execution; reply is an ExecutionStatus.
SettledExecution(record, reply, at) ==
    LET status == IF reply = "partially_succeeded" /\ ~Itemized
                  THEN "failed_unknown" ELSE reply
        move(s, next) == [MoveWith(record, s, status) EXCEPT !.nextAt = next]
    IN  CASE status = "stale_no_effect" -> move("stale", NoTime)
          [] status = "failed_known"    -> move("failed_known", NoTime)
          [] status = "failed_unknown"  -> move("failed_unknown", at)
          [] OTHER                      -> move("verification_pending", at + Delay)

\* Mutant: running out of attempts counts as a failure.
ExhaustedIsFailure(record, result, items, idempotent) ==
    CASE result = "verified_completion" -> "verified"
      [] result = "authoritative_final_absence" ->
            IF AllowResend /\ idempotent THEN "authorized" ELSE "failed_known"
      [] OTHER -> "failed_known"

\* _verification_transition; items is "none", "succeeded" or "partial".
VerificationTransition(record, result, items, idempotent) ==
    CASE result = "verified_completion" ->
            IF items # "none" /\ ~Itemized THEN "verification_unresolved"
            ELSE IF items = "partial" THEN "partially_succeeded"
            ELSE "verified"
      [] result = "verified_terminal_failure" -> "failed_known"
      [] result = "authoritative_final_absence" ->
            IF AllowResend /\ idempotent THEN "authorized" ELSE "failed_known"
      [] OTHER -> IF record.attempts >= MaxAttempts
                  THEN "verification_unresolved" ELSE "verification_pending"

\* _settle_verification
SettledVerification(record, result, items, idempotent, at) ==
    LET status == VerificationTransition(record, result, items, idempotent)
    IN  [MoveWith(record, status, result) EXCEPT
            !.attempts = IF status = "authorized" THEN 0 ELSE @,
            !.nextAt = IF status = "verification_pending" THEN at + Delay
                                                          ELSE NoTime]

Resumed(record, at) ==
    [MoveWith(record, "verification_pending", "verification_resumed") EXCEPT
        !.attempts = 0, !.nextAt = at]

-----------------------------------------------------------------------------
(* Steps every call is made of. *)

Goto(w, call) == calls' = [calls EXCEPT ![w] = call]

Return(w) == Goto(w, NoCall)

\* Mutant: a proposal under erasure is not turned away.
BeginErased(w, p) ==
    /\ calls[w].pc = "idle"
    /\ Stored(p)
    /\ proposals[p].revision < MaxRevision

\* _required: the call may start on a proposal that is not being erased.
Begin(w, p) ==
    /\ calls[w].pc = "idle"
    /\ Stored(p)
    /\ proposals[p].erasure = "none"
    /\ proposals[p].revision < MaxRevision

\* _cas, and what follows it: a conflict ends the call.
Cas(w) ==
    LET c == calls[w]
    IN  /\ c.pc = "cas"
        /\ CompareAndSet(c.p, c.rec, c.write)
        /\ IF Accepts(c.p, c.rec, c.write) /\ c.next # "idle"
           THEN Goto(w, Suspend(c.next, c.p, c.write, c.at))
           ELSE Return(w)
        /\ UNCHANGED <<claims, now, keys, target>>

\* The call is cancelled, raises out of a port, or dies with its process.
Abandon(w) ==
    /\ calls[w].pc # "idle"
    /\ Return(w)
    /\ UNCHANGED <<store, keys, target>>

-----------------------------------------------------------------------------
(* prepare, record_authority, expire_due *)

\* prepare with an undisturbed _persist_prepared; the clock was read before
\* the host's ports, so the row may be created late, even already expired.
Prepare(p, at) ==
    /\ ~Stored(p)
    /\ at <= now
    /\ proposals' = [proposals EXCEPT ![p] = Prepared(at)]
    /\ keys' = keys \cup {p}
    /\ UNCHANGED <<claims, now, calls, target>>

RecordAuthority(w, p, e) ==
    LET record == proposals[p]
    IN  /\ Begin(w, p)
        /\ record.status = "awaiting_authority"
        /\ e \notin record.evidence
        /\ \/ /\ Expired(record, now)
              /\ Goto(w, Write(p, record, Move(record, "expired"), "idle", 0))
           \/ /\ ~Expired(record, now)
              /\ e \in Valid(Evidence, p, now)
              /\ Goto(w, Write(p, record, Decided(record, e, p, now), "idle", 0))
        /\ UNCHANGED <<store, keys, target>>

ExpireDue(w, p) ==
    LET record == proposals[p]
    IN  /\ Begin(w, p)
        /\ record.status \in {"awaiting_authority", "authorized"}
        /\ Expired(record, now)
        /\ Goto(w, Write(p, record, Move(record, "expired"), "idle", 0))
        /\ UNCHANGED <<store, keys, target>>

-----------------------------------------------------------------------------
(* execute *)

Execute(w, p) ==
    LET record == proposals[p]
    IN  /\ Begin(w, p)
        /\ record.status = "authorized"
        /\ Goto(w, IF Expired(record, now)
                   THEN Write(p, record, Move(record, "expired"), "idle", 0)
                   ELSE Suspend("resolve", p, record, now))
        /\ UNCHANGED <<store, keys, target>>

\* _load_private, the first authority evaluation and the state resolver.
Resolve(w) ==
    LET c == calls[w]
        usable == c.p \in keys /\ Satisfied(Valid(c.rec.evidence, c.p, c.at))
        stale == MoveWith(c.rec, "stale", "failed_known")
    IN  /\ c.pc = "resolve"
        /\ \/ /\ ~usable
              /\ Goto(w, Write(c.p, c.rec, Blocked(c.rec), "idle", 0))
           \/ /\ usable
              /\ \/ Goto(w, Suspend("recheck", c.p, c.rec, 0))
                 \/ Goto(w, Write(c.p, c.rec, stale, "idle", 0))
                 \/ Goto(w, Write(c.p, c.rec, stale, "replace", c.at))
        /\ UNCHANGED <<store, keys, target>>

\* The resolver returned: expiry, authority and can_execute at a fresh clock.
Recheck(w) ==
    LET c == calls[w]
        valid == Valid(c.rec.evidence, c.p, now)
    IN  /\ c.pc = "recheck"
        /\ \/ /\ Expired(c.rec, now)
              /\ Goto(w, Write(c.p, c.rec, Move(c.rec, "expired"), "idle", 0))
           \/ /\ ~Expired(c.rec, now)
              /\ Goto(w, Write(c.p, c.rec, Blocked(c.rec), "idle", 0))
           \/ /\ ~Expired(c.rec, now)
              /\ Satisfied(valid)
              /\ Goto(w, [Suspend("precheck", c.p, c.rec, 0) EXCEPT
                            !.valid = valid])
        /\ UNCHANGED <<store, keys, target>>

\* can_execute allowed it: the clock that becomes admitted_at.
Precheck(w) ==
    LET c == calls[w]
    IN  /\ c.pc = "precheck"
        /\ \/ /\ Expired(c.rec, now)
              /\ Goto(w, Write(c.p, c.rec, Move(c.rec, "expired"), "idle", 0))
           \/ /\ ~Expired(c.rec, now)
              /\ Valid(c.valid, c.p, now) # c.valid
              /\ Goto(w, Write(c.p, c.rec, Blocked(c.rec), "idle", 0))
           \/ /\ ~Expired(c.rec, now)
              /\ Valid(c.valid, c.p, now) = c.valid
              /\ Goto(w, [c EXCEPT !.pc = "admit", !.at = now])
        /\ UNCHANGED <<store, keys, target>>

\* store.admit_execution: row and effect claim move in one transaction.
Admit(w) ==
    LET c == calls[w]
        executing == Executing(c.rec, c.at)
    IN  /\ c.pc = "admit"
        /\ \/ /\ Admissible(c.p, c.rec, c.at, executing)
              /\ Claimable(c.p)
              /\ proposals' = [proposals EXCEPT ![c.p] = executing]
              /\ claims' = [claims EXCEPT ![EffectOf[c.p]] = c.p]
              /\ Goto(w, [c EXCEPT !.pc = "dispatch", !.rec = executing])
           \/ /\ ~(Admissible(c.p, c.rec, c.at, executing) /\ Claimable(c.p))
              /\ Return(w)
              /\ UNCHANGED <<proposals, claims>>
        /\ UNCHANGED <<now, keys, target>>

\* Mutant: evidence that expired during admission is not noticed.
RefusedForTimeOnly(c) == Expired(c.rec, now) \/ now >= c.at + Lease

\* Admitted: refuse without calling the executor if time ran out meanwhile.
Refused(c) ==
    \/ Expired(c.rec, now)
    \/ Valid(c.valid, c.p, now) # c.valid
    \/ now >= c.at + Lease

Dispatch(w) ==
    LET c == calls[w]
        refused == SettledExecution(c.rec, "failed_known", now)
    IN  /\ c.pc = "dispatch"
        /\ IF Refused(c)
           THEN Goto(w, Write(c.p, c.rec, refused, "idle", 0))
           ELSE Goto(w, [c EXCEPT !.pc = "run", !.at = now])
        /\ UNCHANGED <<store, keys, target>>

\* The executor sends the attempt to the target.
Submit(w) ==
    LET c == calls[w]
    IN  /\ c.pc = "run"
        /\ inFlight' = inFlight \cup {Attempt(c.p, c.rec.revision)}
        /\ Goto(w, Suspend("await", c.p, c.rec, 0))
        /\ UNCHANGED <<store, keys, applied, boundary>>

\* The executor returns and _settle_execution prepares its write.  It may
\* deny an effect only if the attempt was never sent or the target refused it.
ExecutorReturns(w, reply) ==
    LET c == calls[w]
        attempt == Attempt(c.p, c.rec.revision)
    IN  /\ \/ c.pc = "run" /\ reply \in {"failed_known", "stale_no_effect",
                                         "failed_unknown"}
           \/ c.pc = "await" /\ reply \in {"accepted", "failed_unknown",
                                           "partially_succeeded"}
           \/ /\ c.pc = "await" /\ reply \in {"failed_known", "stale_no_effect"}
              /\ attempt \notin inFlight \cup applied
        /\ Goto(w, Write(c.p, c.rec, SettledExecution(c.rec, reply, now),
                         "idle", 0))
        /\ UNCHANGED <<store, keys, target>>

\* _supersede_stale after its first write: persist the replacement ...
PersistReplacement(w, fresh) ==
    LET c == calls[w]
        superseded == [Move(c.rec, "superseded") EXCEPT !.supersededBy = fresh]
    IN  /\ c.pc = "replace"
        /\ ~Stored(fresh)
        /\ proposals' = [proposals EXCEPT ![fresh] = Prepared(c.at)]
        /\ keys' = keys \cup {fresh}
        /\ Goto(w, Write(c.p, c.rec, superseded, "idle", 0))
        /\ UNCHANGED <<claims, now, target>>

-----------------------------------------------------------------------------
(* reconcile and resume_verification *)

\* Mutant: a lease never holds anyone back.
LeasedNever(record, at) == FALSE

\* next_verification_at is set and has not come.
Leased(record, at) == record.nextAt # NoTime /\ record.nextAt > at

\* Mutant: the verifier is called without a lease on the row.
DueUnleased(p, record, at) ==
    IF Leased(record, at) THEN NoCall ELSE Suspend("verify", p, record, at)

\* Mutant: one attempt too many.
DueOnceMore(p, record, at) ==
    IF Leased(record, at) THEN NoCall
    ELSE IF record.attempts > MaxAttempts
    THEN Write(p, record, Move(record, "verification_unresolved"), "idle", 0)
    ELSE Write(p, record,
               [Move(record, "verification_pending") EXCEPT
                   !.nextAt = at + Lease, !.attempts = @ + 1],
               "verify", at)

\* A verification_pending record in hand: wait, give up, or take the lease.
Due(p, record, at) ==
    IF Leased(record, at) THEN NoCall
    ELSE IF record.attempts >= MaxAttempts
    THEN Write(p, record,
               [Move(record, "verification_unresolved") EXCEPT !.nextAt = NoTime],
               "idle", 0)
    ELSE Write(p, record,
               [Move(record, "verification_pending") EXCEPT
                   !.nextAt = at + Lease, !.attempts = @ + 1],
               "verify", at)

Reconcile(w, p) ==
    LET record == proposals[p]
        call ==
            IF record.erasure # "none" THEN NoCall
            ELSE IF record.status = "verification_pending"
            THEN Due(p, record, now)
            ELSE IF \/ record.status = "failed_unknown"
                    \/ record.status = "executing" /\ ~Leased(record, now)
            THEN Write(p, record, Move(record, "verification_pending"), "due", now)
            ELSE NoCall
    IN  /\ \/ Begin(w, p)
           \/ calls[w].pc = "observe" /\ calls[w].p = p
        /\ Goto(w, call)
        /\ UNCHANGED <<store, keys, target>>

\* reconcile goes on with its own pending record and its first clock value.
ReconcileDue(w) ==
    /\ calls[w].pc = "due"
    /\ Goto(w, Due(calls[w].p, calls[w].rec, calls[w].at))
    /\ UNCHANGED <<store, keys, target>>

\* Attempts admitted to a worker that has not handed them to the target yet.
HeldAttempts ==
    {Attempt(calls[w].p, calls[w].rec.revision) :
        w \in {v \in Workers : calls[v].pc \in {"dispatch", "run"}}}

\* Attempts that took effect or still can.
OpenAttempts ==
    {a \in inFlight \cup applied \cup HeldAttempts :
        a.token > boundary[a.proposal]}

\* What a truthful verifier may report of proposal p.  A terminal failure is
\* the recorded end of what was attempted: nothing of p is left to take effect.
MayReport(p, result, items) ==
    /\ result = "verified_completion" => \E a \in applied : a.proposal = p
    /\ result = "verified_terminal_failure" => \A a \in OpenAttempts : a.proposal # p
    /\ result \in {"verified_terminal_failure", "authoritative_final_absence"}
         => \A a \in applied : a.proposal # p
    /\ items # "none" => result = "verified_completion"

\* The verifier answers.  Only a final absence has passed a settling boundary:
\* attempts up to this record's revision can no longer take effect.
Verify(w, result, items, idempotent) ==
    LET c == calls[w]
        passed == result = "authoritative_final_absence"
    IN  /\ c.pc = "verify"
        /\ MayReport(c.p, result, items)
        /\ boundary' = [boundary EXCEPT
                          ![c.p] = IF passed /\ c.rec.revision > @
                                   THEN c.rec.revision ELSE @]
        /\ Goto(w, Write(c.p, c.rec,
                         SettledVerification(c.rec, result, items, idempotent,
                                             c.at),
                         "idle", 0))
        /\ UNCHANGED <<store, keys, inFlight, applied>>

\* resume_verification with the revision the operator saw still current.
ResumeVerification(w, p) ==
    LET record == proposals[p]
    IN  /\ RecoveryEnabled
        /\ Begin(w, p)
        /\ record.status \in OperatorRecoveryAvailable
        /\ Goto(w, Write(p, record, Resumed(record, now), "observe", 0))
        /\ UNCHANGED <<store, keys, target>>

-----------------------------------------------------------------------------
(* erase *)

\* Authorised, read, and mark_erasure_pending unless it is pending already;
\* the pending record is then read back.
Erase(w, p) ==
    LET record == proposals[p]
    IN  /\ RetentionEnabled
        /\ calls[w].pc = "idle"
        /\ Stored(p)
        /\ \/ /\ MayMarkErasure(p, record)
              /\ proposals' = [proposals EXCEPT
                                 ![p] = ProposalWithErasurePending(record)]
              /\ Goto(w, Suspend("destroy", p, proposals'[p], 0))
           \/ /\ record.erasure = "pending"
              /\ Goto(w, Suspend("destroy", p, record, 0))
              /\ UNCHANGED proposals
        /\ UNCHANGED <<claims, now, keys, target>>

\* _destroy_payload and _destroy_commitment, idempotent.
DestroyKeys(w) ==
    LET c == calls[w]
    IN  /\ c.pc = "destroy"
        /\ keys' = keys \ {c.p}
        /\ Goto(w, [c EXCEPT !.pc = "tombstone"])
        /\ UNCHANGED <<store, target>>

CompleteErasure(w) ==
    LET c == calls[w]
    IN  /\ c.pc = "tombstone"
        /\ proposals' = IF MayCompleteErasure(c.p, c.rec)
                        THEN [proposals EXCEPT ![c.p] = ErasedProposal(@)]
                        ELSE proposals
        /\ Return(w)
        /\ UNCHANGED <<claims, now, keys, target>>

-----------------------------------------------------------------------------
(* The target and the clock. *)

TargetApplies(a) ==
    /\ a \in inFlight
    /\ a.token > boundary[a.proposal]
    /\ inFlight' = inFlight \ {a}
    /\ applied' = applied \cup {a}
    /\ UNCHANGED <<store, keys, calls, boundary>>

TargetRefuses(a) ==
    /\ a \in inFlight
    /\ inFlight' = inFlight \ {a}
    /\ UNCHANGED <<store, keys, calls, applied, boundary>>

Tick ==
    /\ now < MaxTime
    /\ now' = now + 1
    /\ UNCHANGED <<proposals, claims, keys, calls, target>>

-----------------------------------------------------------------------------

Init ==
    /\ proposals = [p \in Proposals |-> AbsentProposal]
    /\ claims = [e \in Effects |-> NoProposal]
    /\ now = 0
    /\ keys = {}
    /\ calls = [w \in Workers |-> NoCall]
    /\ inFlight = {}
    /\ applied = {}
    /\ boundary = [p \in Proposals |-> 0]

ExecutionReply ==
    { "accepted", "stale_no_effect", "failed_known", "failed_unknown",
      "partially_succeeded" }

VerificationReport ==
    { "verified_completion", "verified_terminal_failure",
      "provisional_absence", "authoritative_final_absence",
      "target_unavailable" }

Next ==
    \/ \E p \in Proposals, at \in 0..now : Prepare(p, at)
    \/ \E w \in Workers, p \in Proposals :
          \/ \E e \in Evidence : RecordAuthority(w, p, e)
          \/ ExpireDue(w, p)
          \/ Execute(w, p)
          \/ PersistReplacement(w, p)
          \/ Reconcile(w, p)
          \/ ResumeVerification(w, p)
          \/ Erase(w, p)
    \/ \E w \in Workers :
          \/ Cas(w)
          \/ Abandon(w)
          \/ Resolve(w)
          \/ Recheck(w)
          \/ Precheck(w)
          \/ Admit(w)
          \/ Dispatch(w)
          \/ Submit(w)
          \/ \E reply \in ExecutionReply : ExecutorReturns(w, reply)
          \/ ReconcileDue(w)
          \/ \E result \in VerificationReport,
                items \in {"none", "succeeded", "partial"},
                idempotent \in BOOLEAN : Verify(w, result, items, idempotent)
          \/ DestroyKeys(w)
          \/ CompleteErasure(w)
    \/ \E a \in inFlight : TargetApplies(a) \/ TargetRefuses(a)
    \/ Tick

Spec == Init /\ [][Next]_vars

-----------------------------------------------------------------------------
(* What must hold. *)

\* Every variable has its type: records are StoredProposal records, calls are
\* suspended at a known await, attempts name proposals and revisions.
TypeOK ==
    /\ proposals \in [Proposals -> StoredProposal]
    /\ claims \in [Effects -> Proposals \cup {NoProposal}]
    /\ now \in Nat
    /\ keys \subseteq Proposals
    /\ calls \in [Workers -> Call]
    /\ inFlight \subseteq AttemptRecord
    /\ applied \subseteq AttemptRecord
    /\ boundary \in [Proposals -> Nat]

\* Statuses under which an attempt may have, or may still get, an effect.
MayHaveEffect ==
    { "executing", "failed_unknown", "verification_pending",
      "verification_unresolved", "partially_succeeded", "verified" }

\* A business effect happens at most once, whichever proposals and attempts
\* were made for it, through takeovers of a slow executor, resends after a
\* final absence and claims released to another proposal.
EffectAtMostOnce ==
    \A a, b \in applied :
        EffectOf[a.proposal] = EffectOf[b.proposal] => a = b

\* While an attempt may have an effect, its proposal says so and owns the
\* effect claim, so admit_execution refuses every other proposal; and there is
\* only one such attempt.
ClaimCoversOpenAttempt ==
    \A a \in OpenAttempts :
        /\ proposals[a.proposal].status \in MayHaveEffect
        /\ claims[EffectOf[a.proposal]] = a.proposal
        /\ \A b \in OpenAttempts : b.proposal = a.proposal => b = a

\* A proposal that reports a refusal, an expiry, a known failure or renewed
\* eligibility had no effect; one that reports success had one.
StatusTellsTheTruth ==
    \A p \in Proposals :
        LET effects == {a \in applied : a.proposal = p}
        IN  /\ proposals[p].status \notin MayHaveEffect => effects = {}
            /\ proposals[p].status \in {"verified", "partially_succeeded"}
                 => effects # {}

\* At the moment c.at the call is authorized, unexpired and leased.
RunsUnderAuthority(c) ==
    /\ c.at < c.rec.expiresAt
    /\ c.at < c.rec.nextAt
    /\ Satisfied(Valid(c.rec.evidence, c.p, c.at))

\* The executor is only called while the proposal is unexpired, its lease
\* runs, and the evidence still valid at that moment satisfies the approval
\* policy, although execute() last evaluated the policy two awaits earlier.
ExecutorRunsUnderAuthority ==
    \A w \in Workers : calls[w].pc = "run" => RunsUnderAuthority(calls[w])

\* Of the calls that execute or verify a proposal, at most one can still write
\* its outcome: everyone else holds a superseded revision.
OneCallCanSettle ==
    \A v, w \in Workers :
        LET current(x) ==
                /\ calls[x].pc \in {"dispatch", "run", "await", "verify"}
                /\ Matches(calls[x].p, calls[x].rec)
        IN  current(v) /\ current(w) /\ calls[v].p = calls[w].p => v = w

\* A compare-and-set whose revision and status still match, and an admission
\* of a row that is still authorized, are never refused with
\* StoreInvariantError: the copy they were computed from is the stored row.
NoStoreInvariantError ==
    \A w \in Workers :
        LET c == calls[w]
        IN  /\ c.pc = "cas" /\ Matches(c.p, c.rec) =>
                  c.rec = proposals[c.p] /\ Accepts(c.p, c.rec, c.write)
            /\ c.pc = "admit" /\ Matches(c.p, c.rec) =>
                  ValidUpdate(proposals[c.p], Executing(c.rec, c.at))

\* Key material is destroyed only under a pending or completed erasure.  An
\* attempt that can still take effect loses its keys in one status only: the
\* runtime has given up on it (verification_unresolved is erasable, although
\* its attempt may land later), and then it holds the effect claim for good.
KeysOutliveAttempts ==
    /\ \A p \in Proposals : Stored(p) /\ p \notin keys => proposals[p].erasure # "none"
    /\ \A a \in OpenAttempts \ applied :
         \/ a.proposal \in keys
         \/ /\ proposals[a.proposal].status = "verification_unresolved"
            /\ claims[EffectOf[a.proposal]] = a.proposal

\* Once erasure is pending nothing but its completion changes the row: calls
\* that read the row before lose their write.
ErasureFreezes ==
    [][\A p \in Proposals :
          proposals[p].erasure # "none" /\ proposals'[p] # proposals[p] =>
              /\ proposals[p].erasure = "pending"
              /\ proposals'[p] = ErasedProposal(proposals[p])]_vars

\* While an executor's lease runs, only an outcome of that execution moves the
\* proposal: reconcile may not take it over.
LeaseProtectsExecutor ==
    [][\A p \in Proposals :
          /\ proposals[p].status = "executing"
          /\ proposals[p].nextAt > now
          /\ proposals'[p] # proposals[p]
          => Len(proposals'[p].receipts) = Len(proposals[p].receipts) + 1]_vars

\* Places of the answers a verifier gave since the last execution or resume.
AnswersSinceRestart(r) ==
    {i \in DOMAIN r :
        /\ r[i] \in VerificationReport
        /\ \A j \in DOMAIN r :
             r[j] \in {"started", "verification_resumed"} => j < i}

\* Verification answers recorded since the last execution or operator resume
\* never exceed max_verification_attempts.
VerificationsBounded ==
    \A p \in Proposals :
        /\ Cardinality(AnswersSinceRestart(proposals[p].receipts)) <= MaxAttempts
        /\ proposals[p].attempts <= MaxAttempts

\* The runtime implements EffectAdmission: the effect claim is the owner, the
\* lifecycle status the verdict, and what the target applied is what happened.
Verdict(status) ==
    IF status \notin MayHaveEffect THEN "none"
    ELSE IF status \in {"verified", "partially_succeeded"} THEN "done"
    ELSE "open"

Admission == INSTANCE EffectAdmission WITH
    owner <- claims,
    verdict <- [p \in Proposals |-> Verdict(proposals[p].status)],
    happened <- {EffectOf[a.proposal] : a \in applied}

ImplementsEffectAdmission == Admission!Spec
=============================================================================
