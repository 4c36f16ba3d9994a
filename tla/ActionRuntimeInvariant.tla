----------------------- MODULE ActionRuntimeInvariant -----------------------
(***************************************************************************)
(* The inductive strengthening behind the runtime's safety properties, in  *)
(* three layers: EffectInvariant, behind EffectAtMostOnce,                 *)
(* StatusTellsTheTruth and the refinement of EffectAdmission; on top of it *)
(* CallInvariant, behind what the calls may do to rows, keys and each      *)
(* other; on top of both RecordInvariant, behind what work discovery and   *)
(* evidence export read in a row.  TLC checks them on small instances;     *)
(* ActionRuntimeProofs and ActionCallProofs prove them.                    *)
(***************************************************************************)
EXTENDS ActionRuntime

\* A copy with the stored revision is the stored row.
CopyIsFaithful(c) ==
    c.pc # "idle" =>
        /\ c.p \in Proposals
        /\ Stored(c.p)
        /\ c.rec.revision <= proposals[c.p].revision
        /\ c.rec.revision = proposals[c.p].revision => c.rec = proposals[c.p]

CopiesAreFaithful == \A w \in Workers : CopyIsFaithful(calls[w])

\* Everything the target has seen or may still be sent.
Attempts == inFlight \cup applied \cup HeldAttempts

\* No attempt of p up to this revision can take effect any more.
NothingOpen(p, revision) ==
    \A a \in Attempts : a.proposal = p /\ a.token <= revision => a.token <= boundary[p]

\* A pending write that denies an effect is sure of it: the attempt it settles
\* is gone, or the target has closed every attempt so far.
WriteIsJustified(c) ==
    /\ c.rec.status \notin {"absent", "verified", "partially_succeeded"}
    /\ c.write.revision = c.rec.revision + 1
    /\ c.write.status \notin {"absent", "executing"}
    /\ c.write.status \in MayHaveEffect => c.rec.status \in MayHaveEffect
    /\ c.rec.status \in MayHaveEffect /\ c.write.status \notin MayHaveEffect =>
         \/ /\ c.rec.status = "executing"
            /\ Attempt(c.p, c.rec.revision) \notin Attempts
         \/ NothingOpen(c.p, c.rec.revision)
    /\ c.write.status \in {"verified", "partially_succeeded"}
         => \E a \in applied : a.proposal = c.p
    /\ c.next \in {"idle", "due", "verify", "observe", "replace"}
    /\ c.next \in {"due", "verify"} => c.write.status = "verification_pending"
    /\ c.next = "replace" => c.write.status = "stale"

\* What a suspended call has established.
CallIsJustified(c) ==
    /\ c.pc \in {"resolve", "recheck", "precheck", "admit"}
         => c.rec.status = "authorized"
    /\ c.pc \in {"dispatch", "run", "await"} => c.rec.status = "executing"
    /\ c.pc \in {"due", "verify"} => c.rec.status = "verification_pending"
    /\ c.pc = "replace" => c.rec.status = "stale"
    /\ c.pc = "cas" => WriteIsJustified(c)

CallsAreJustified == \A w \in Workers : CallIsJustified(calls[w])

\* Attempts carry revisions their proposal reached, an executing proposal's
\* only open attempt is its own, and the boundary never cuts off an effect.
AttemptsAreKnown ==
    /\ \A a \in Attempts :
         /\ a.proposal \in Proposals
         /\ Stored(a.proposal)
         /\ a.token <= proposals[a.proposal].revision
         /\ /\ proposals[a.proposal].status = "executing"
            /\ a.token > boundary[a.proposal]
            => a.token = proposals[a.proposal].revision
    /\ \A a \in applied : a.token > boundary[a.proposal]

\* An attempt is in the hands of one call, and sent and applied once.
AttemptsAreExclusive ==
    /\ \A v, w \in Workers :
         /\ v # w
         /\ {calls[v].pc, calls[w].pc} \subseteq {"dispatch", "run", "await"}
         => \/ calls[v].p # calls[w].p
            \/ calls[v].rec.revision # calls[w].rec.revision
    /\ HeldAttempts \cap (inFlight \cup applied) = {}
    /\ inFlight \cap applied = {}

\* No row is erased under an executor.
ExecutingIsKept ==
    \A p \in Proposals :
        proposals[p].status = "executing" => proposals[p].erasure = "none"

\* A proposal that may have an effect holds the claim, attempt or not.
ClaimIsHeld ==
    \A p \in Proposals :
        proposals[p].status \in MayHaveEffect => claims[EffectOf[p]] = p

\* The inductive invariant behind the effect properties.
EffectInvariant ==
    /\ TypeOK
    /\ ExecutingIsKept
    /\ ClaimIsHeld
    /\ CopiesAreFaithful
    /\ CallsAreJustified
    /\ AttemptsAreKnown
    /\ AttemptsAreExclusive
    /\ ClaimCoversOpenAttempt
    /\ StatusTellsTheTruth
-----------------------------------------------------------------------------
(* What the calls may do, on top of EffectInvariant. *)

\* A resend restarts the attempt counter without a new receipt; these are the
\* statuses a proposal can then be in until it executes again.
CounterRestarted == {"authorized", "blocked", "expired", "stale", "superseded"}

\* Every recorded answer was paid for with an attempt.
AnswersAreCounted(r) ==
    LET answers == Cardinality(AnswersSinceRestart(r.receipts))
    IN  /\ r.attempts <= MaxAttempts
        /\ answers <= MaxAttempts
        /\ r.status \notin CounterRestarted => answers <= r.attempts

\* An attempt is paid for and not answered yet.
AnswerIsOwed(r) == Cardinality(AnswersSinceRestart(r.receipts)) < r.attempts

\* A pending write is one the store accepts, and takes an execution over only
\* after its lease.
WriteIsLawful(c) ==
    /\ c.write.erasure = "none"
    /\ c.rec.evidence \subseteq c.write.evidence
    /\ IsPrefix(c.rec.receipts, c.write.receipts)
    /\ c.write.status \in AllowedNext(c.rec.status) \cup {c.rec.status}
    /\ c.rec.status = "executing" =>
         \/ Len(c.write.receipts) = Len(c.rec.receipts) + 1
         \/ c.rec.nextAt <= now
    /\ AnswersAreCounted(c.write)
    /\ c.next = "verify" => AnswerIsOwed(c.write)

\* What a suspended call may rely on.
CallIsLawful(c) ==
    /\ c.pc \notin {"idle", "destroy", "tombstone"} => c.rec.erasure = "none"
    /\ c.pc \in {"destroy", "tombstone"} => proposals[c.p].erasure # "none"
    /\ AnswersAreCounted(c.rec)
    /\ c.pc = "cas" => WriteIsLawful(c)
    /\ c.pc = "verify" => AnswerIsOwed(c.rec)
    /\ c.pc \in {"precheck", "admit", "dispatch"} =>
         c.valid \subseteq c.rec.evidence /\ Satisfied(c.valid)
    /\ c.pc = "dispatch" => c.rec.nextAt = c.at + Lease
    /\ c.pc = "run" => RunsUnderAuthority(c)

CallsAreLawful == \A w \in Workers : CallIsLawful(calls[w])

\* Erasure starts on a settled row, and the row stays as it is.
ErasedRowsAreSettled ==
    \A p \in Proposals :
        proposals[p].erasure # "none" => proposals[p].status \in Erasable

\* Keys go under an erasure, which spares what reconcile still works on.
KeysFollowErasure ==
    \A p \in Proposals :
        Stored(p) /\ p \notin keys =>
            /\ proposals[p].erasure # "none"
            /\ proposals[p].status \notin ReconciliationAvailable

RowsAreCounted == \A p \in Proposals : AnswersAreCounted(proposals[p])

\* A verification lease is in the hands of one call.
VerifiersAreExclusive ==
    \A v, w \in Workers :
        /\ v # w
        /\ calls[v].pc = "verify" /\ calls[w].pc = "verify"
        => \/ calls[v].p # calls[w].p
           \/ calls[v].rec.revision # calls[w].rec.revision

CallInvariant ==
    /\ CallsAreLawful
    /\ ErasedRowsAreSettled
    /\ KeysFollowErasure
    /\ RowsAreCounted
    /\ VerifiersAreExclusive

\* Both layers.
RuntimeInvariant == EffectInvariant /\ CallInvariant
-----------------------------------------------------------------------------
(* What the records themselves say, on top of RuntimeInvariant. *)

\* Times stay within the clock, open work has a time to be found at, and the
\* last receipt explains a status that reports an outcome.
RecordIsSound(r) ==
    /\ r.expiresAt <= MaxTime + Ttl
    /\ r.status \in ReconciliationAvailable =>
         r.nextAt # NoTime /\ r.nextAt <= MaxTime + Lease + Delay
    /\ r.status # "absent" /\ r.erasure = "none" =>
         /\ r.receipts # <<>>
         /\ r.receipts[1] = "prepared"
         /\ r.status = "verified" =>
              r.receipts[Len(r.receipts)] = "verified_completion"
         /\ r.status = "failed_known" =>
              r.receipts[Len(r.receipts)] \in
                {"failed_known", "verified_terminal_failure",
                 "authoritative_final_absence"}

RecordInvariant ==
    /\ now <= MaxTime
    /\ \A p \in Proposals : RecordIsSound(proposals[p])
    /\ \A w \in Workers : /\ calls[w].at <= MaxTime
                          /\ RecordIsSound(calls[w].rec)
                          /\ RecordIsSound(calls[w].write)

\* All three layers.
InductiveInvariant == RuntimeInvariant /\ RecordInvariant
=============================================================================
