------------------------ MODULE ActionRuntimeProofs ------------------------
(***************************************************************************)
(* Proofs, for every value of the constants, that the runtime lets each    *)
(* business effect happen at most once, reports only what happened, and    *)
(* implements EffectAdmission.                                             *)
(***************************************************************************)
EXTENDS ActionRuntimeInvariant, TLAPS

-----------------------------------------------------------------------------
(* The records the handlers write. *)

\* AbsentProposal is a record of the declared type.
LEMMA AbsentType == AbsentProposal \in StoredProposal
  BY DEF AbsentProposal, StoredProposal, NoTime

\* A plain lifecycle write advances the revision by one.
LEMMA MoveType ==
    ASSUME NEW r \in StoredProposal, NEW s \in LifecycleStatus
    PROVE  /\ Move(r, s) \in StoredProposal
           /\ Move(r, s).status = s
           /\ Move(r, s).revision = r.revision + 1
  <1>1. r.revision + 1 \in Nat
    BY DEF StoredProposal
  <1>2. Move(r, s).status = s
    BY DEF Move, StoredProposal
  <1>3. Move(r, s).revision = r.revision + 1
    BY DEF Move, StoredProposal
  <1>4. Move(r, s) \in StoredProposal
    BY <1>1 DEF Move, StoredProposal
  <1> QED BY <1>2, <1>3, <1>4

\* So does one that appends a receipt.
LEMMA MoveWithType ==
    ASSUME NEW r \in StoredProposal, NEW s \in LifecycleStatus,
           NEW k \in ReceiptKind
    PROVE  /\ MoveWith(r, s, k) \in StoredProposal
           /\ MoveWith(r, s, k).status = s
           /\ MoveWith(r, s, k).revision = r.revision + 1
  <1> DEFINE m == Move(r, s)
  <1>1. /\ m \in StoredProposal
        /\ m.status = s
        /\ m.revision = r.revision + 1
    BY MoveType
  <1>2. MoveWith(r, s, k) = [m EXCEPT !.receipts = Append(m.receipts, k)]
    BY DEF MoveWith
  <1>3. Append(m.receipts, k) \in Seq(ReceiptKind)
    BY <1>1 DEF StoredProposal
  <1> HIDE DEF m
  <1>4. [m EXCEPT !.receipts = Append(m.receipts, k)] \in StoredProposal
    BY <1>1, <1>3 DEF StoredProposal
  <1>5. /\ [m EXCEPT !.receipts = Append(m.receipts, k)].status = m.status
        /\ [m EXCEPT !.receipts = Append(m.receipts, k)].revision = m.revision
    BY <1>1 DEF StoredProposal
  <1> QED BY <1>1, <1>2, <1>4, <1>5

\* The first row of a proposal.
LEMMA PreparedType ==
    ASSUME NEW at \in Nat
    PROVE  /\ Prepared(at) \in StoredProposal
           /\ Prepared(at).status = "awaiting_authority"
           /\ Prepared(at).revision = 0
  <1>1. Ttl \in Nat
    BY RuntimeAssumption
  <1>2. <<"prepared">> \in Seq(ReceiptKind)
    BY DEF ReceiptKind
  <1> QED BY <1>1, <1>2 DEF Prepared, StoredProposal, LifecycleStatus, NoTime

\* Decided adds the evidence and decides the status.
LEMMA DecidedType ==
    ASSUME NEW r \in StoredProposal, NEW e \in Evidence, NEW p, NEW at
    PROVE  /\ Decided(r, e, p, at) \in StoredProposal
           /\ Decided(r, e, p, at).status
                \in {"denied", "authorized", "awaiting_authority"}
           /\ Decided(r, e, p, at).revision = r.revision + 1
  <1> DEFINE acc == r.evidence \cup {e}
             s == IF e.decision = "reject" THEN "denied"
                  ELSE IF Satisfied(Valid(acc, p, at)) THEN "authorized"
                  ELSE "awaiting_authority"
             k == IF e.decision = "reject" THEN "authority_rejected"
                                           ELSE "authority_recorded"
             m == MoveWith(r, s, k)
  <1>1. s \in LifecycleStatus /\ k \in ReceiptKind
    BY DEF LifecycleStatus, ReceiptKind
  <1>2. s \in {"denied", "authorized", "awaiting_authority"}
    OBVIOUS
  <1>3. acc \in SUBSET Evidence
    BY DEF StoredProposal
  <1>4. Decided(r, e, p, at) = [m EXCEPT !.evidence = acc]
    BY DEF Decided
  <1> HIDE DEF s, k, acc
  <1>5. m \in StoredProposal /\ m.status = s /\ m.revision = r.revision + 1
    BY <1>1, MoveWithType
  <1> HIDE DEF m
  <1>6. [m EXCEPT !.evidence = acc] \in StoredProposal
    BY <1>3, <1>5 DEF StoredProposal
  <1>7. /\ [m EXCEPT !.evidence = acc].status = m.status
        /\ [m EXCEPT !.evidence = acc].revision = m.revision
    BY <1>5 DEF StoredProposal
  <1> QED BY <1>2, <1>4, <1>5, <1>6, <1>7

\* Rescheduling a record leaves its status and revision alone.
LEMMA NextAtType ==
    ASSUME NEW r \in StoredProposal, NEW t \in Int
    PROVE  /\ [r EXCEPT !.nextAt = t] \in StoredProposal
           /\ [r EXCEPT !.nextAt = t].status = r.status
           /\ [r EXCEPT !.nextAt = t].revision = r.revision
           /\ [r EXCEPT !.nextAt = t].attempts = r.attempts
  BY DEF StoredProposal

\* So does changing the attempt counter.
LEMMA AttemptsType ==
    ASSUME NEW r \in StoredProposal, NEW n \in Nat
    PROVE  /\ [r EXCEPT !.attempts = n] \in StoredProposal
           /\ [r EXCEPT !.attempts = n].status = r.status
           /\ [r EXCEPT !.attempts = n].revision = r.revision
  BY DEF StoredProposal

\* Entering executing.
LEMMA ExecutingType ==
    ASSUME NEW r \in StoredProposal, NEW at \in Nat
    PROVE  /\ Executing(r, at) \in StoredProposal
           /\ Executing(r, at).status = "executing"
           /\ Executing(r, at).revision = r.revision + 1
  <1> DEFINE m == MoveWith(r, "executing", "started")
  <1>1. /\ m \in StoredProposal
        /\ m.status = "executing"
        /\ m.revision = r.revision + 1
    BY MoveWithType DEF LifecycleStatus, ReceiptKind
  <1>2. at + Lease \in Int
    BY RuntimeAssumption
  <1>3. Executing(r, at) = [m EXCEPT !.nextAt = at + Lease]
    BY DEF Executing
  <1> HIDE DEF m
  <1> QED BY <1>1, <1>2, <1>3, NextAtType

\* An execution outcome denies the effect only for the two replies that do,
\* and never reports success.
LEMMA SettledExecutionType ==
    ASSUME NEW r \in StoredProposal, NEW reply \in ExecutionReply, NEW at \in Nat
    PROVE  LET u == SettledExecution(r, reply, at)
           IN  /\ u \in StoredProposal
               /\ u.revision = r.revision + 1
               /\ u.status \in {"stale", "failed_known", "failed_unknown",
                                "verification_pending"}
               /\ u.status \in {"stale", "failed_known"}
                    => reply \in {"stale_no_effect", "failed_known"}
  <1> DEFINE status == IF reply = "partially_succeeded" /\ ~Itemized
                       THEN "failed_unknown" ELSE reply
             move(s, next) == [MoveWith(r, s, status) EXCEPT !.nextAt = next]
  <1>1. status \in ReceiptKind /\ status \in ExecutionReply
    BY DEF ReceiptKind, ExecutionReply
  <1>2. ASSUME NEW s \in LifecycleStatus, NEW t \in Int
        PROVE  /\ move(s, t) \in StoredProposal
               /\ move(s, t).status = s
               /\ move(s, t).revision = r.revision + 1
    <2> DEFINE m == MoveWith(r, s, status)
    <2> HIDE DEF status
    <2>1. m \in StoredProposal /\ m.status = s /\ m.revision = r.revision + 1
      BY <1>1, MoveWithType
    <2> HIDE DEF m
    <2>2. /\ [m EXCEPT !.nextAt = t] \in StoredProposal
          /\ [m EXCEPT !.nextAt = t].status = s
          /\ [m EXCEPT !.nextAt = t].revision = r.revision + 1
      BY <2>1, NextAtType
    <2> QED BY <2>2 DEF m
  <1>3. SettledExecution(r, reply, at) =
          CASE status = "stale_no_effect" -> move("stale", NoTime)
            [] status = "failed_known"    -> move("failed_known", NoTime)
            [] status = "failed_unknown"  -> move("failed_unknown", at)
            [] OTHER                      -> move("verification_pending", at + Delay)
    BY DEF SettledExecution
  <1>4. NoTime \in Int /\ at \in Int /\ at + Delay \in Int
    BY RuntimeAssumption DEF NoTime
  <1>5. {"stale", "failed_known", "failed_unknown", "verification_pending"}
          \subseteq LifecycleStatus
    BY DEF LifecycleStatus
  <1>6. reply = status \/ status = "failed_unknown"
    OBVIOUS
  <1> HIDE DEF move, status
  <1>7. CASE status = "stale_no_effect"
    BY <1>2, <1>3, <1>4, <1>5, <1>6, <1>7
  <1>8. CASE status = "failed_known"
    BY <1>2, <1>3, <1>4, <1>5, <1>6, <1>8
  <1>9. CASE status = "failed_unknown"
    BY <1>2, <1>3, <1>4, <1>5, <1>6, <1>9
  <1>10. CASE status \notin {"stale_no_effect", "failed_known", "failed_unknown"}
    BY <1>2, <1>3, <1>4, <1>5, <1>6, <1>10
  <1> QED BY <1>7, <1>8, <1>9, <1>10

\* A verification outcome denies the effect only after a final absence or a
\* terminal failure, and reports success only after a completion.
LEMMA SettledVerificationType ==
    ASSUME NEW r \in StoredProposal, NEW result \in VerificationReport,
           NEW items, NEW idempotent \in BOOLEAN, NEW at \in Nat
    PROVE  LET u == SettledVerification(r, result, items, idempotent, at)
           IN  /\ u \in StoredProposal
               /\ u.revision = r.revision + 1
               /\ u.status \in {"verified", "partially_succeeded", "failed_known",
                                "authorized", "verification_unresolved",
                                "verification_pending"}
               /\ u.status \in {"failed_known", "authorized"}
                    => result \in {"verified_terminal_failure",
                                   "authoritative_final_absence"}
               /\ u.status \in {"verified", "partially_succeeded"}
                    => result = "verified_completion"
  <1> DEFINE s == VerificationTransition(r, result, items, idempotent)
             m == MoveWith(r, s, result)
             n == IF s = "authorized" THEN 0 ELSE m.attempts
             t == IF s = "verification_pending" THEN at + Delay ELSE NoTime
             ma == [m EXCEPT !.attempts = n]
  <1>1. /\ s \in {"verified", "partially_succeeded", "failed_known", "authorized",
                   "verification_unresolved", "verification_pending"}
        /\ s \in {"failed_known", "authorized"}
             => result \in {"verified_terminal_failure",
                            "authoritative_final_absence"}
        /\ s \in {"verified", "partially_succeeded"}
             => result = "verified_completion"
    BY DEF VerificationTransition, VerificationReport
  <1>2. s \in LifecycleStatus
    BY <1>1 DEF LifecycleStatus
  <1>3. result \in ReceiptKind
    BY DEF VerificationReport, ReceiptKind
  <1>4. t \in Int
    BY RuntimeAssumption DEF NoTime
  <1>5. SettledVerification(r, result, items, idempotent, at) =
          [ma EXCEPT !.nextAt = t]
    BY DEF SettledVerification
  <1> HIDE DEF s
  <1>6. m \in StoredProposal /\ m.status = s /\ m.revision = r.revision + 1
    BY <1>2, <1>3, MoveWithType
  <1> HIDE DEF m, t
  <1>7. n \in Nat
    BY <1>6 DEF StoredProposal
  <1> HIDE DEF n
  <1>8. ma \in StoredProposal /\ ma.status = s /\ ma.revision = r.revision + 1
    BY <1>6, <1>7, AttemptsType
  <1> HIDE DEF ma
  <1>9. /\ [ma EXCEPT !.nextAt = t] \in StoredProposal
        /\ [ma EXCEPT !.nextAt = t].status = s
        /\ [ma EXCEPT !.nextAt = t].revision = r.revision + 1
    BY <1>4, <1>8, NextAtType
  <1> QED BY <1>1, <1>5, <1>9

\* The operator's resume, and the two writes of Due, stay in verification.
LEMMA ResumedType ==
    ASSUME NEW r \in StoredProposal, NEW at \in Nat
    PROVE  /\ Resumed(r, at) \in StoredProposal
           /\ Resumed(r, at).status = "verification_pending"
           /\ Resumed(r, at).revision = r.revision + 1
  <1> DEFINE m == MoveWith(r, "verification_pending", "verification_resumed")
             ma == [m EXCEPT !.attempts = 0]
  <1>1. /\ m \in StoredProposal
        /\ m.status = "verification_pending"
        /\ m.revision = r.revision + 1
    BY MoveWithType DEF LifecycleStatus, ReceiptKind
  <1>2. Resumed(r, at) = [ma EXCEPT !.nextAt = at]
    BY DEF Resumed
  <1> HIDE DEF m
  <1>3. /\ ma \in StoredProposal
        /\ ma.status = "verification_pending"
        /\ ma.revision = r.revision + 1
    BY <1>1, AttemptsType
  <1> HIDE DEF ma
  <1> QED BY <1>2, <1>3, NextAtType

\* What Due may leave a reconcile call with: nothing, or a write that keeps
\* the proposal in verification.
LEMMA DueType ==
    ASSUME NEW p, NEW r \in StoredProposal, NEW at \in Nat
    PROVE  \/ Due(p, r, at) = NoCall
           \/ \E u \in StoredProposal, next \in {"idle", "verify"}, t \in Nat :
                 /\ Due(p, r, at) = Write(p, r, u, next, t)
                 /\ u.revision = r.revision + 1
                 /\ u.status \in {"verification_unresolved",
                                  "verification_pending"}
                 /\ next = "verify" => u.status = "verification_pending"
  <1> DEFINE mu == Move(r, "verification_unresolved")
             mp == Move(r, "verification_pending")
             uu == [mu EXCEPT !.nextAt = NoTime]
             pt == [mp EXCEPT !.nextAt = at + Lease]
             up == [pt EXCEPT !.attempts = pt.attempts + 1]
  <1>1. /\ mu \in StoredProposal
        /\ mu.status = "verification_unresolved"
        /\ mu.revision = r.revision + 1
    BY MoveType DEF LifecycleStatus
  <1>2. /\ mp \in StoredProposal
        /\ mp.status = "verification_pending"
        /\ mp.revision = r.revision + 1
    BY MoveType DEF LifecycleStatus
  <1>3. at + Lease \in Int /\ NoTime \in Int
    BY RuntimeAssumption DEF NoTime
  <1>4. \/ Due(p, r, at) = NoCall
        \/ Due(p, r, at) = Write(p, r, uu, "idle", 0)
        \/ Due(p, r, at) = Write(p, r, up, "verify", at)
    BY DEF Due
  <1> HIDE DEF mu, mp
  <1>5. /\ uu \in StoredProposal
        /\ uu.status = "verification_unresolved"
        /\ uu.revision = r.revision + 1
    BY <1>1, <1>3, NextAtType
  <1>6. /\ pt \in StoredProposal
        /\ pt.status = "verification_pending"
        /\ pt.revision = r.revision + 1
    BY <1>2, <1>3, NextAtType
  <1> HIDE DEF pt, uu
  <1>7. pt.attempts + 1 \in Nat
    BY <1>6 DEF StoredProposal
  <1>8. /\ up \in StoredProposal
        /\ up.status = "verification_pending"
        /\ up.revision = r.revision + 1
    BY <1>6, <1>7, AttemptsType
  <1> HIDE DEF up
  <1> QED BY <1>4, <1>5, <1>8

-----------------------------------------------------------------------------
(* The local state of a call. *)

\* A suspended call and a pending write are calls.
LEMMA CallType ==
    ASSUME NEW pc \in CallPc, NEW p \in Proposals \cup {NoProposal},
           NEW r \in StoredProposal, NEW u \in StoredProposal,
           NEW next \in CallPc, NEW at \in Nat
    PROVE  /\ Suspend(pc, p, r, at) \in Call
           /\ Write(p, r, u, next, at) \in Call
           /\ NoCall \in Call
  <1>1. "idle" \in CallPc /\ "cas" \in CallPc
    BY DEF CallPc
  <1> QED BY <1>1, AbsentType DEF Suspend, Write, NoCall, Call

-----------------------------------------------------------------------------
(* What every step preserves. *)

\* Attempts are named by a proposal and a revision.
LEMMA AttemptsTyped ==
    ASSUME EffectInvariant
    PROVE  /\ \A a \in Attempts : a.proposal \in Proposals /\ a.token \in Nat
           /\ \A p \in Proposals :
                boundary[p] \in Nat /\ proposals[p].revision \in Nat
           /\ \A w \in Workers : calls[w].rec.revision \in Nat
           /\ \A p \in Proposals : proposals[p] \in StoredProposal
           /\ \A w \in Workers : calls[w] \in Call
  <1> USE DEF EffectInvariant
  <1>1. \A w \in Workers : calls[w].rec.revision \in Nat
    <2> SUFFICES ASSUME NEW w \in Workers PROVE calls[w].rec.revision \in Nat
      OBVIOUS
    <2>1. calls[w].rec \in StoredProposal
      BY DEF TypeOK, Call
    <2> QED BY <2>1 DEF StoredProposal
  <1>2. \A a \in HeldAttempts : a.token \in Nat
    BY <1>1 DEF HeldAttempts, Attempt
  <1>3. \A a \in inFlight \cup applied : a.token \in Nat
    BY DEF TypeOK, AttemptRecord
  <1>4. \A a \in Attempts : a.proposal \in Proposals
    BY DEF AttemptsAreKnown
  <1>5. \A p \in Proposals : boundary[p] \in Nat
    BY DEF TypeOK
  <1>6. \A p \in Proposals : proposals[p] \in StoredProposal
    BY DEF TypeOK
  <1>7. \A p \in Proposals : proposals[p].revision \in Nat
    BY <1>6 DEF StoredProposal
  <1>8. \A w \in Workers : calls[w] \in Call
    BY DEF TypeOK
  <1> QED BY <1>1, <1>2, <1>3, <1>4, <1>5, <1>6, <1>7, <1>8 DEF Attempts

\* Steps that leave the rows and claims alone, lose attempts rather than gain
\* them, and only add effects and boundaries preserve the invariant, provided
\* the calls they change are faithful and justified.
LEMMA QuietStep ==
    ASSUME EffectInvariant, TypeOK',
           UNCHANGED <<proposals, claims>>,
           Attempts' \subseteq Attempts,
           applied \subseteq applied',
           \A p \in Proposals : boundary[p] <= boundary'[p],
           \A a \in applied' : a.token > boundary'[a.proposal],
           AttemptsAreExclusive',
           \A v \in Workers :
              \/ calls'[v] = calls[v]
              \/ CopyIsFaithful(calls'[v]) /\ CallIsJustified(calls[v])'
    PROVE  EffectInvariant'
  <1> USE DEF EffectInvariant
  <1>1. CopiesAreFaithful'
    BY DEF CopiesAreFaithful, CopyIsFaithful, Stored
  <1>2. CallsAreJustified'
    <2> SUFFICES ASSUME NEW v \in Workers PROVE CallIsJustified(calls[v])'
      BY DEF CallsAreJustified
    <2>1. CASE calls'[v] = calls[v]
      <3>1. CallIsJustified(calls[v]) /\ CopyIsFaithful(calls[v])
        BY DEF CallsAreJustified, CopiesAreFaithful
      <3>2. calls[v].pc = "cas" => calls[v].p \in Proposals
        BY <3>1 DEF CopyIsFaithful
      <3>3. /\ calls[v].rec.revision \in Nat
            /\ \A p \in Proposals : boundary[p] \in Nat /\ boundary'[p] \in Nat
        BY DEF TypeOK, Call, StoredProposal
      <3>4. calls[v].pc = "cas" /\ NothingOpen(calls[v].p, calls[v].rec.revision)
              => NothingOpen(calls[v].p, calls[v].rec.revision)'
        BY <2>1, <3>2, <3>3, AttemptsTyped DEF NothingOpen
      <3> QED BY <2>1, <3>1, <3>2, <3>4 DEF CallIsJustified, WriteIsJustified
    <2> QED BY <2>1
  <1>3. AttemptsAreKnown'
    <2>1. /\ \A a \in Attempts : a.proposal \in Proposals /\ a.token \in Nat
          /\ \A p \in Proposals : boundary[p] \in Nat /\ boundary'[p] \in Nat
      BY AttemptsTyped DEF TypeOK
    <2> QED BY <2>1 DEF AttemptsAreKnown, Stored
  <1>4. OpenAttempts' \subseteq OpenAttempts
    <2>1. \A a \in Attempts : a.token \in Nat /\ a.proposal \in Proposals
      BY AttemptsTyped
    <2>2. \A p \in Proposals : boundary[p] \in Nat /\ boundary'[p] \in Nat
      BY DEF TypeOK
    <2> QED BY <2>1, <2>2 DEF OpenAttempts, Attempts
  <1>5. ClaimCoversOpenAttempt'
    BY <1>4 DEF ClaimCoversOpenAttempt
  <1>6. StatusTellsTheTruth'
    <2>1. applied' \subseteq OpenAttempts'
      BY DEF OpenAttempts
    <2> QED BY <1>5, <2>1 DEF ClaimCoversOpenAttempt, StatusTellsTheTruth
  <1>7. ExecutingIsKept' /\ ClaimIsHeld'
    BY DEF ExecutingIsKept, ClaimIsHeld
  <1> QED BY <1>1, <1>2, <1>3, <1>5, <1>6, <1>7

\* Steps that replace one row by its next revision (or create it) without
\* entering executing preserve the invariant, provided the new status denies
\* an effect only when no attempt is open, and reports one only when it happened.
LEMMA RowStep ==
    ASSUME EffectInvariant, TypeOK',
           NEW p \in Proposals, NEW r \in StoredProposal,
           proposals' = [proposals EXCEPT ![p] = r],
           UNCHANGED <<claims, inFlight, applied, boundary>>,
           r.status \notin {"absent", "executing"},
           Stored(p) => r.revision = proposals[p].revision + 1,
           \A a \in OpenAttempts : a.proposal = p => r.status \in MayHaveEffect,
           r.status \in MayHaveEffect => proposals[p].status \in MayHaveEffect,
           r.status \in {"verified", "partially_succeeded"}
             => \E a \in applied : a.proposal = p,
           \A v \in Workers :
              \/ calls'[v] = calls[v]
              \/ /\ calls'[v].pc \notin {"dispatch", "run", "await"}
                 /\ CopyIsFaithful(calls[v])'
                 /\ CallIsJustified(calls[v])'
    PROVE  EffectInvariant'
  <1> USE DEF EffectInvariant
  <1> DEFINE Typed == /\ \A a \in Attempts : a.proposal \in Proposals /\ a.token \in Nat
                      /\ \A q \in Proposals :
                           boundary[q] \in Nat /\ proposals[q].revision \in Nat
                      /\ \A v \in Workers : calls[v].rec.revision \in Nat
  <1>t. Typed
    BY AttemptsTyped
  <1>row. /\ proposals'[p] = r
          /\ \A q \in Proposals : q # p => proposals'[q] = proposals[q]
    BY DEF TypeOK
  <1>r. r.revision \in Nat
    BY DEF StoredProposal
  <1>held. HeldAttempts' \subseteq HeldAttempts
    BY DEF HeldAttempts
  <1>att. Attempts' \subseteq Attempts
    BY <1>held DEF Attempts
  <1>1. CopiesAreFaithful'
    <2> SUFFICES ASSUME NEW v \in Workers, calls'[v] = calls[v]
                 PROVE  CopyIsFaithful(calls[v])'
      BY DEF CopiesAreFaithful
    <2>1. CopyIsFaithful(calls[v])
      BY DEF CopiesAreFaithful
    <2>2. CASE calls[v].p = p
      BY <2>1, <2>2, <1>t, <1>row, <1>r DEF CopyIsFaithful, Stored
    <2>3. CASE calls[v].p # p
      BY <2>1, <2>3, <1>row DEF CopyIsFaithful, Stored
    <2> QED BY <2>2, <2>3
  <1>2. CallsAreJustified'
    <2> SUFFICES ASSUME NEW v \in Workers, calls'[v] = calls[v]
                 PROVE  CallIsJustified(calls[v])'
      BY DEF CallsAreJustified
    <2>1. CallIsJustified(calls[v])
      BY DEF CallsAreJustified
    <2> QED BY <2>1, <1>att DEF CallIsJustified, WriteIsJustified, NothingOpen
  <1>3. AttemptsAreKnown'
    <2> SUFFICES ASSUME NEW a \in Attempts
                 PROVE  /\ a.proposal \in Proposals
                        /\ Stored(a.proposal)'
                        /\ a.token <= proposals'[a.proposal].revision
                        /\ /\ proposals'[a.proposal].status = "executing"
                           /\ a.token > boundary[a.proposal]
                           => a.token = proposals'[a.proposal].revision
      BY <1>att DEF AttemptsAreKnown
    <2>1. /\ a.proposal \in Proposals
          /\ Stored(a.proposal)
          /\ a.token <= proposals[a.proposal].revision
          /\ /\ proposals[a.proposal].status = "executing"
             /\ a.token > boundary[a.proposal]
             => a.token = proposals[a.proposal].revision
      BY DEF AttemptsAreKnown
    <2>2. CASE a.proposal = p
      BY <2>1, <2>2, <1>t, <1>row, <1>r DEF Stored
    <2>3. CASE a.proposal # p
      BY <2>1, <2>3, <1>row DEF Stored
    <2> QED BY <2>2, <2>3
  <1>4. AttemptsAreExclusive'
    <2>1. \A v \in Workers : calls'[v].pc \in {"dispatch", "run", "await"}
             => calls'[v] = calls[v]
      OBVIOUS
    <2>2. (\A v, w \in Workers :
            /\ v # w
            /\ {calls[v].pc, calls[w].pc} \subseteq {"dispatch", "run", "await"}
            => \/ calls[v].p # calls[w].p
               \/ calls[v].rec.revision # calls[w].rec.revision)'
      BY <2>1 DEF AttemptsAreExclusive
    <2> QED BY <2>2, <1>held DEF AttemptsAreExclusive
  <1>5. OpenAttempts' \subseteq OpenAttempts
    BY <1>att DEF OpenAttempts, Attempts
  <1>6. ClaimCoversOpenAttempt'
    <2> SUFFICES ASSUME NEW a \in OpenAttempts
                 PROVE  /\ proposals'[a.proposal].status \in MayHaveEffect
                        /\ claims[EffectOf[a.proposal]] = a.proposal
                        /\ \A b \in OpenAttempts : b.proposal = a.proposal => b = a
      BY <1>5 DEF ClaimCoversOpenAttempt
    <2>1. a.proposal \in Proposals
      BY <1>t DEF OpenAttempts, Attempts
    <2> QED BY <2>1, <1>row DEF ClaimCoversOpenAttempt
  <1>7. StatusTellsTheTruth'
    <2>1. applied' \subseteq OpenAttempts'
      BY DEF OpenAttempts, AttemptsAreKnown
    <2>2. ASSUME NEW q \in Proposals,
                 proposals'[q].status \in {"verified", "partially_succeeded"}
          PROVE  \E a \in applied : a.proposal = q
      BY <2>2, <1>row DEF StatusTellsTheTruth
    <2> QED BY <1>6, <2>1, <2>2 DEF ClaimCoversOpenAttempt, StatusTellsTheTruth
  <1>8. ExecutingIsKept' /\ ClaimIsHeld'
    BY <1>row DEF ExecutingIsKept, ClaimIsHeld
  <1> QED BY <1>1, <1>2, <1>3, <1>4, <1>6, <1>7, <1>8

\* A step that only changes one worker's call.
LEMMA LocalStep ==
    ASSUME EffectInvariant, NEW w \in Workers, NEW c \in Call,
           Goto(w, c), UNCHANGED <<store, keys, target>>,
           CopyIsFaithful(c),
           CallIsJustified(calls[w])',
           c.pc \in {"dispatch", "run", "await"} =>
             /\ calls[w].pc \in {"dispatch", "run", "await"}
             /\ c.p = calls[w].p
             /\ c.rec.revision = calls[w].rec.revision,
           c.pc \in {"dispatch", "run"} => calls[w].pc \in {"dispatch", "run"}
    PROVE  EffectInvariant'
  <1> USE DEF EffectInvariant
  <1>1. /\ calls' = [calls EXCEPT ![w] = c]
        /\ UNCHANGED <<proposals, claims, now, keys, inFlight, applied, boundary>>
    BY DEF Goto, store, target
  <1>2. /\ calls'[w] = c
        /\ \A v \in Workers : v # w => calls'[v] = calls[v]
    BY <1>1 DEF TypeOK
  <1>3. TypeOK'
    BY <1>1 DEF TypeOK
  <1>4. HeldAttempts' \subseteq HeldAttempts
    BY <1>2 DEF HeldAttempts, Attempt
  <1>5. Attempts' \subseteq Attempts
    BY <1>1, <1>4 DEF Attempts
  <1>6. AttemptsAreExclusive'
    <2>1. (\A v, x \in Workers :
            /\ v # x
            /\ {calls[v].pc, calls[x].pc} \subseteq {"dispatch", "run", "await"}
            => \/ calls[v].p # calls[x].p
               \/ calls[v].rec.revision # calls[x].rec.revision)'
      BY <1>2 DEF AttemptsAreExclusive
    <2> QED BY <2>1, <1>1, <1>4 DEF AttemptsAreExclusive
  <1>7. \A p \in Proposals : boundary[p] <= boundary'[p]
    BY <1>1 DEF TypeOK
  <1>8. \A a \in applied' : a.token > boundary'[a.proposal]
    BY <1>1 DEF AttemptsAreKnown
  <1>9. CopyIsFaithful(calls'[w])
    BY <1>2
  <1> HIDE DEF EffectInvariant
  <1> QED BY <1>1, <1>2, <1>3, <1>5, <1>6, <1>7, <1>8, <1>9, QuietStep

\* A call that returns, is cancelled or dies.
LEMMA ReturnStep ==
    ASSUME EffectInvariant, NEW w \in Workers,
           Return(w), UNCHANGED <<store, keys, target>>
    PROVE  EffectInvariant'
  <1>1. NoCall \in Call
    BY AbsentType DEF NoCall, Suspend, Call, CallPc
  <1>2. NoCall.pc = "idle"
    BY DEF NoCall, Suspend
  <1>3. Goto(w, NoCall)
    BY DEF Return
  <1>4. calls'[w] = NoCall
    BY <1>3 DEF Goto, EffectInvariant, TypeOK
  <1>5. CallIsJustified(calls[w])'
    BY <1>2, <1>4 DEF CallIsJustified
  <1>6. CopyIsFaithful(NoCall)
    BY <1>2 DEF CopyIsFaithful
  <1> QED BY <1>1, <1>2, <1>3, <1>5, <1>6, LocalStep

\* A copy of the row, or what is known of an older copy.
FaithfulCopy(p, r) ==
    /\ p \in Proposals
    /\ Stored(p)
    /\ r \in StoredProposal
    /\ r.revision <= proposals[p].revision
    /\ r.revision = proposals[p].revision => r = proposals[p]

\* A write that leaves the verdict on the effect as it is.
NeutralWrite(r, u, next) ==
    /\ u \in StoredProposal
    /\ r.status \notin {"absent", "verified", "partially_succeeded"}
    /\ u.status \notin {"absent", "executing", "verified", "partially_succeeded"}
    /\ u.revision = r.revision + 1
    /\ u.status \in MayHaveEffect <=> r.status \in MayHaveEffect
    /\ next \in {"idle", "due", "verify", "observe", "replace"}
    /\ next \in {"due", "verify"} => u.status = "verification_pending"
    /\ next = "replace" => u.status = "stale"

\* Computing such a write.
LEMMA WriteStep ==
    ASSUME EffectInvariant, NEW w \in Workers, NEW p, NEW r, NEW u, NEW next,
           NEW at \in Nat,
           Goto(w, Write(p, r, u, next, at)), UNCHANGED <<store, keys, target>>,
           FaithfulCopy(p, r), NeutralWrite(r, u, next)
    PROVE  EffectInvariant'
  <1> DEFINE c == Write(p, r, u, next, at)
  <1>1. /\ c.pc = "cas" /\ c.p = p /\ c.rec = r /\ c.write = u /\ c.next = next
    BY DEF Write
  <1>2. c \in Call
    BY DEF Write, Call, CallPc, FaithfulCopy, NeutralWrite
  <1> HIDE DEF c
  <1>3. calls'[w] = c
    BY DEF Goto, EffectInvariant, TypeOK, c
  <1>4. CopyIsFaithful(c)
    BY <1>1 DEF CopyIsFaithful, FaithfulCopy
  <1>5. CallIsJustified(calls[w])'
    BY <1>1, <1>3 DEF CallIsJustified, WriteIsJustified, NeutralWrite
  <1>6. Goto(w, c)
    BY DEF c
  <1> QED BY <1>1, <1>2, <1>4, <1>5, <1>6, LocalStep

\* The row itself is a faithful copy of the row.
LEMMA RowIsFaithful ==
    ASSUME EffectInvariant, NEW p \in Proposals, Stored(p)
    PROVE  FaithfulCopy(p, proposals[p])
  <1>1. proposals[p] \in StoredProposal /\ proposals[p].revision \in Nat
    BY AttemptsTyped
  <1> QED BY <1>1 DEF FaithfulCopy

\* So is the copy a running call holds.
LEMMA CallIsFaithful ==
    ASSUME EffectInvariant, NEW w \in Workers, calls[w].pc # "idle"
    PROVE  /\ FaithfulCopy(calls[w].p, calls[w].rec)
           /\ calls[w].at \in Nat
           /\ calls[w].p \in Proposals
           /\ calls[w].rec \in StoredProposal
           /\ calls[w].write \in StoredProposal
           /\ CallIsJustified(calls[w])
  <1>1. calls[w] \in Call
    BY AttemptsTyped
  <1>2. CopyIsFaithful(calls[w]) /\ CallIsJustified(calls[w])
    BY DEF EffectInvariant, CopiesAreFaithful, CallsAreJustified
  <1> QED BY <1>1, <1>2 DEF FaithfulCopy, CopyIsFaithful, Call

\* Expiring a proposal that waits or is authorized changes no verdict.
LEMMA ExpiryIsNeutral ==
    ASSUME NEW r \in StoredProposal,
           r.status \in {"awaiting_authority", "authorized"}
    PROVE  NeutralWrite(r, Move(r, "expired"), "idle")
  <1>1. /\ Move(r, "expired") \in StoredProposal
        /\ Move(r, "expired").status = "expired"
        /\ Move(r, "expired").revision = r.revision + 1
    BY MoveType DEF LifecycleStatus
  <1> QED BY <1>1 DEF NeutralWrite, MayHaveEffect

\* Neither does blocking an authorized one.
LEMMA BlockIsNeutral ==
    ASSUME NEW r \in StoredProposal, r.status = "authorized"
    PROVE  NeutralWrite(r, Blocked(r), "idle")
  <1>1. /\ Blocked(r) \in StoredProposal
        /\ Blocked(r).status = "blocked"
        /\ Blocked(r).revision = r.revision + 1
    BY MoveWithType DEF Blocked, LifecycleStatus, ReceiptKind
  <1> QED BY <1>1 DEF NeutralWrite, MayHaveEffect

-----------------------------------------------------------------------------
(* One lemma per handler step. *)

\* record_authority computes its write.
LEMMA RecordAuthorityStep ==
    ASSUME EffectInvariant, NEW w \in Workers, NEW p \in Proposals,
           NEW e \in Evidence, RecordAuthority(w, p, e)
    PROVE  EffectInvariant'
  <1> DEFINE r == proposals[p]
  <1>1. /\ Stored(p)
        /\ r.status = "awaiting_authority"
        /\ UNCHANGED <<store, keys, target>>
    BY DEF RecordAuthority, Begin
  <1>2. FaithfulCopy(p, r) /\ r \in StoredProposal
    BY <1>1, RowIsFaithful DEF FaithfulCopy
  <1>3. NeutralWrite(r, Move(r, "expired"), "idle")
    BY <1>1, <1>2, ExpiryIsNeutral
  <1>4. NeutralWrite(r, Decided(r, e, p, now), "idle")
    <2>1. /\ Decided(r, e, p, now) \in StoredProposal
          /\ Decided(r, e, p, now).status
               \in {"denied", "authorized", "awaiting_authority"}
          /\ Decided(r, e, p, now).revision = r.revision + 1
      BY <1>2, DecidedType
    <2> QED BY <1>1, <2>1 DEF NeutralWrite, MayHaveEffect
  <1>5. \/ Goto(w, Write(p, r, Move(r, "expired"), "idle", 0))
        \/ Goto(w, Write(p, r, Decided(r, e, p, now), "idle", 0))
    BY DEF RecordAuthority
  <1> HIDE DEF r
  <1> QED BY <1>1, <1>2, <1>3, <1>4, <1>5, WriteStep

\* expire_due computes its write.
LEMMA ExpireDueStep ==
    ASSUME EffectInvariant, NEW w \in Workers, NEW p \in Proposals,
           ExpireDue(w, p)
    PROVE  EffectInvariant'
  <1> DEFINE r == proposals[p]
  <1>1. /\ Stored(p)
        /\ r.status \in {"awaiting_authority", "authorized"}
        /\ UNCHANGED <<store, keys, target>>
        /\ Goto(w, Write(p, r, Move(r, "expired"), "idle", 0))
    BY DEF ExpireDue, Begin
  <1>2. FaithfulCopy(p, r) /\ r \in StoredProposal
    BY <1>1, RowIsFaithful DEF FaithfulCopy
  <1> HIDE DEF r
  <1> QED BY <1>1, <1>2, ExpiryIsNeutral, WriteStep

\* A call suspended with a faithful copy, before it is admitted or while it
\* observes.
LEMMA SuspendStep ==
    ASSUME EffectInvariant, NEW w \in Workers, NEW c \in Call,
           Goto(w, c), UNCHANGED <<store, keys, target>>,
           c.pc \in {"resolve", "recheck", "precheck", "admit"},
           FaithfulCopy(c.p, c.rec), c.rec.status = "authorized"
    PROVE  EffectInvariant'
  <1>1. calls'[w] = c
    BY DEF Goto, EffectInvariant, TypeOK
  <1>2. CopyIsFaithful(c)
    BY DEF CopyIsFaithful, FaithfulCopy
  <1>3. CallIsJustified(calls[w])'
    BY <1>1 DEF CallIsJustified
  <1> QED BY <1>2, <1>3, LocalStep

\* execute reads the row.
LEMMA ExecuteStep ==
    ASSUME EffectInvariant, NEW w \in Workers, NEW p \in Proposals,
           Execute(w, p)
    PROVE  EffectInvariant'
  <1> DEFINE r == proposals[p]
  <1>1. /\ Stored(p)
        /\ r.status = "authorized"
        /\ UNCHANGED <<store, keys, target>>
        /\ \/ Goto(w, Write(p, r, Move(r, "expired"), "idle", 0))
           \/ Goto(w, Suspend("resolve", p, r, now))
    BY DEF Execute, Begin
  <1>2. FaithfulCopy(p, r) /\ r \in StoredProposal
    BY <1>1, RowIsFaithful DEF FaithfulCopy
  <1>3. now \in Nat
    BY DEF EffectInvariant, TypeOK
  <1> HIDE DEF r
  <1>4. CASE Goto(w, Write(p, r, Move(r, "expired"), "idle", 0))
    BY <1>1, <1>2, <1>4, ExpiryIsNeutral, WriteStep
  <1>5. CASE Goto(w, Suspend("resolve", p, r, now))
    <2> DEFINE c == Suspend("resolve", p, r, now)
    <2>1. c \in Call
      BY <1>2, <1>3, CallType DEF CallPc
    <2>2. c.pc = "resolve" /\ c.p = p /\ c.rec = r
      BY DEF Suspend
    <2> HIDE DEF c
    <2>3. Goto(w, c)
      BY <1>5 DEF c
    <2> QED BY <1>1, <1>2, <2>1, <2>2, <2>3, SuspendStep
  <1> QED BY <1>1, <1>4, <1>5

\* The resolver's answer: go on, block, or drift with or without replacement.
LEMMA ResolveStep ==
    ASSUME EffectInvariant, NEW w \in Workers, Resolve(w)
    PROVE  EffectInvariant'
  <1> DEFINE p == calls[w].p
             r == calls[w].rec
             at == calls[w].at
             stale == MoveWith(r, "stale", "failed_known")
             c == Suspend("recheck", p, r, 0)
  <1>1. /\ calls[w].pc = "resolve"
        /\ UNCHANGED <<store, keys, target>>
        /\ \/ Goto(w, Write(p, r, Blocked(r), "idle", 0))
           \/ Goto(w, c)
           \/ Goto(w, Write(p, r, stale, "idle", 0))
           \/ Goto(w, Write(p, r, stale, "replace", at))
    BY DEF Resolve
  <1>2. /\ FaithfulCopy(p, r)
        /\ at \in Nat
        /\ p \in Proposals
        /\ r \in StoredProposal
    BY <1>1, CallIsFaithful
  <1>3. r.status = "authorized"
    BY <1>1, CallIsFaithful DEF CallIsJustified
  <1>4. NeutralWrite(r, Blocked(r), "idle")
    BY <1>2, <1>3, BlockIsNeutral
  <1>5. NeutralWrite(r, stale, "idle") /\ NeutralWrite(r, stale, "replace")
    <2>1. /\ stale \in StoredProposal
          /\ stale.status = "stale"
          /\ stale.revision = r.revision + 1
      <3>1. "stale" \in LifecycleStatus /\ "failed_known" \in ReceiptKind
        BY DEF LifecycleStatus, ReceiptKind
      <3> HIDE DEF r
      <3> QED BY <1>2, <3>1, MoveWithType
    <2> QED BY <1>3, <2>1 DEF NeutralWrite, MayHaveEffect
  <1>6. c \in Call
    BY <1>2, CallType DEF CallPc
  <1>7. c.pc = "recheck" /\ c.p = p /\ c.rec = r
    BY DEF Suspend
  <1> HIDE DEF p, r, at, stale, c
  <1>8. CASE Goto(w, c)
    BY <1>1, <1>2, <1>3, <1>6, <1>7, <1>8, SuspendStep
  <1> QED BY <1>1, <1>2, <1>4, <1>5, <1>8, WriteStep

\* Expiry, authority and live authorization after the resolver.
LEMMA RecheckStep ==
    ASSUME EffectInvariant, NEW w \in Workers, Recheck(w)
    PROVE  EffectInvariant'
  <1> DEFINE p == calls[w].p
             r == calls[w].rec
             c == [ pc |-> "precheck", p |-> p, rec |-> r, at |-> 0,
                    valid |-> Valid(r.evidence, p, now),
                    write |-> AbsentProposal, next |-> "idle" ]
  <1>1. /\ calls[w].pc = "recheck"
        /\ UNCHANGED <<store, keys, target>>
        /\ \/ Goto(w, Write(p, r, Move(r, "expired"), "idle", 0))
           \/ Goto(w, Write(p, r, Blocked(r), "idle", 0))
           \/ Goto(w, [Suspend("precheck", p, r, 0) EXCEPT
                         !.valid = Valid(r.evidence, p, now)])
    BY DEF Recheck
  <1>2. FaithfulCopy(p, r) /\ p \in Proposals /\ r \in StoredProposal
    BY <1>1, CallIsFaithful
  <1>3. r.status = "authorized"
    BY <1>1, CallIsFaithful DEF CallIsJustified
  <1>4. NeutralWrite(r, Blocked(r), "idle")
    BY <1>2, <1>3, BlockIsNeutral
  <1>5. NeutralWrite(r, Move(r, "expired"), "idle")
    BY <1>2, <1>3, ExpiryIsNeutral
  <1>6. [Suspend("precheck", p, r, 0) EXCEPT !.valid = Valid(r.evidence, p, now)]
          = c
    BY DEF Suspend
  <1>7. c \in Call
    <2>1. Valid(r.evidence, p, now) \in SUBSET Evidence
      BY <1>2 DEF Valid, StoredProposal
    <2> QED BY <1>2, <2>1, AbsentType DEF Call, CallPc
  <1>8. c.pc = "precheck" /\ c.p = p /\ c.rec = r
    OBVIOUS
  <1> HIDE DEF p, r, c
  <1>9. CASE Goto(w, c)
    BY <1>1, <1>2, <1>3, <1>7, <1>8, <1>9, SuspendStep
  <1> QED BY <1>1, <1>2, <1>4, <1>5, <1>6, <1>9, WriteStep

\* The last look at the clock before admission.
LEMMA PrecheckStep ==
    ASSUME EffectInvariant, NEW w \in Workers, Precheck(w)
    PROVE  EffectInvariant'
  <1> DEFINE p == calls[w].p
             r == calls[w].rec
             c == [calls[w] EXCEPT !.pc = "admit", !.at = now]
  <1>1. /\ calls[w].pc = "precheck"
        /\ UNCHANGED <<store, keys, target>>
        /\ \/ Goto(w, Write(p, r, Move(r, "expired"), "idle", 0))
           \/ Goto(w, Write(p, r, Blocked(r), "idle", 0))
           \/ Goto(w, c)
    BY DEF Precheck
  <1>2. FaithfulCopy(p, r) /\ p \in Proposals /\ r \in StoredProposal
    BY <1>1, CallIsFaithful
  <1>3. r.status = "authorized"
    BY <1>1, CallIsFaithful DEF CallIsJustified
  <1>4. NeutralWrite(r, Blocked(r), "idle")
    BY <1>2, <1>3, BlockIsNeutral
  <1>5. NeutralWrite(r, Move(r, "expired"), "idle")
    BY <1>2, <1>3, ExpiryIsNeutral
  <1>6. calls[w] \in Call /\ now \in Nat
    BY AttemptsTyped DEF EffectInvariant, TypeOK
  <1>7. c \in Call
    BY <1>6 DEF Call, CallPc
  <1>8. c.pc = "admit" /\ c.p = p /\ c.rec = r
    BY <1>6 DEF Call
  <1> HIDE DEF p, r, c
  <1>9. CASE Goto(w, c)
    BY <1>1, <1>2, <1>3, <1>7, <1>8, <1>9, SuspendStep
  <1> QED BY <1>1, <1>2, <1>4, <1>5, <1>9, WriteStep

\* The admitted call settles its own execution: when it denies an effect, its
\* attempt was never sent or has been refused, and nobody else holds it.
LEMMA SettleStep ==
    ASSUME EffectInvariant, NEW w \in Workers, NEW reply \in ExecutionReply,
           calls[w].pc \in {"dispatch", "run", "await"},
           Goto(w, Write(calls[w].p, calls[w].rec,
                         SettledExecution(calls[w].rec, reply, now), "idle", 0)),
           UNCHANGED <<store, keys, target>>,
           reply \in {"stale_no_effect", "failed_known"} =>
             Attempt(calls[w].p, calls[w].rec.revision) \notin inFlight \cup applied
    PROVE  EffectInvariant'
  <1> DEFINE p == calls[w].p
             r == calls[w].rec
             u == SettledExecution(r, reply, now)
             c == Write(p, r, u, "idle", 0)
             a == Attempt(p, r.revision)
  <1>1. /\ FaithfulCopy(p, r)
        /\ p \in Proposals
        /\ r \in StoredProposal
        /\ r.status = "executing"
    BY CallIsFaithful DEF CallIsJustified
  <1>2. now \in Nat
    BY DEF EffectInvariant, TypeOK
  <1>3. /\ u \in StoredProposal
        /\ u.revision = r.revision + 1
        /\ u.status \in {"stale", "failed_known", "failed_unknown",
                         "verification_pending"}
        /\ u.status \in {"stale", "failed_known"}
             => reply \in {"stale_no_effect", "failed_known"}
    BY <1>1, <1>2, SettledExecutionType
  <1>4. c \in Call
    BY <1>1, <1>3, CallType DEF CallPc
  <1>5. c.pc = "cas" /\ c.p = p /\ c.rec = r /\ c.write = u /\ c.next = "idle"
    BY DEF Write
  <1>6. Goto(w, c)
    OBVIOUS
  <1> HIDE DEF u, c
  <1>7. /\ calls'[w] = c
        /\ \A v \in Workers : v # w => calls'[v] = calls[v]
    BY <1>6 DEF Goto, EffectInvariant, TypeOK
  <1>8. a \notin HeldAttempts'
    <2> SUFFICES ASSUME NEW v \in Workers, calls'[v].pc \in {"dispatch", "run"},
                        a = Attempt(calls'[v].p, calls'[v].rec.revision)
                 PROVE  FALSE
      BY DEF HeldAttempts
    <2>1. v # w /\ calls'[v] = calls[v]
      BY <1>5, <1>7
    <2>2. calls[v].p = p /\ calls[v].rec.revision = r.revision
      BY <2>1 DEF Attempt
    <2> QED BY <2>1, <2>2 DEF EffectInvariant, AttemptsAreExclusive
  <1>9. CopyIsFaithful(c)
    BY <1>1, <1>5 DEF CopyIsFaithful, FaithfulCopy
  <1>10. u.status \notin MayHaveEffect => a \notin Attempts'
    <2>1. u.status \notin MayHaveEffect
            => reply \in {"stale_no_effect", "failed_known"}
      BY <1>3 DEF MayHaveEffect
    <2>2. inFlight' = inFlight /\ applied' = applied
      BY DEF target
    <2> QED BY <1>8, <2>1, <2>2 DEF Attempts
  <1>11. CallIsJustified(calls[w])'
    <2>1. /\ calls'[w].pc = "cas" /\ calls'[w].p = p /\ calls'[w].rec = r
          /\ calls'[w].write = u /\ calls'[w].next = "idle"
      BY <1>5, <1>7
    <2> HIDE DEF p, r
    <2>2. u.status \notin {"absent", "executing", "verified",
                           "partially_succeeded"}
      BY <1>3
    <2>3. r.status \in MayHaveEffect
      BY <1>1 DEF MayHaveEffect
    <2> QED BY <1>1, <1>3, <1>10, <2>1, <2>2, <2>3
            DEF CallIsJustified, WriteIsJustified
  <1> QED BY <1>4, <1>5, <1>6, <1>9, <1>11, LocalStep

\* The last check before the executor.
LEMMA DispatchStep ==
    ASSUME EffectInvariant, NEW w \in Workers, Dispatch(w)
    PROVE  EffectInvariant'
  <1> DEFINE c == [calls[w] EXCEPT !.pc = "run", !.at = now]
  <1>1. /\ calls[w].pc = "dispatch"
        /\ UNCHANGED <<store, keys, target>>
        /\ \/ Goto(w, Write(calls[w].p, calls[w].rec,
                             SettledExecution(calls[w].rec, "failed_known", now),
                             "idle", 0))
           \/ Goto(w, c)
    BY DEF Dispatch
  <1>2. /\ calls[w] \in Call
        /\ now \in Nat
        /\ FaithfulCopy(calls[w].p, calls[w].rec)
        /\ calls[w].rec.status = "executing"
    BY <1>1, AttemptsTyped, CallIsFaithful
       DEF EffectInvariant, TypeOK, CallIsJustified
  <1>3. Attempt(calls[w].p, calls[w].rec.revision) \in HeldAttempts
    BY <1>1 DEF HeldAttempts
  <1>4. Attempt(calls[w].p, calls[w].rec.revision) \notin inFlight \cup applied
    BY <1>3 DEF EffectInvariant, AttemptsAreExclusive
  <1>5. CASE Goto(w, c)
    <2>1. c \in Call
      BY <1>2 DEF Call, CallPc
    <2>2. c.pc = "run" /\ c.p = calls[w].p /\ c.rec = calls[w].rec
      BY <1>2 DEF Call
    <2> HIDE DEF c
    <2>3. calls'[w] = c
      BY <1>5 DEF Goto, EffectInvariant, TypeOK
    <2>4. CopyIsFaithful(c)
      BY <1>2, <2>2 DEF CopyIsFaithful, FaithfulCopy
    <2>5. CallIsJustified(calls[w])'
      BY <1>2, <2>2, <2>3 DEF CallIsJustified
    <2> QED BY <1>1, <1>5, <2>1, <2>2, <2>4, <2>5, LocalStep
  <1>6. "failed_known" \in ExecutionReply
    BY DEF ExecutionReply
  <1> QED BY <1>1, <1>4, <1>5, <1>6, SettleStep

\* The executor's answer.
LEMMA ExecutorReturnsStep ==
    ASSUME EffectInvariant, NEW w \in Workers, NEW reply \in ExecutionReply,
           ExecutorReturns(w, reply)
    PROVE  EffectInvariant'
  <1>1. /\ calls[w].pc \in {"run", "await"}
        /\ UNCHANGED <<store, keys, target>>
        /\ Goto(w, Write(calls[w].p, calls[w].rec,
                         SettledExecution(calls[w].rec, reply, now), "idle", 0))
    BY DEF ExecutorReturns
  <1>2. ASSUME reply \in {"stale_no_effect", "failed_known"}
        PROVE  Attempt(calls[w].p, calls[w].rec.revision)
                 \notin inFlight \cup applied
    <2>1. CASE calls[w].pc = "run"
      <3>1. Attempt(calls[w].p, calls[w].rec.revision) \in HeldAttempts
        BY <2>1 DEF HeldAttempts
      <3> QED BY <3>1 DEF EffectInvariant, AttemptsAreExclusive
    <2>2. CASE calls[w].pc = "await"
      BY <1>2, <2>2 DEF ExecutorReturns
    <2> QED BY <1>1, <2>1, <2>2
  <1> QED BY <1>1, <1>2, SettleStep

\* reconcile with a verification_pending record in hand.
LEMMA DueStep ==
    ASSUME EffectInvariant, NEW w \in Workers, NEW p, NEW r, NEW at \in Nat,
           Goto(w, Due(p, r, at)), UNCHANGED <<store, keys, target>>,
           FaithfulCopy(p, r), r.status = "verification_pending"
    PROVE  EffectInvariant'
  <1>1. CASE Due(p, r, at) = NoCall
    BY <1>1, ReturnStep DEF Return
  <1>2. ASSUME NEW u \in StoredProposal, NEW next \in {"idle", "verify"},
               NEW t \in Nat,
               Due(p, r, at) = Write(p, r, u, next, t),
               u.revision = r.revision + 1,
               u.status \in {"verification_unresolved", "verification_pending"},
               next = "verify" => u.status = "verification_pending"
        PROVE  EffectInvariant'
    <2>1. NeutralWrite(r, u, next)
      BY <1>2 DEF NeutralWrite, MayHaveEffect
    <2>2. Goto(w, Write(p, r, u, next, t))
      BY <1>2
    <2> QED BY <2>1, <2>2, WriteStep
  <1>3. r \in StoredProposal
    BY DEF FaithfulCopy
  <1> QED BY <1>1, <1>2, <1>3, DueType

\* reconcile reads the row.
LEMMA ReconcileStep ==
    ASSUME EffectInvariant, NEW w \in Workers, NEW p \in Proposals,
           Reconcile(w, p)
    PROVE  EffectInvariant'
  <1> DEFINE r == proposals[p]
             u == Move(r, "verification_pending")
  <1>1. Stored(p)
    <2>1. CASE Begin(w, p)
      BY <2>1 DEF Begin
    <2>2. CASE calls[w].pc = "observe" /\ calls[w].p = p
      BY <2>2, CallIsFaithful DEF FaithfulCopy
    <2> QED BY <2>1, <2>2 DEF Reconcile
  <1>2. /\ UNCHANGED <<store, keys, target>>
        /\ \/ Return(w)
           \/ r.status = "verification_pending" /\ Goto(w, Due(p, r, now))
           \/ /\ r.status \in {"executing", "failed_unknown"}
              /\ Goto(w, Write(p, r, u, "due", now))
    BY DEF Reconcile, Return
  <1>3. FaithfulCopy(p, r) /\ r \in StoredProposal /\ now \in Nat
    BY <1>1, RowIsFaithful DEF FaithfulCopy, EffectInvariant, TypeOK
  <1>4. /\ u \in StoredProposal
        /\ u.status = "verification_pending"
        /\ u.revision = r.revision + 1
    BY <1>3, MoveType DEF LifecycleStatus
  <1> HIDE DEF r, u
  <1>5. CASE r.status \in {"executing", "failed_unknown"}
             /\ Goto(w, Write(p, r, u, "due", now))
    <2>1. NeutralWrite(r, u, "due")
      BY <1>4, <1>5 DEF NeutralWrite, MayHaveEffect
    <2> QED BY <1>2, <1>3, <1>5, <2>1, WriteStep
  <1> QED BY <1>2, <1>3, <1>5, ReturnStep, DueStep

\* reconcile goes on after moving the row to verification_pending.
LEMMA ReconcileDueStep ==
    ASSUME EffectInvariant, NEW w \in Workers, ReconcileDue(w)
    PROVE  EffectInvariant'
  <1>1. /\ calls[w].pc = "due"
        /\ UNCHANGED <<store, keys, target>>
        /\ Goto(w, Due(calls[w].p, calls[w].rec, calls[w].at))
    BY DEF ReconcileDue
  <1>2. /\ FaithfulCopy(calls[w].p, calls[w].rec)
        /\ calls[w].at \in Nat
        /\ calls[w].rec.status = "verification_pending"
    BY <1>1, CallIsFaithful DEF CallIsJustified
  <1> QED BY <1>1, <1>2, DueStep

\* The operator resumes verification.
LEMMA ResumeVerificationStep ==
    ASSUME EffectInvariant, NEW w \in Workers, NEW p \in Proposals,
           ResumeVerification(w, p)
    PROVE  EffectInvariant'
  <1> DEFINE r == proposals[p]
             u == Resumed(r, now)
  <1>1. /\ Stored(p)
        /\ r.status \in {"verification_pending", "verification_unresolved"}
        /\ UNCHANGED <<store, keys, target>>
        /\ Goto(w, Write(p, r, u, "observe", 0))
    BY DEF ResumeVerification, Begin, OperatorRecoveryAvailable
  <1>2. FaithfulCopy(p, r) /\ r \in StoredProposal /\ now \in Nat
    BY <1>1, RowIsFaithful DEF FaithfulCopy, EffectInvariant, TypeOK
  <1>3. /\ u \in StoredProposal
        /\ u.status = "verification_pending"
        /\ u.revision = r.revision + 1
    BY <1>2, ResumedType
  <1> HIDE DEF r, u
  <1>4. NeutralWrite(r, u, "observe")
    BY <1>1, <1>3 DEF NeutralWrite, MayHaveEffect
  <1> QED BY <1>1, <1>2, <1>4, WriteStep

\* Steps that change neither calls, rows, claims nor attempts.
LEMMA IdleStep ==
    ASSUME EffectInvariant, TypeOK',
           UNCHANGED <<proposals, claims, calls, target>>
    PROVE  EffectInvariant'
  <1>1. /\ HeldAttempts' = HeldAttempts
        /\ Attempts' = Attempts
        /\ inFlight' = inFlight /\ applied' = applied /\ boundary' = boundary
    BY DEF HeldAttempts, Attempts, target
  <1>2. AttemptsAreExclusive'
    BY <1>1 DEF AttemptsAreExclusive, EffectInvariant
  <1>3. /\ \A p \in Proposals : boundary[p] <= boundary'[p]
        /\ \A a \in applied' : a.token > boundary'[a.proposal]
    BY <1>1, AttemptsTyped DEF EffectInvariant, AttemptsAreKnown
  <1> QED BY <1>1, <1>2, <1>3, QuietStep

\* The clock advances.
LEMMA TickStep ==
    ASSUME EffectInvariant, Tick
    PROVE  EffectInvariant'
  <1>1. TypeOK'
    BY DEF Tick, EffectInvariant, TypeOK, target
  <1> QED BY <1>1, IdleStep DEF Tick

\* The target decides an attempt.  It takes effect only if it is open.
LEMMA TargetStep ==
    ASSUME EffectInvariant, NEW a \in inFlight,
           TargetApplies(a) \/ TargetRefuses(a)
    PROVE  EffectInvariant'
  <1> USE DEF EffectInvariant
  <1>1. /\ UNCHANGED <<proposals, claims, now, keys, calls, boundary>>
        /\ inFlight' = inFlight \ {a}
        /\ \/ applied' = applied
           \/ applied' = applied \cup {a} /\ a.token > boundary[a.proposal]
    BY DEF TargetApplies, TargetRefuses, store
  <1>2. TypeOK'
    BY <1>1 DEF TypeOK
  <1>3. HeldAttempts' = HeldAttempts
    BY <1>1 DEF HeldAttempts
  <1>4. Attempts' \subseteq Attempts
    BY <1>1, <1>3 DEF Attempts
  <1>5. AttemptsAreExclusive'
    BY <1>1, <1>3 DEF AttemptsAreExclusive
  <1>6. /\ \A p \in Proposals : boundary[p] <= boundary'[p]
        /\ \A b \in applied' : b.token > boundary'[b.proposal]
    BY <1>1, AttemptsTyped DEF AttemptsAreKnown
  <1> HIDE DEF EffectInvariant
  <1> QED BY <1>1, <1>2, <1>4, <1>5, <1>6, QuietStep

\* The executor hands its attempt to the target.
LEMMA SubmitStep ==
    ASSUME EffectInvariant, NEW w \in Workers, Submit(w)
    PROVE  EffectInvariant'
  <1> DEFINE p == calls[w].p
             r == calls[w].rec
             a == Attempt(p, r.revision)
             c == Suspend("await", p, r, 0)
  <1>1. /\ calls[w].pc = "run"
        /\ inFlight' = inFlight \cup {a}
        /\ calls' = [calls EXCEPT ![w] = c]
        /\ UNCHANGED <<proposals, claims, now, keys, applied, boundary>>
    BY DEF Submit, Goto, store
  <1>2. /\ FaithfulCopy(p, r)
        /\ p \in Proposals
        /\ r \in StoredProposal
        /\ r.revision \in Nat
        /\ r.status = "executing"
    BY <1>1, CallIsFaithful, AttemptsTyped DEF CallIsJustified
  <1>3. c \in Call
    BY <1>2, CallType DEF CallPc
  <1>4. c.pc = "await" /\ c.p = p /\ c.rec = r
    BY DEF Suspend
  <1>5. a \in HeldAttempts
    BY <1>1 DEF HeldAttempts
  <1> HIDE DEF c
  <1>6. /\ calls'[w] = c
        /\ \A v \in Workers : v # w => calls'[v] = calls[v]
    BY <1>1 DEF EffectInvariant, TypeOK
  <1>7. HeldAttempts' \subseteq HeldAttempts
    BY <1>4, <1>6 DEF HeldAttempts
  <1>8. a \notin HeldAttempts'
    <2> SUFFICES ASSUME NEW v \in Workers, calls'[v].pc \in {"dispatch", "run"},
                        a = Attempt(calls'[v].p, calls'[v].rec.revision)
                 PROVE  FALSE
      BY DEF HeldAttempts
    <2>1. v # w /\ calls'[v] = calls[v]
      BY <1>4, <1>6
    <2>2. calls[v].p = p /\ calls[v].rec.revision = r.revision
      BY <2>1 DEF Attempt
    <2> QED BY <1>1, <2>1, <2>2 DEF EffectInvariant, AttemptsAreExclusive
  <1>9. Attempts' \subseteq Attempts
    BY <1>1, <1>5, <1>7 DEF Attempts
  <1>10. TypeOK'
    <2>1. a \in AttemptRecord
      BY <1>2 DEF Attempt, AttemptRecord
    <2> QED BY <1>1, <1>3, <2>1 DEF EffectInvariant, TypeOK
  <1>11. AttemptsAreExclusive'
    <2>1. (\A v, x \in Workers :
            /\ v # x
            /\ {calls[v].pc, calls[x].pc} \subseteq {"dispatch", "run", "await"}
            => \/ calls[v].p # calls[x].p
               \/ calls[v].rec.revision # calls[x].rec.revision)'
      BY <1>1, <1>4, <1>6 DEF EffectInvariant, AttemptsAreExclusive
    <2> HIDE DEF a
    <2> QED BY <1>1, <1>5, <1>7, <1>8, <2>1
            DEF EffectInvariant, AttemptsAreExclusive
  <1>12. CopyIsFaithful(calls'[w])
    BY <1>2, <1>4, <1>6 DEF CopyIsFaithful, FaithfulCopy
  <1>13. CallIsJustified(calls[w])'
    BY <1>2, <1>4, <1>6 DEF CallIsJustified
  <1>14. /\ \A q \in Proposals : boundary[q] <= boundary'[q]
         /\ \A b \in applied' : b.token > boundary'[b.proposal]
    BY <1>1, AttemptsTyped DEF EffectInvariant, AttemptsAreKnown
  <1> QED BY <1>1, <1>6, <1>9, <1>10, <1>11, <1>12, <1>13, <1>14, QuietStep

\* The verifier's answer.  A denial leaves nothing open: a terminal failure
\* found nothing, and a final absence raises the boundary over every attempt.
LEMMA VerifyStep ==
    ASSUME EffectInvariant, NEW w \in Workers,
           NEW result \in VerificationReport, NEW items,
           NEW idempotent \in BOOLEAN, Verify(w, result, items, idempotent)
    PROVE  EffectInvariant'
  <1> DEFINE p == calls[w].p
             r == calls[w].rec
             u == SettledVerification(r, result, items, idempotent, calls[w].at)
             c == Write(p, r, u, "idle", 0)
             closes == result \in {"verified_terminal_failure",
                                   "authoritative_final_absence"}
             passed == result = "authoritative_final_absence"
             b == IF passed /\ r.revision > boundary[p]
                  THEN r.revision ELSE boundary[p]
  <1>1. /\ calls[w].pc = "verify"
        /\ MayReport(p, result, items)
        /\ boundary' = [boundary EXCEPT ![p] = b]
        /\ calls' = [calls EXCEPT ![w] = c]
        /\ UNCHANGED <<proposals, claims, now, keys, inFlight, applied>>
    BY DEF Verify, Goto, store
  <1>2. /\ FaithfulCopy(p, r)
        /\ p \in Proposals
        /\ r \in StoredProposal
        /\ calls[w].at \in Nat
        /\ r.status = "verification_pending"
        /\ r.revision \in Nat
        /\ boundary[p] \in Nat
    BY <1>1, CallIsFaithful, AttemptsTyped DEF CallIsJustified
  <1>3. /\ u \in StoredProposal
        /\ u.revision = r.revision + 1
        /\ u.status \in {"verified", "partially_succeeded", "failed_known",
                         "authorized", "verification_unresolved",
                         "verification_pending"}
        /\ u.status \in {"failed_known", "authorized"} => closes
        /\ u.status \in {"verified", "partially_succeeded"}
             => result = "verified_completion"
    BY <1>2, SettledVerificationType
  <1>4. c \in Call
    BY <1>2, <1>3, CallType DEF CallPc
  <1>5. c.pc = "cas" /\ c.p = p /\ c.rec = r /\ c.write = u /\ c.next = "idle"
    BY DEF Write
  <1>6. /\ b \in Nat
        /\ boundary[p] <= b
        /\ passed => r.revision <= b
        /\ ~passed => b = boundary[p]
    BY <1>2
  <1>7. /\ boundary'[p] = b
        /\ \A q \in Proposals : q # p => boundary'[q] = boundary[q]
    BY <1>1, <1>2 DEF EffectInvariant, TypeOK
  <1> HIDE DEF c, u, b, closes, passed
  <1>8. /\ calls'[w] = c
        /\ \A v \in Workers : v # w => calls'[v] = calls[v]
    BY <1>1 DEF EffectInvariant, TypeOK
  <1>9. TypeOK'
    BY <1>1, <1>2, <1>4, <1>6 DEF EffectInvariant, TypeOK
  <1>10. HeldAttempts' \subseteq HeldAttempts
    BY <1>5, <1>8 DEF HeldAttempts
  <1>11. Attempts' \subseteq Attempts
    BY <1>1, <1>10 DEF Attempts
  <1>12. AttemptsAreExclusive'
    <2>1. (\A v, x \in Workers :
            /\ v # x
            /\ {calls[v].pc, calls[x].pc} \subseteq {"dispatch", "run", "await"}
            => \/ calls[v].p # calls[x].p
               \/ calls[v].rec.revision # calls[x].rec.revision)'
      BY <1>5, <1>8 DEF EffectInvariant, AttemptsAreExclusive
    <2> QED BY <1>1, <1>10, <2>1 DEF EffectInvariant, AttemptsAreExclusive
  <1>13. \A q \in Proposals : boundary[q] <= boundary'[q]
    BY <1>6, <1>7, AttemptsTyped
  <1>14. \A a \in applied' : a.token > boundary'[a.proposal]
    <2> SUFFICES ASSUME NEW a \in applied PROVE a.token > boundary'[a.proposal]
      BY <1>1
    <2>1. a.token > boundary[a.proposal] /\ a.proposal \in Proposals
      BY AttemptsTyped DEF EffectInvariant, AttemptsAreKnown, Attempts
    <2>2. CASE a.proposal = p
      <3>1. ~passed
        BY <1>1, <2>2 DEF MayReport, passed
      <3> QED BY <1>6, <1>7, <2>1, <2>2, <3>1
    <2>3. CASE a.proposal # p
      BY <1>7, <2>1, <2>3
    <2> QED BY <2>2, <2>3
  <1>15. CopyIsFaithful(calls'[w])
    BY <1>2, <1>5, <1>8 DEF CopyIsFaithful, FaithfulCopy
  <1>16. CallIsJustified(calls[w])'
    <2>1. /\ calls'[w].pc = "cas" /\ calls'[w].p = p /\ calls'[w].rec = r
          /\ calls'[w].write = u /\ calls'[w].next = "idle"
      BY <1>5, <1>8
    <2>2. ASSUME u.status \notin MayHaveEffect, NEW a \in Attempts',
                 a.proposal = p, a.token <= r.revision
          PROVE  a.token <= boundary'[p]
      <3>1. a \in Attempts /\ a.token \in Nat
        BY <1>11, AttemptsTyped
      <3>2. closes
        BY <1>3, <2>2 DEF MayHaveEffect
      <3>3. CASE passed
        BY <1>2, <1>6, <1>7, <2>2, <3>1, <3>3
      <3>4. CASE ~passed
        <4>1. a \notin OpenAttempts
          BY <1>1, <2>2, <3>2, <3>4 DEF MayReport, closes, passed
        <4>2. ~(a.token > boundary[p])
          BY <2>2, <3>1, <4>1 DEF OpenAttempts, Attempts
        <4> QED BY <1>2, <1>6, <1>7, <3>1, <3>4, <4>2
      <3> QED BY <3>3, <3>4
    <2>3. u.status \in {"verified", "partially_succeeded"}
            => \E a \in applied' : a.proposal = p
      BY <1>1, <1>3 DEF MayReport
    <2>4. r.status \in MayHaveEffect
      BY <1>2 DEF MayHaveEffect
    <2> HIDE DEF p, r
    <2> QED BY <1>2, <1>3, <2>1, <2>2, <2>3, <2>4
            DEF CallIsJustified, WriteIsJustified, NothingOpen
  <1> QED BY <1>1, <1>8, <1>9, <1>11, <1>12, <1>13, <1>14, <1>15, <1>16, QuietStep

\* An attempt is its two fields.
LEMMA AttemptsAreRecords ==
    ASSUME EffectInvariant, NEW a \in Attempts
    PROVE  a = Attempt(a.proposal, a.token)
  <1>1. CASE a \in inFlight \cup applied
    <2>1. a \in AttemptRecord
      BY <1>1 DEF EffectInvariant, TypeOK
    <2> QED BY <2>1 DEF AttemptRecord, Attempt
  <1>2. CASE a \in HeldAttempts
    BY <1>2 DEF HeldAttempts, Attempt
  <1> QED BY <1>1, <1>2 DEF Attempts

\* A compare-and-set succeeds or changes nothing.
LEMMA CasStep ==
    ASSUME EffectInvariant, NEW w \in Workers, Cas(w)
    PROVE  EffectInvariant'
  <1> DEFINE p == calls[w].p
             r == calls[w].rec
             u == calls[w].write
             next == calls[w].next
             n == IF next = "idle" THEN NoCall
                  ELSE Suspend(next, p, u, calls[w].at)
  <1>1. /\ calls[w].pc = "cas"
        /\ UNCHANGED <<claims, now, keys, inFlight, applied, boundary>>
    BY DEF Cas, target
  <1>2. /\ FaithfulCopy(p, r)
        /\ calls[w].at \in Nat
        /\ p \in Proposals
        /\ r \in StoredProposal
        /\ u \in StoredProposal
        /\ WriteIsJustified(calls[w])
    BY <1>1, CallIsFaithful DEF CallIsJustified
  <1>3. CASE ~Accepts(p, r, u)
    <2>1. Return(w) /\ proposals' = proposals
      BY <1>3 DEF Cas, CompareAndSet
    <2> QED BY <1>1, <2>1, ReturnStep DEF store, target
  <1>4. CASE Accepts(p, r, u)
    <2>1. proposals[p] = r /\ Stored(p)
      BY <1>2, <1>4 DEF Accepts, Matches, FaithfulCopy
    <2>2. /\ proposals' = [proposals EXCEPT ![p] = u]
          /\ calls' = [calls EXCEPT ![w] = n]
      BY <1>4 DEF Cas, CompareAndSet, Goto, Return
    <2>3. next \in {"idle", "due", "verify", "observe", "replace"}
      BY <1>2 DEF WriteIsJustified
    <2>4. n \in Call
      BY <1>2, <2>3, CallType, AbsentType DEF CallPc, NoCall
    <2>5. /\ n.pc = next
          /\ next # "idle" => n.p = p /\ n.rec = u
      BY DEF NoCall, Suspend
    <2> HIDE DEF n
    <2>6. /\ calls'[w] = n
          /\ \A v \in Workers : v # w => calls'[v] = calls[v]
      BY <2>2 DEF EffectInvariant, TypeOK
    <2>7. TypeOK'
      BY <1>1, <1>2, <2>2, <2>4 DEF EffectInvariant, TypeOK
    <2>8. proposals'[p] = u
      BY <1>2, <2>2 DEF EffectInvariant, TypeOK
    <2>9. /\ u.status \notin {"absent", "executing"}
          /\ u.revision = proposals[p].revision + 1
          /\ u.status \in {"verified", "partially_succeeded"}
               => \E a \in applied : a.proposal = p
          /\ u.status \in MayHaveEffect => proposals[p].status \in MayHaveEffect
      BY <1>2, <2>1 DEF WriteIsJustified
    <2>10. ASSUME NEW a \in OpenAttempts, a.proposal = p
           PROVE  u.status \in MayHaveEffect
      <3>1. a \in Attempts /\ a.token > boundary[p]
        BY <2>10 DEF OpenAttempts, Attempts
      <3>2. r.status \in MayHaveEffect
        BY <2>1, <2>10 DEF EffectInvariant, ClaimCoversOpenAttempt
      <3>3. /\ a.token <= r.revision
            /\ r.status = "executing" => a.token = r.revision
        BY <2>1, <2>10, <3>1 DEF EffectInvariant, AttemptsAreKnown
      <3>4. a = Attempt(p, a.token)
        BY <2>10, <3>1, AttemptsAreRecords
      <3>5. a.token \in Nat /\ boundary[p] \in Nat /\ r.revision \in Nat
        BY <1>2, <3>1, AttemptsTyped
      <3>6. ~NothingOpen(p, r.revision)
        BY <2>10, <3>1, <3>3, <3>5 DEF NothingOpen
      <3>7. r.status = "executing" => Attempt(p, r.revision) \in Attempts
        BY <3>1, <3>3, <3>4
      <3> QED BY <1>2, <3>2, <3>6, <3>7 DEF WriteIsJustified
    <2>11. next # "idle" => CopyIsFaithful(calls[w])'
      <3> SUFFICES ASSUME next # "idle" PROVE CopyIsFaithful(calls[w])'
        OBVIOUS
      <3>1. calls'[w].p = p /\ calls'[w].rec = u
        BY <2>5, <2>6
      <3>2. u.revision \in Nat
        BY <1>2 DEF StoredProposal
      <3> HIDE DEF p, u
      <3> QED BY <1>2, <2>8, <2>9, <3>1, <3>2 DEF CopyIsFaithful, Stored
    <2>12. CopyIsFaithful(calls[w])' /\ CallIsJustified(calls[w])'
      <3>1. next = "idle" => CopyIsFaithful(calls[w])'
        BY <2>5, <2>6 DEF CopyIsFaithful
      <3>2. CallIsJustified(calls[w])'
        BY <1>2, <2>3, <2>5, <2>6 DEF CallIsJustified, WriteIsJustified
      <3> QED BY <2>11, <3>1, <3>2
    <2>13. calls'[w].pc \notin {"dispatch", "run", "await"}
      BY <2>3, <2>5, <2>6
    <2> HIDE DEF p, u, next
    <2> QED BY <1>1, <1>2, <2>2, <2>6, <2>7, <2>9, <2>10, <2>12, <2>13, RowStep
  <1> QED BY <1>3, <1>4

\* prepare creates a row nobody knew.
LEMMA PrepareStep ==
    ASSUME EffectInvariant, NEW p \in Proposals, NEW at \in Nat, Prepare(p, at)
    PROVE  EffectInvariant'
  <1> DEFINE r == Prepared(at)
  <1>1. /\ ~Stored(p)
        /\ proposals' = [proposals EXCEPT ![p] = r]
        /\ keys' = keys \cup {p}
        /\ UNCHANGED <<claims, now, calls, inFlight, applied, boundary>>
    BY DEF Prepare, target
  <1>2. /\ r \in StoredProposal
        /\ r.status = "awaiting_authority"
        /\ r.status \notin MayHaveEffect
    BY PreparedType DEF MayHaveEffect
  <1> HIDE DEF r
  <1>3. TypeOK'
    BY <1>1, <1>2 DEF EffectInvariant, TypeOK
  <1>4. \A a \in OpenAttempts : a.proposal # p
    BY <1>1 DEF EffectInvariant, AttemptsAreKnown, OpenAttempts, Attempts
  <1> QED BY <1>1, <1>2, <1>3, <1>4, RowStep

\* _supersede_stale persists the replacement.
LEMMA PersistReplacementStep ==
    ASSUME EffectInvariant, NEW w \in Workers, NEW fresh \in Proposals,
           PersistReplacement(w, fresh)
    PROVE  EffectInvariant'
  <1> DEFINE p == calls[w].p
             r == calls[w].rec
             f == Prepared(calls[w].at)
             m == Move(r, "superseded")
             u == [m EXCEPT !.supersededBy = fresh]
             c == Write(p, r, u, "idle", 0)
  <1>1. /\ calls[w].pc = "replace"
        /\ ~Stored(fresh)
        /\ proposals' = [proposals EXCEPT ![fresh] = f]
        /\ keys' = keys \cup {fresh}
        /\ calls' = [calls EXCEPT ![w] = c]
        /\ UNCHANGED <<claims, now, inFlight, applied, boundary>>
    BY DEF PersistReplacement, Goto, target
  <1>2. /\ FaithfulCopy(p, r)
        /\ calls[w].at \in Nat
        /\ p \in Proposals
        /\ r \in StoredProposal
        /\ r.status = "stale"
    BY <1>1, CallIsFaithful DEF CallIsJustified
  <1>3. /\ f \in StoredProposal /\ f.status = "awaiting_authority"
        /\ f.status \notin MayHaveEffect
    BY <1>2, PreparedType DEF MayHaveEffect
  <1>4. /\ m \in StoredProposal
        /\ m.status = "superseded"
        /\ m.revision = r.revision + 1
    BY <1>2, MoveType DEF LifecycleStatus
  <1> HIDE DEF m, f
  <1>5. /\ u \in StoredProposal
        /\ u.status = "superseded"
        /\ u.revision = r.revision + 1
    BY <1>4 DEF StoredProposal
  <1> HIDE DEF u
  <1>6. c \in Call
    BY <1>2, <1>5, CallType DEF CallPc
  <1>7. c.pc = "cas" /\ c.p = p /\ c.rec = r /\ c.write = u /\ c.next = "idle"
    BY DEF Write
  <1> HIDE DEF c
  <1>8. /\ calls'[w] = c
        /\ \A v \in Workers : v # w => calls'[v] = calls[v]
    BY <1>1 DEF EffectInvariant, TypeOK
  <1>9. TypeOK'
    BY <1>1, <1>3, <1>6 DEF EffectInvariant, TypeOK
  <1>10. \A a \in OpenAttempts : a.proposal # fresh
    BY <1>1 DEF EffectInvariant, AttemptsAreKnown, OpenAttempts, Attempts
  <1>11. CopyIsFaithful(calls[w])'
    <2>1. p # fresh
      BY <1>1, <1>2 DEF FaithfulCopy
    <2>2. proposals'[p] = proposals[p]
      BY <1>1, <1>2, <2>1 DEF EffectInvariant, TypeOK
    <2> QED BY <1>2, <1>7, <1>8, <2>2 DEF CopyIsFaithful, FaithfulCopy, Stored
  <1>12. CallIsJustified(calls[w])'
    <2> HIDE DEF p, r
    <2> QED BY <1>2, <1>5, <1>7, <1>8
            DEF CallIsJustified, WriteIsJustified, MayHaveEffect
  <1> QED BY <1>1, <1>3, <1>7, <1>8, <1>9, <1>10, <1>11, <1>12, RowStep

\* Erasure writes keep the status and advance the revision.
LEMMA ErasureType ==
    ASSUME NEW r \in StoredProposal
    PROVE  /\ ProposalWithErasurePending(r) \in StoredProposal
           /\ ProposalWithErasurePending(r).status = r.status
           /\ ProposalWithErasurePending(r).revision = r.revision + 1
           /\ ErasedProposal(r) \in StoredProposal
           /\ ErasedProposal(r).status = r.status
           /\ ErasedProposal(r).revision = r.revision + 1
  <1>1. r.revision + 1 \in Nat /\ NoTime \in Int /\ <<>> \in Seq(ReceiptKind)
    BY DEF StoredProposal, NoTime
  <1>2. /\ ProposalWithErasurePending(r).status = r.status
        /\ ProposalWithErasurePending(r).revision = r.revision + 1
    BY DEF ProposalWithErasurePending, StoredProposal
  <1>3. ProposalWithErasurePending(r) \in StoredProposal
    BY <1>1 DEF ProposalWithErasurePending, StoredProposal
  <1>4. /\ ErasedProposal(r).status = r.status
        /\ ErasedProposal(r).revision = r.revision + 1
    BY DEF ErasedProposal, StoredProposal
  <1>5. ErasedProposal(r) \in StoredProposal
    BY <1>1 DEF ErasedProposal, StoredProposal
  <1> QED BY <1>2, <1>3, <1>4, <1>5

\* A row that keeps a status other than executing under the next revision.
LEMMA SameStatusStep ==
    ASSUME EffectInvariant, TypeOK', NEW p \in Proposals, Stored(p),
           NEW r \in StoredProposal,
           r.status = proposals[p].status, r.status # "executing",
           r.revision = proposals[p].revision + 1,
           proposals' = [proposals EXCEPT ![p] = r],
           UNCHANGED <<claims, inFlight, applied, boundary>>,
           \A v \in Workers :
              \/ calls'[v] = calls[v]
              \/ /\ calls'[v].pc \notin {"dispatch", "run", "await"}
                 /\ CopyIsFaithful(calls[v])'
                 /\ CallIsJustified(calls[v])'
    PROVE  EffectInvariant'
  <1>1. r.status # "absent"
    BY DEF Stored
  <1>2. \A a \in OpenAttempts : a.proposal = p => r.status \in MayHaveEffect
    BY DEF EffectInvariant, ClaimCoversOpenAttempt
  <1>3. r.status \in {"verified", "partially_succeeded"}
          => \E a \in applied : a.proposal = p
    BY DEF EffectInvariant, StatusTellsTheTruth
  <1> QED BY <1>1, <1>2, <1>3, RowStep

\* erase marks the row, or finds it marked.
LEMMA EraseStep ==
    ASSUME EffectInvariant, NEW w \in Workers, NEW p \in Proposals, Erase(w, p)
    PROVE  EffectInvariant'
  <1> DEFINE r == proposals[p]
             u == ProposalWithErasurePending(r)
  <1>1. Stored(p) /\ UNCHANGED <<claims, now, keys, inFlight, applied, boundary>>
    BY DEF Erase, target
  <1>2. FaithfulCopy(p, r) /\ r \in StoredProposal
    BY <1>1, RowIsFaithful DEF FaithfulCopy
  <1>3. /\ u \in StoredProposal
        /\ u.status = r.status
        /\ u.revision = r.revision + 1
    BY <1>2, ErasureType
  <1>4. CASE MayMarkErasure(p, r) /\ proposals' = [proposals EXCEPT ![p] = u]
             /\ Goto(w, Suspend("destroy", p, proposals'[p], 0))
    <2>1. proposals'[p] = u
      BY <1>4 DEF EffectInvariant, TypeOK
    <2> DEFINE c == Suspend("destroy", p, u, 0)
    <2>2. c \in Call
      BY <1>3, CallType DEF CallPc
    <2>3. c.pc = "destroy" /\ c.p = p /\ c.rec = u
      BY DEF Suspend
    <2>4. calls' = [calls EXCEPT ![w] = c]
      BY <1>4, <2>1 DEF Goto
    <2> HIDE DEF c, u
    <2>5. /\ calls'[w] = c
          /\ \A v \in Workers : v # w => calls'[v] = calls[v]
      BY <2>4 DEF EffectInvariant, TypeOK
    <2>6. TypeOK'
      BY <1>1, <1>3, <1>4, <2>2, <2>4 DEF EffectInvariant, TypeOK
    <2>7. r.status # "executing"
      BY <1>4 DEF MayMarkErasure, Erasable
    <2>8. CopyIsFaithful(calls[w])'
      BY <1>1, <1>3, <2>1, <2>3, <2>5 DEF CopyIsFaithful, Stored, StoredProposal
    <2>9. CallIsJustified(calls[w])'
      BY <2>3, <2>5 DEF CallIsJustified
    <2>10. \A v \in Workers :
              \/ calls'[v] = calls[v]
              \/ /\ calls'[v].pc \notin {"dispatch", "run", "await"}
                 /\ CopyIsFaithful(calls[v])'
                 /\ CallIsJustified(calls[v])'
      BY <2>3, <2>5, <2>8, <2>9
    <2> QED BY <1>1, <1>3, <1>4, <2>6, <2>7, <2>10, SameStatusStep
  <1>5. CASE Goto(w, Suspend("destroy", p, r, 0)) /\ UNCHANGED proposals
    <2> DEFINE c == Suspend("destroy", p, r, 0)
    <2>1. c \in Call
      BY <1>2, CallType DEF CallPc
    <2>2. c.pc = "destroy" /\ c.p = p /\ c.rec = r
      BY DEF Suspend
    <2>3. Goto(w, c)
      BY <1>5
    <2> HIDE DEF c
    <2>4. calls'[w] = c
      BY <2>3 DEF Goto, EffectInvariant, TypeOK
    <2>5. CopyIsFaithful(c)
      BY <1>2, <2>2 DEF CopyIsFaithful, FaithfulCopy
    <2>6. CallIsJustified(calls[w])'
      BY <2>2, <2>4 DEF CallIsJustified
    <2>7. UNCHANGED <<store, keys, target>>
      BY <1>1, <1>5 DEF store, target
    <2> QED BY <2>1, <2>2, <2>3, <2>5, <2>6, <2>7, LocalStep
  <1> QED BY <1>4, <1>5 DEF Erase

\* The codec destroys the keys.
LEMMA DestroyKeysStep ==
    ASSUME EffectInvariant, NEW w \in Workers, DestroyKeys(w)
    PROVE  EffectInvariant'
  <1> DEFINE c == [calls[w] EXCEPT !.pc = "tombstone"]
  <1>1. /\ calls[w].pc = "destroy"
        /\ keys' = keys \ {calls[w].p}
        /\ calls' = [calls EXCEPT ![w] = c]
        /\ UNCHANGED <<proposals, claims, now, inFlight, applied, boundary>>
    BY DEF DestroyKeys, Goto, store, target
  <1>2. calls[w] \in Call /\ CopyIsFaithful(calls[w])
    BY AttemptsTyped DEF EffectInvariant, CopiesAreFaithful
  <1>3. /\ c \in Call
        /\ c.pc = "tombstone" /\ c.p = calls[w].p /\ c.rec = calls[w].rec
    BY <1>2 DEF Call, CallPc
  <1> HIDE DEF c
  <1>4. /\ calls'[w] = c
        /\ \A v \in Workers : v # w => calls'[v] = calls[v]
    BY <1>1 DEF EffectInvariant, TypeOK
  <1>5. TypeOK'
    BY <1>1, <1>3 DEF EffectInvariant, TypeOK
  <1>6. HeldAttempts' \subseteq HeldAttempts
    BY <1>3, <1>4 DEF HeldAttempts
  <1>7. Attempts' \subseteq Attempts
    BY <1>1, <1>6 DEF Attempts
  <1>8. AttemptsAreExclusive'
    <2>1. (\A v, x \in Workers :
            /\ v # x
            /\ {calls[v].pc, calls[x].pc} \subseteq {"dispatch", "run", "await"}
            => \/ calls[v].p # calls[x].p
               \/ calls[v].rec.revision # calls[x].rec.revision)'
      BY <1>3, <1>4 DEF EffectInvariant, AttemptsAreExclusive
    <2> QED BY <1>1, <1>6, <2>1 DEF EffectInvariant, AttemptsAreExclusive
  <1>9. CopyIsFaithful(calls'[w])
    BY <1>1, <1>2, <1>3, <1>4 DEF CopyIsFaithful
  <1>10. CallIsJustified(calls[w])'
    BY <1>3, <1>4 DEF CallIsJustified
  <1>11. /\ \A q \in Proposals : boundary[q] <= boundary'[q]
         /\ \A b \in applied' : b.token > boundary'[b.proposal]
    BY <1>1, AttemptsTyped DEF EffectInvariant, AttemptsAreKnown
  <1> QED BY <1>1, <1>4, <1>5, <1>7, <1>8, <1>9, <1>10, <1>11, QuietStep

\* The row becomes a tombstone.
LEMMA CompleteErasureStep ==
    ASSUME EffectInvariant, NEW w \in Workers, CompleteErasure(w)
    PROVE  EffectInvariant'
  <1> DEFINE p == calls[w].p
             r == proposals[p]
             u == ErasedProposal(r)
  <1>1. /\ calls[w].pc = "tombstone"
        /\ Return(w)
        /\ UNCHANGED <<claims, now, keys, inFlight, applied, boundary>>
    BY DEF CompleteErasure, target
  <1>2. p \in Proposals /\ r \in StoredProposal
    BY <1>1, CallIsFaithful, AttemptsTyped
  <1>3. CASE proposals' = proposals
    BY <1>1, <1>3, ReturnStep DEF store, target
  <1>4. CASE proposals' = [proposals EXCEPT ![p] = u]
             /\ MayCompleteErasure(p, calls[w].rec)
    <2>1. /\ u \in StoredProposal
          /\ u.status = r.status
          /\ u.revision = r.revision + 1
      BY <1>2, ErasureType
    <2>2. Stored(p)
      BY <1>4 DEF MayCompleteErasure
    <2>3. NoCall \in Call /\ NoCall.pc = "idle"
      BY AbsentType DEF NoCall, Suspend, Call, CallPc
    <2>4. /\ calls'[w] = NoCall
          /\ calls' = [calls EXCEPT ![w] = NoCall]
          /\ \A v \in Workers : v # w => calls'[v] = calls[v]
      BY <1>1 DEF Return, Goto, EffectInvariant, TypeOK
    <2> HIDE DEF u
    <2>5. TypeOK'
      BY <1>1, <1>2, <1>4, <2>1, <2>3, <2>4 DEF EffectInvariant, TypeOK
    <2>6. \A v \in Workers :
              \/ calls'[v] = calls[v]
              \/ /\ calls'[v].pc \notin {"dispatch", "run", "await"}
                 /\ CopyIsFaithful(calls[v])'
                 /\ CallIsJustified(calls[v])'
      BY <2>3, <2>4 DEF CopyIsFaithful, CallIsJustified
    <2>7. r.status # "executing"
      BY <1>2, <1>4 DEF MayCompleteErasure, EffectInvariant, ExecutingIsKept
    <2> HIDE DEF p
    <2> QED BY <1>1, <1>2, <1>4, <2>1, <2>2, <2>5, <2>6, <2>7, SameStatusStep
  <1> QED BY <1>3, <1>4 DEF CompleteErasure

\* A row that enters executing is not being erased.
LEMMA ExecutingKeepsErasure ==
    ASSUME NEW r \in StoredProposal, NEW at
    PROVE  Executing(r, at).erasure = r.erasure
  <1>1. Move(r, "executing").erasure = r.erasure
        /\ DOMAIN Move(r, "executing") = DOMAIN r
    BY DEF Move, StoredProposal
  <1>2. /\ MoveWith(r, "executing", "started").erasure = r.erasure
        /\ DOMAIN MoveWith(r, "executing", "started") = DOMAIN r
    <2> DEFINE m == Move(r, "executing")
    <2>1. MoveWith(r, "executing", "started")
            = [m EXCEPT !.receipts = Append(m.receipts, "started")]
      BY DEF MoveWith
    <2>2. m \in StoredProposal
      BY MoveType DEF LifecycleStatus
    <2> HIDE DEF m
    <2>3. /\ [m EXCEPT !.receipts = Append(m.receipts, "started")].erasure
               = m.erasure
          /\ DOMAIN [m EXCEPT !.receipts = Append(m.receipts, "started")]
               = DOMAIN m
      BY <2>2 DEF StoredProposal
    <2> QED BY <1>1, <2>1, <2>3 DEF m
  <1> DEFINE m == MoveWith(r, "executing", "started")
  <1>3. Executing(r, at) = [m EXCEPT !.nextAt = at + Lease]
    BY DEF Executing
  <1>4. m \in StoredProposal
    BY MoveWithType DEF LifecycleStatus, ReceiptKind
  <1> HIDE DEF m
  <1>5. [m EXCEPT !.nextAt = at + Lease].erasure = m.erasure
    BY <1>4 DEF StoredProposal
  <1> QED BY <1>2, <1>3, <1>5 DEF m

\* admit_execution.  No attempt is open on the proposal, which is authorized,
\* nor on any other proposal for its effect: the claim would be that
\* proposal's and not released.  The new attempt has a revision nobody knew.
LEMMA AdmitStep ==
    ASSUME EffectInvariant, NEW w \in Workers, Admit(w)
    PROVE  EffectInvariant'
  <1> DEFINE p == calls[w].p
             r == calls[w].rec
             u == Executing(r, calls[w].at)
             n == [calls[w] EXCEPT !.pc = "dispatch", !.rec = u]
             new == Attempt(p, r.revision + 1)
             Accepted == /\ Admissible(p, r, calls[w].at, u)
                         /\ Claimable(p)
                         /\ proposals' = [proposals EXCEPT ![p] = u]
                         /\ claims' = [claims EXCEPT ![EffectOf[p]] = p]
                         /\ calls' = [calls EXCEPT ![w] = n]
  <1>1. /\ calls[w].pc = "admit"
        /\ UNCHANGED <<now, keys, inFlight, applied, boundary>>
        /\ \/ Accepted
           \/ Return(w) /\ UNCHANGED <<proposals, claims>>
    <2>1. \/ /\ Admissible(p, r, calls[w].at, u)
             /\ Claimable(p)
             /\ proposals' = [proposals EXCEPT ![p] = u]
             /\ claims' = [claims EXCEPT ![EffectOf[p]] = p]
             /\ Goto(w, n)
          \/ Return(w) /\ UNCHANGED <<proposals, claims>>
      BY DEF Admit
    <2>2. Goto(w, n) => calls' = [calls EXCEPT ![w] = n]
      BY DEF Goto
    <2>3. calls[w].pc = "admit" /\ UNCHANGED <<now, keys, inFlight, applied, boundary>>
      BY DEF Admit, target
    <2> HIDE DEF p, r, u, n
    <2> QED BY <2>1, <2>2, <2>3
  <1>2. CASE Return(w) /\ UNCHANGED <<proposals, claims>>
    BY <1>1, <1>2, ReturnStep DEF store, target
  <1>3. CASE Accepted
    <2>1. /\ FaithfulCopy(p, r)
          /\ calls[w].at \in Nat
          /\ p \in Proposals
          /\ r \in StoredProposal
          /\ r.revision \in Nat
      BY <1>1, CallIsFaithful, AttemptsTyped
    <2>2. /\ proposals[p] = r
          /\ r.status = "authorized"
          /\ r.erasure = "none"
      BY <1>3, <2>1 DEF Admissible, FaithfulCopy
    <2>3. /\ u \in StoredProposal
          /\ u.status = "executing"
          /\ u.revision = r.revision + 1
          /\ u.erasure = "none"
      BY <2>1, <2>2, ExecutingType, ExecutingKeepsErasure
    <2>4. /\ n \in Call
          /\ n.pc = "dispatch" /\ n.p = p /\ n.rec = u
      <3>1. calls[w] \in Call
        BY AttemptsTyped
      <3> QED BY <2>3, <3>1 DEF Call, CallPc
    <2> HIDE DEF u, n
    <2>5. /\ proposals'[p] = u
          /\ \A q \in Proposals : q # p => proposals'[q] = proposals[q]
          /\ calls'[w] = n
          /\ \A v \in Workers : v # w => calls'[v] = calls[v]
      BY <1>3, <2>1 DEF EffectInvariant, TypeOK
    <2>6. /\ EffectOf \in [Proposals -> Effects]
          /\ NoProposal \notin Proposals
      BY StoreAssumption
    <2>7. /\ claims'[EffectOf[p]] = p
          /\ \A e \in Effects : e # EffectOf[p] => claims'[e] = claims[e]
      BY <1>3, <2>1, <2>6 DEF EffectInvariant, TypeOK
    <2>8. /\ \A a \in Attempts : a.proposal \in Proposals /\ a.token \in Nat
          /\ \A q \in Proposals :
                boundary[q] \in Nat /\ proposals[q].revision \in Nat
          /\ \A v \in Workers : calls[v].rec.revision \in Nat
      BY AttemptsTyped
    <2>9. TypeOK'
      BY <1>1, <1>3, <2>1, <2>3, <2>4, <2>6 DEF EffectInvariant, TypeOK
    <2>10. ASSUME NEW a \in OpenAttempts
           PROVE  /\ a.proposal # p
                  /\ EffectOf[a.proposal] # EffectOf[p]
                  /\ a.proposal \in Proposals
      <3>1. /\ proposals[a.proposal].status \in MayHaveEffect
            /\ claims[EffectOf[a.proposal]] = a.proposal
        BY DEF EffectInvariant, ClaimCoversOpenAttempt
      <3>2. a.proposal \in Proposals
        BY <2>8 DEF OpenAttempts, Attempts
      <3>3. a.proposal # p
        BY <2>2, <3>1 DEF MayHaveEffect
      <3>4. Claimable(p)
        BY <1>3
      <3> QED BY <2>6, <3>1, <3>2, <3>3, <3>4
              DEF Claimable, ReleasesClaim, MayHaveEffect
    <2>11. new \notin Attempts
      <3>1. \A a \in Attempts : a.proposal = p => a.token <= r.revision
        BY <2>2 DEF EffectInvariant, AttemptsAreKnown
      <3>2. new.proposal = p /\ new.token = r.revision + 1
        BY DEF Attempt
      <3> HIDE DEF new
      <3> QED BY <2>1, <3>1, <3>2
    <2>12. HeldAttempts' \subseteq HeldAttempts \cup {new}
      BY <2>3, <2>4, <2>5 DEF HeldAttempts
    <2>13. Attempts' \subseteq Attempts \cup {new}
      BY <1>1, <2>12 DEF Attempts
    <2>14. OpenAttempts' \subseteq OpenAttempts \cup {new}
      BY <1>1, <2>13 DEF OpenAttempts, Attempts
    <2>15. new.proposal = p /\ new.token = r.revision + 1
      BY DEF Attempt
    <2>16. \A v \in Workers :
             v # w /\ calls[v].pc # "idle" /\ calls[v].p = p
               => calls[v].rec.revision <= r.revision
      BY <2>2 DEF EffectInvariant, CopiesAreFaithful, CopyIsFaithful
    <2>17. CopiesAreFaithful'
      <3> SUFFICES ASSUME NEW v \in Workers PROVE CopyIsFaithful(calls[v])'
        BY DEF CopiesAreFaithful
      <3>1. CASE v = w
        BY <2>1, <2>3, <2>4, <2>5, <3>1 DEF CopyIsFaithful, Stored
      <3>2. CASE v # w
        <4>1. CopyIsFaithful(calls[v]) /\ calls'[v] = calls[v]
          BY <2>5, <3>2 DEF EffectInvariant, CopiesAreFaithful
        <4>2. CASE calls[v].p = p
          <5> HIDE DEF p, r
          <5> QED BY <2>1, <2>3, <2>5, <2>8, <2>16, <3>2, <4>1, <4>2
                  DEF CopyIsFaithful, Stored
        <4>3. CASE calls[v].p # p
          BY <2>5, <4>1, <4>3 DEF CopyIsFaithful, Stored
        <4> QED BY <4>2, <4>3
      <3> QED BY <3>1, <3>2
    <2>18. CallsAreJustified'
      <3> SUFFICES ASSUME NEW v \in Workers PROVE CallIsJustified(calls[v])'
        BY DEF CallsAreJustified
      <3>1. CASE v = w
        BY <2>3, <2>4, <2>5, <3>1 DEF CallIsJustified
      <3>2. CASE v # w
        <4>1. CallIsJustified(calls[v]) /\ calls'[v] = calls[v]
          BY <2>5, <3>2 DEF EffectInvariant, CallsAreJustified
        <4>2. calls[v].pc = "cas" => Attempt(calls[v].p, calls[v].rec.revision) # new
          BY <2>1, <2>8, <2>16, <3>2 DEF Attempt
        <4> HIDE DEF new
        <4>3. calls[v].pc = "cas"
              /\ Attempt(calls[v].p, calls[v].rec.revision) \notin Attempts
              => Attempt(calls[v].p, calls[v].rec.revision) \notin Attempts'
          BY <2>13, <4>2
        <4>4. calls[v].pc = "cas" /\ NothingOpen(calls[v].p, calls[v].rec.revision)
              => NothingOpen(calls[v].p, calls[v].rec.revision)'
          <5> HIDE DEF p, r
          <5>1. ASSUME calls[v].pc = "cas", NEW a \in Attempts',
                       a.proposal = calls[v].p, a.token <= calls[v].rec.revision
                PROVE  a \in Attempts
            BY <2>1, <2>8, <2>13, <2>15, <2>16, <3>2, <5>1
          <5> QED BY <1>1, <4>1, <5>1 DEF NothingOpen
        <4> QED BY <1>1, <4>1, <4>3, <4>4 DEF CallIsJustified, WriteIsJustified
      <3> QED BY <3>1, <3>2
    <2>19. AttemptsAreKnown'
      <3>1. ASSUME NEW a \in Attempts'
            PROVE  /\ a.proposal \in Proposals
                   /\ Stored(a.proposal)'
                   /\ a.token <= proposals'[a.proposal].revision
                   /\ /\ proposals'[a.proposal].status = "executing"
                      /\ a.token > boundary'[a.proposal]
                      => a.token = proposals'[a.proposal].revision
        <4>1. CASE a = new
          <5> HIDE DEF new
          <5> QED BY <2>1, <2>3, <2>5, <2>15, <4>1 DEF Stored
        <4>2. CASE a \in Attempts
          <5>1. /\ a.proposal \in Proposals
                /\ Stored(a.proposal)
                /\ a.token <= proposals[a.proposal].revision
                /\ /\ proposals[a.proposal].status = "executing"
                   /\ a.token > boundary[a.proposal]
                   => a.token = proposals[a.proposal].revision
            BY <4>2 DEF EffectInvariant, AttemptsAreKnown
          <5>2. CASE a.proposal # p
            BY <1>1, <2>5, <5>1, <5>2 DEF Stored
          <5>3. CASE a.proposal = p
            <6>1. ~(a.token > boundary[a.proposal])
              BY <2>10, <4>2, <5>3 DEF OpenAttempts, Attempts
            <6>2. a.token <= r.revision /\ a.token \in Nat
              BY <2>2, <2>8, <4>2, <5>1, <5>3
            <6> HIDE DEF p, r
            <6> QED BY <1>1, <2>1, <2>3, <2>5, <5>3, <6>1, <6>2 DEF Stored
          <5> QED BY <5>2, <5>3
        <4> QED BY <2>13, <4>1, <4>2
      <3> QED BY <1>1, <3>1 DEF EffectInvariant, AttemptsAreKnown
    <2>20. AttemptsAreExclusive'
      <3>1. ASSUME NEW v \in Workers, NEW x \in Workers, v # x,
                   {calls'[v].pc, calls'[x].pc}
                     \subseteq {"dispatch", "run", "await"}
            PROVE  \/ calls'[v].p # calls'[x].p
                   \/ calls'[v].rec.revision # calls'[x].rec.revision
        <4>1. CASE v = w
          BY <2>1, <2>3, <2>4, <2>5, <2>8, <2>16, <3>1, <4>1
        <4>2. CASE x = w
          BY <2>1, <2>3, <2>4, <2>5, <2>8, <2>16, <3>1, <4>2
        <4>3. CASE v # w /\ x # w
          BY <2>5, <3>1, <4>3 DEF EffectInvariant, AttemptsAreExclusive
        <4> QED BY <4>1, <4>2, <4>3
      <3>2. HeldAttempts' \cap (inFlight' \cup applied') = {}
        <4> HIDE DEF new
        <4> QED BY <1>1, <2>11, <2>12
                DEF EffectInvariant, AttemptsAreExclusive, Attempts
      <3>3. inFlight' \cap applied' = {}
        BY <1>1 DEF EffectInvariant, AttemptsAreExclusive
      <3> QED BY <3>1, <3>2, <3>3 DEF AttemptsAreExclusive
    <2>21. ClaimCoversOpenAttempt'
      <3> SUFFICES ASSUME NEW a \in OpenAttempts'
                   PROVE  /\ proposals'[a.proposal].status \in MayHaveEffect
                          /\ claims'[EffectOf[a.proposal]] = a.proposal
                          /\ \A b \in OpenAttempts' :
                               b.proposal = a.proposal => b = a
        BY DEF ClaimCoversOpenAttempt
      <3>0. a \in OpenAttempts \/ a = new
        BY <2>14
      <3> HIDE DEF new
      <3>1. CASE a = new
        BY <2>3, <2>5, <2>7, <2>10, <2>14, <2>15, <3>1 DEF MayHaveEffect
      <3>2. CASE a \in OpenAttempts
        <4>1. /\ a.proposal # p
              /\ EffectOf[a.proposal] # EffectOf[p]
              /\ a.proposal \in Proposals
          BY <2>10, <3>2
        <4>2. EffectOf[a.proposal] \in Effects
          BY <2>6, <4>1
        <4>3. /\ proposals[a.proposal].status \in MayHaveEffect
              /\ claims[EffectOf[a.proposal]] = a.proposal
              /\ \A b \in OpenAttempts : b.proposal = a.proposal => b = a
          BY <3>2 DEF EffectInvariant, ClaimCoversOpenAttempt
        <4> QED BY <2>5, <2>7, <2>14, <2>15, <4>1, <4>2, <4>3
      <3> QED BY <3>0, <3>1, <3>2
    <2>22. StatusTellsTheTruth'
      <3>1. applied' \subseteq OpenAttempts'
        BY <2>19 DEF OpenAttempts, AttemptsAreKnown
      <3>2. ASSUME NEW q \in Proposals,
                   proposals'[q].status \in {"verified", "partially_succeeded"}
            PROVE  \E a \in applied' : a.proposal = q
        BY <1>1, <2>3, <2>5, <3>2 DEF EffectInvariant, StatusTellsTheTruth
      <3> QED BY <2>21, <3>1, <3>2 DEF ClaimCoversOpenAttempt, StatusTellsTheTruth
    <2>23. ExecutingIsKept'
      BY <2>3, <2>5 DEF EffectInvariant, ExecutingIsKept
    <2>24. ClaimIsHeld'
      <3> SUFFICES ASSUME NEW q \in Proposals, q # p,
                          proposals[q].status \in MayHaveEffect
                   PROVE  claims'[EffectOf[q]] = q
        BY <2>5, <2>7 DEF ClaimIsHeld
      <3>1. claims[EffectOf[q]] = q
        BY DEF EffectInvariant, ClaimIsHeld
      <3>2. EffectOf[q] # EffectOf[p]
        BY <1>3, <2>6, <3>1 DEF Claimable, ReleasesClaim, MayHaveEffect
      <3> QED BY <2>6, <2>7, <3>1, <3>2
    <2> QED BY <2>9, <2>17, <2>18, <2>19, <2>20, <2>21, <2>22, <2>23, <2>24
            DEF EffectInvariant
  <1> QED BY <1>1, <1>2, <1>3

-----------------------------------------------------------------------------
(* The invariant holds. *)

\* Nothing is stored, claimed or attempted at first.
LEMMA InitiallyEffect == Init => EffectInvariant
  <1> SUFFICES ASSUME Init PROVE EffectInvariant
    OBVIOUS
  <1> USE DEF Init
  <1>1. NoCall \in Call /\ NoCall.pc = "idle"
    BY AbsentType DEF NoCall, Suspend, Call, CallPc
  <1>2. AbsentProposal \in StoredProposal /\ AbsentProposal.status = "absent"
    BY AbsentType DEF AbsentProposal
  <1>3. TypeOK
    BY <1>1, <1>2 DEF TypeOK
  <1>4. \A w \in Workers : calls[w].pc = "idle"
    BY <1>1
  <1>5. \A p \in Proposals : proposals[p].status = "absent"
    BY <1>2
  <1>6. HeldAttempts = {}
    BY <1>4 DEF HeldAttempts
  <1>7. Attempts = {} /\ OpenAttempts = {}
    BY <1>6 DEF Attempts, OpenAttempts
  <1>8. CopiesAreFaithful /\ CallsAreJustified
    BY <1>4 DEF CopiesAreFaithful, CopyIsFaithful, CallsAreJustified,
                CallIsJustified
  <1>9. AttemptsAreKnown
    BY <1>7 DEF AttemptsAreKnown
  <1>10. AttemptsAreExclusive
    BY <1>4, <1>6 DEF AttemptsAreExclusive
  <1>11. ClaimCoversOpenAttempt
    BY <1>7 DEF ClaimCoversOpenAttempt
  <1>12. StatusTellsTheTruth
    BY <1>5 DEF StatusTellsTheTruth
  <1>13. ExecutingIsKept /\ ClaimIsHeld
    BY <1>5 DEF ExecutingIsKept, ClaimIsHeld, MayHaveEffect
  <1> QED BY <1>3, <1>8, <1>9, <1>10, <1>11, <1>12, <1>13 DEF EffectInvariant

\* A cancelled or lost call takes nothing with it but its own state.
LEMMA AbandonStep ==
    ASSUME EffectInvariant, NEW w \in Workers, Abandon(w)
    PROVE  EffectInvariant'
  BY ReturnStep DEF Abandon

\* Every step preserves the invariant.
LEMMA EffectInvariantStep ==
    ASSUME EffectInvariant, [Next]_vars
    PROVE  EffectInvariant'
  <1>1. CASE UNCHANGED vars
    <2>1. /\ UNCHANGED <<proposals, claims, calls, target>>
          /\ UNCHANGED <<now, keys, inFlight, applied, boundary>>
      BY <1>1 DEF vars, store, target
    <2>2. TypeOK'
      BY <2>1 DEF EffectInvariant, TypeOK
    <2> QED BY <2>1, <2>2, IdleStep
  <1>2. ASSUME NEW p \in Proposals, NEW at \in 0..now, Prepare(p, at)
        PROVE  EffectInvariant'
    <2>1. at \in Nat
      BY DEF EffectInvariant, TypeOK
    <2> QED BY <1>2, <2>1, PrepareStep
  <1>3. ASSUME NEW w \in Workers, NEW p \in Proposals,
               \/ \E e \in Evidence : RecordAuthority(w, p, e)
               \/ ExpireDue(w, p)
               \/ Execute(w, p)
               \/ PersistReplacement(w, p)
               \/ Reconcile(w, p)
               \/ ResumeVerification(w, p)
               \/ Erase(w, p)
        PROVE  EffectInvariant'
    BY <1>3, RecordAuthorityStep, ExpireDueStep, ExecuteStep,
       PersistReplacementStep, ReconcileStep, ResumeVerificationStep, EraseStep
  <1>4. ASSUME NEW w \in Workers,
               \/ Cas(w)
               \/ Abandon(w)
               \/ Resolve(w)
               \/ Recheck(w)
               \/ Precheck(w)
               \/ Admit(w)
               \/ Dispatch(w)
               \/ Submit(w)
               \/ ReconcileDue(w)
               \/ DestroyKeys(w)
               \/ CompleteErasure(w)
        PROVE  EffectInvariant'
    BY <1>4, CasStep, AbandonStep, ResolveStep, RecheckStep, PrecheckStep,
       AdmitStep, DispatchStep, SubmitStep, ReconcileDueStep, DestroyKeysStep,
       CompleteErasureStep
  <1>5. ASSUME NEW w \in Workers, NEW reply \in ExecutionReply,
               ExecutorReturns(w, reply)
        PROVE  EffectInvariant'
    BY <1>5, ExecutorReturnsStep
  <1>6. ASSUME NEW w \in Workers, NEW result \in VerificationReport,
               NEW items \in {"none", "succeeded", "partial"},
               NEW idempotent \in BOOLEAN,
               Verify(w, result, items, idempotent)
        PROVE  EffectInvariant'
    BY <1>6, VerifyStep
  <1>7. ASSUME NEW a \in inFlight, TargetApplies(a) \/ TargetRefuses(a)
        PROVE  EffectInvariant'
    BY <1>7, TargetStep
  <1>8. CASE Tick
    BY <1>8, TickStep
  <1> QED BY <1>1, <1>2, <1>3, <1>4, <1>5, <1>6, <1>7, <1>8 DEF Next

\* EffectInvariant is an invariant of the runtime: copies with the current
\* revision are the row, pending writes are justified, attempts are exclusive
\* and covered by their claim, and statuses tell the truth.
THEOREM EffectInvariantHolds == Spec => []EffectInvariant
  BY InitiallyEffect, EffectInvariantStep, PTL DEF Spec

\* Every variable keeps its type, for any sets of proposals, effects, evidence
\* and workers.
THEOREM TypeCorrect == Spec => []TypeOK
  <1>1. EffectInvariant => TypeOK
    BY DEF EffectInvariant
  <1> QED BY <1>1, EffectInvariantHolds, PTL

\* Applied attempts are open, and one claim covers all open attempts on an
\* effect, so there is only one.
LEMMA AppliedOnce == EffectInvariant => EffectAtMostOnce
  <1> SUFFICES ASSUME EffectInvariant, NEW a \in applied, NEW b \in applied,
                      EffectOf[a.proposal] = EffectOf[b.proposal]
               PROVE  a = b
    BY DEF EffectAtMostOnce
  <1>1. a \in OpenAttempts /\ b \in OpenAttempts
    BY DEF EffectInvariant, AttemptsAreKnown, OpenAttempts
  <1> QED BY <1>1 DEF EffectInvariant, ClaimCoversOpenAttempt

\* A business effect happens at most once, whatever proposals, workers,
\* takeovers and resends there are.
THEOREM EffectOnce == Spec => []EffectAtMostOnce
  BY EffectInvariantHolds, AppliedOnce, PTL

\* A proposal with an attempt that may have an effect says so and holds the
\* effect claim.
THEOREM ClaimCovers == Spec => []ClaimCoversOpenAttempt
  <1>1. EffectInvariant => ClaimCoversOpenAttempt
    BY DEF EffectInvariant
  <1> QED BY <1>1, EffectInvariantHolds, PTL

\* A status that denies an effect, and one that reports it, are true.
THEOREM StatusTruthful == Spec => []StatusTellsTheTruth
  <1>1. EffectInvariant => StatusTellsTheTruth
    BY DEF EffectInvariant
  <1> QED BY <1>1, EffectInvariantHolds, PTL

-----------------------------------------------------------------------------
(* The runtime implements EffectAdmission: each step of ActionRuntime is a   *)
(* step of EffectAdmission or leaves owner, verdicts and effects as they are.*)

\* Some step of EffectAdmission, or none.
Simulated ==
    [Admission!Next]_<<claims,
                       [p \in Proposals |-> Verdict(proposals[p].status)],
                       {EffectOf[a.proposal] : a \in applied}>>

\* A step that changes no claim, verdict or effect is a stuttering step.
LEMMA Stutter ==
    ASSUME UNCHANGED <<claims, applied>>,
           \A p \in Proposals :
              Verdict(proposals'[p].status) = Verdict(proposals[p].status)
    PROVE  Simulated
  <1>1. [p \in Proposals |-> Verdict(proposals[p].status)]'
          = [p \in Proposals |-> Verdict(proposals[p].status)]
    BY DEF Verdict, MayHaveEffect
  <1>2. {EffectOf[a.proposal] : a \in applied}'
          = {EffectOf[a.proposal] : a \in applied}
    OBVIOUS
  <1> QED BY <1>1, <1>2 DEF Simulated

\* So is a step that leaves the rows alone.
LEMMA QuietStutter ==
    ASSUME UNCHANGED <<proposals, claims, applied>>
    PROVE  Simulated
  BY Stutter DEF Verdict

\* What is known of an effect that happened: its owner caused it, and the
\* owner does not deny it.
LEMMA HappenedByOwner ==
    ASSUME EffectInvariant, NEW b \in applied
    PROVE  /\ b \in OpenAttempts
           /\ b.proposal \in Proposals
           /\ claims[EffectOf[b.proposal]] = b.proposal
           /\ proposals[b.proposal].status \in MayHaveEffect
           /\ \A a \in OpenAttempts :
                EffectOf[a.proposal] = EffectOf[b.proposal] => a = b
  <1>1. b \in OpenAttempts /\ b.proposal \in Proposals
    BY DEF EffectInvariant, AttemptsAreKnown, OpenAttempts, Attempts
  <1> QED BY <1>1 DEF EffectInvariant, ClaimCoversOpenAttempt

\* admit_execution admits the proposal to its effect.
LEMMA AdmitSimulates ==
    ASSUME EffectInvariant, NEW w \in Workers, Admit(w)
    PROVE  Simulated
  <1> DEFINE p == calls[w].p
             r == calls[w].rec
             u == Executing(r, calls[w].at)
             e == EffectOf[p]
             verdict == [q \in Proposals |-> Verdict(proposals[q].status)]
             happened == {EffectOf[a.proposal] : a \in applied}
  <1>1. /\ calls[w].pc = "admit"
        /\ UNCHANGED <<inFlight, applied, boundary>>
        /\ \/ /\ Admissible(p, r, calls[w].at, u)
              /\ Claimable(p)
              /\ proposals' = [proposals EXCEPT ![p] = u]
              /\ claims' = [claims EXCEPT ![e] = p]
           \/ UNCHANGED <<proposals, claims>>
    BY DEF Admit, target
  <1>2. CASE UNCHANGED <<proposals, claims>>
    BY <1>1, <1>2, QuietStutter
  <1>3. CASE /\ Admissible(p, r, calls[w].at, u)
             /\ Claimable(p)
             /\ proposals' = [proposals EXCEPT ![p] = u]
             /\ claims' = [claims EXCEPT ![e] = p]
    <2>1. /\ FaithfulCopy(p, r)
          /\ calls[w].at \in Nat
          /\ p \in Proposals
          /\ r \in StoredProposal
      BY <1>1, CallIsFaithful
    <2>2. proposals[p].status = "authorized"
      BY <1>3 DEF Admissible
    <2>3. u.status = "executing"
      BY <2>1, ExecutingType
    <2> HIDE DEF u
    <2>4. proposals'[p] = u /\ \A q \in Proposals : q # p => proposals'[q] = proposals[q]
      BY <1>3, <2>1 DEF EffectInvariant, TypeOK
    <2>5. verdict[p] = "none"
      BY <2>1, <2>2 DEF Verdict, MayHaveEffect
    <2>6. claims[e] \in Proposals => verdict[claims[e]] = "none"
      <3>1. \/ claims[e] \in {NoProposal, p}
            \/ proposals[claims[e]].status \in {"failed_known", "stale"}
        BY <1>3 DEF Claimable, ReleasesClaim
      <3> QED BY <2>5, <3>1, StoreAssumption DEF Verdict, MayHaveEffect
    <2>7. e \notin happened
      <3> SUFFICES ASSUME NEW b \in applied, EffectOf[b.proposal] = e
                   PROVE  FALSE
        OBVIOUS
      <3>1. /\ claims[e] = b.proposal
            /\ b.proposal \in Proposals
            /\ proposals[b.proposal].status \in MayHaveEffect
        BY HappenedByOwner
      <3> QED BY <2>6, <3>1 DEF Verdict
    <2>8. [q \in Proposals |-> Verdict(proposals[q].status)]'
            = [verdict EXCEPT ![p] = "open"]
      <3>1. Verdict(proposals'[p].status) = "open"
        BY <2>3, <2>4 DEF Verdict, MayHaveEffect
      <3>2. \A q \in Proposals : q # p =>
              Verdict(proposals'[q].status) = Verdict(proposals[q].status)
        BY <2>4 DEF Verdict, MayHaveEffect
      <3> QED BY <2>1, <3>1, <3>2
    <2>9. {EffectOf[a.proposal] : a \in applied}' = happened
      BY <1>1
    <2>10. Admission!Admit(p)
      BY <1>3, <2>5, <2>6, <2>7, <2>8, <2>9 DEF Admission!Admit
    <2> QED BY <2>1, <2>10 DEF Simulated, Admission!Next
  <1> QED BY <1>1, <1>2, <1>3

\* A successful compare-and-set confirms the effect, rules it out, or leaves
\* the verdict open or none.
LEMMA CasSimulates ==
    ASSUME EffectInvariant, EffectInvariant', NEW w \in Workers, Cas(w)
    PROVE  Simulated
  <1> DEFINE p == calls[w].p
             r == calls[w].rec
             u == calls[w].write
             e == EffectOf[p]
             verdict == [q \in Proposals |-> Verdict(proposals[q].status)]
             happened == {EffectOf[a.proposal] : a \in applied}
  <1>1. /\ calls[w].pc = "cas"
        /\ UNCHANGED <<claims, inFlight, applied, boundary>>
        /\ \/ proposals' = proposals
           \/ Accepts(p, r, u) /\ proposals' = [proposals EXCEPT ![p] = u]
    BY DEF Cas, CompareAndSet, target
  <1>2. CASE proposals' = proposals
    BY <1>1, <1>2, QuietStutter
  <1>3. CASE Accepts(p, r, u) /\ proposals' = [proposals EXCEPT ![p] = u]
    <2>1. FaithfulCopy(p, r) /\ p \in Proposals /\ WriteIsJustified(calls[w])
      BY <1>1, CallIsFaithful DEF CallIsJustified
    <2>2. proposals[p] = r
      BY <1>3, <2>1 DEF Accepts, Matches, FaithfulCopy
    <2>3. /\ r.status \notin {"verified", "partially_succeeded"}
          /\ u.status \in MayHaveEffect => r.status \in MayHaveEffect
      BY <2>1 DEF WriteIsJustified
    <2>4. proposals'[p] = u /\ \A q \in Proposals : q # p => proposals'[q] = proposals[q]
      BY <1>3, <2>1 DEF EffectInvariant, TypeOK
    <2>5. \A q \in Proposals : q # p =>
              Verdict(proposals'[q].status) = Verdict(proposals[q].status)
      BY <2>4 DEF Verdict, MayHaveEffect
    <2>6. {EffectOf[a.proposal] : a \in applied}' = happened
      BY <1>1
    <2>7. ASSUME NEW s, Verdict(proposals'[p].status) = s
          PROVE  [q \in Proposals |-> Verdict(proposals[q].status)]'
                   = [verdict EXCEPT ![p] = s]
      BY <2>1, <2>5, <2>7
    <2>8. CASE u.status \in MayHaveEffect <=> r.status \in MayHaveEffect
      <3>1. CASE u.status \notin {"verified", "partially_succeeded"}
        <4>1. Verdict(proposals'[p].status) = Verdict(proposals[p].status)
          BY <2>2, <2>3, <2>4, <2>8, <3>1 DEF Verdict, MayHaveEffect
        <4> QED BY <1>1, <2>5, <4>1, Stutter
      <3>2. CASE u.status \in {"verified", "partially_succeeded"}
        <4>1. PICK a \in applied : a.proposal = p
          BY <2>4, <3>2, <2>1 DEF WriteIsJustified
        <4>2. claims[e] = p
          BY <4>1, HappenedByOwner
        <4>3. verdict[p] = "open"
          BY <2>1, <2>2, <2>3, <2>8, <3>2 DEF Verdict, MayHaveEffect
        <4>4. Verdict(proposals'[p].status) = "done"
          BY <2>4, <3>2 DEF Verdict, MayHaveEffect
        <4>5. Admission!Confirm(p)
          BY <1>1, <2>6, <2>7, <4>1, <4>2, <4>3, <4>4 DEF Admission!Confirm
        <4> QED BY <2>1, <4>5 DEF Simulated, Admission!Next
      <3> QED BY <3>1, <3>2
    <2>9. CASE r.status \in MayHaveEffect /\ u.status \notin MayHaveEffect
      <3>1. claims[e] = p
        BY <2>1, <2>2, <2>9 DEF EffectInvariant, ClaimIsHeld
      <3>2. verdict[p] = "open"
        BY <2>1, <2>2, <2>3, <2>9 DEF Verdict
      <3>3. Verdict(proposals'[p].status) = "none"
        BY <2>4, <2>9 DEF Verdict, MayHaveEffect
      <3>4. e \notin happened
        <4> SUFFICES ASSUME NEW b \in applied, EffectOf[b.proposal] = e
                     PROVE  FALSE
          OBVIOUS
        <4>1. b.proposal = p
          BY <3>1, HappenedByOwner
        <4>2. {a \in applied : a.proposal = p} = {}
          <5>1. {a \in applied' : a.proposal = p} = {}
            BY <2>1, <2>4, <2>9
               DEF EffectInvariant, StatusTellsTheTruth, MayHaveEffect
          <5> QED BY <1>1, <5>1
        <4> QED BY <4>1, <4>2
      <3>5. Admission!RuleOut(p)
        BY <1>1, <2>6, <2>7, <3>1, <3>2, <3>3, <3>4 DEF Admission!RuleOut
      <3> QED BY <2>1, <3>5 DEF Simulated, Admission!Next
    <2> QED BY <2>3, <2>8, <2>9
  <1> QED BY <1>1, <1>2, <1>3

\* The target applies an attempt: the effect happens for its owner, once.
LEMMA TargetAppliesSimulates ==
    ASSUME EffectInvariant, NEW a \in inFlight, TargetApplies(a)
    PROVE  Simulated
  <1> DEFINE p == a.proposal
             e == EffectOf[p]
             verdict == [q \in Proposals |-> Verdict(proposals[q].status)]
             happened == {EffectOf[b.proposal] : b \in applied}
  <1>1. /\ a.token > boundary[p]
        /\ applied' = applied \cup {a}
        /\ UNCHANGED <<proposals, claims>>
    BY DEF TargetApplies, store
  <1>2. a \in OpenAttempts
    BY <1>1 DEF OpenAttempts
  <1>3. /\ p \in Proposals
        /\ claims[e] = p
        /\ proposals[p].status \in MayHaveEffect
    BY <1>2 DEF EffectInvariant, ClaimCoversOpenAttempt, AttemptsAreKnown, Attempts
  <1>4. a \notin applied
    BY DEF EffectInvariant, AttemptsAreExclusive
  <1>5. \A b \in applied : EffectOf[b.proposal] # e
    BY <1>2, <1>4, HappenedByOwner
  <1>6. proposals[p].status \notin {"verified", "partially_succeeded"}
    BY <1>3, <1>5 DEF EffectInvariant, StatusTellsTheTruth
  <1>7. verdict[p] = "open"
    BY <1>3, <1>6 DEF Verdict
  <1>8. [q \in Proposals |-> Verdict(proposals[q].status)]' = verdict
    BY <1>1 DEF Verdict
  <1>9. {EffectOf[b.proposal] : b \in applied}' = happened \cup {e}
    BY <1>1
  <1>10. e \notin happened
    BY <1>5
  <1>11. Admission!Happen(p)
    BY <1>1, <1>3, <1>7, <1>8, <1>9, <1>10 DEF Admission!Happen
  <1> QED BY <1>3, <1>11 DEF Simulated, Admission!Next

\* A new row has no verdict, like a missing one.
LEMMA CreationStutters ==
    ASSUME EffectInvariant, NEW p \in Proposals, NEW at \in Nat, ~Stored(p),
           proposals' = [proposals EXCEPT ![p] = Prepared(at)],
           UNCHANGED <<claims, applied>>
    PROVE  Simulated
  <1>1. /\ proposals'[p].status = "awaiting_authority"
        /\ \A q \in Proposals : q # p => proposals'[q] = proposals[q]
    BY PreparedType DEF EffectInvariant, TypeOK
  <1>2. proposals[p].status = "absent"
    BY DEF Stored
  <1> QED BY <1>1, <1>2, Stutter DEF Verdict, MayHaveEffect

\* Erasure keeps the status.
LEMMA ErasureStutters ==
    ASSUME EffectInvariant, NEW p \in Proposals, NEW r,
           r \in {ProposalWithErasurePending(proposals[p]),
                  ErasedProposal(proposals[p])},
           proposals' = [proposals EXCEPT ![p] = r],
           UNCHANGED <<claims, applied>>
    PROVE  Simulated
  <1>1. proposals[p] \in StoredProposal
    BY AttemptsTyped
  <1>2. r.status = proposals[p].status
    BY <1>1, ErasureType
  <1>3. \A q \in Proposals : proposals'[q].status = proposals[q].status
    BY <1>2 DEF EffectInvariant, TypeOK
  <1> QED BY <1>3, Stutter DEF Verdict

\* Every step simulates.
LEMMA StepSimulates ==
    ASSUME EffectInvariant, EffectInvariant', [Next]_vars
    PROVE  Simulated
  <1>1. CASE UNCHANGED vars
    BY <1>1, QuietStutter DEF vars, store, target
  <1>2. ASSUME NEW p \in Proposals, NEW at \in 0..now, Prepare(p, at)
        PROVE  Simulated
    <2>1. at \in Nat
      BY DEF EffectInvariant, TypeOK
    <2> QED BY <1>2, <2>1, CreationStutters DEF Prepare, target
  <1>3. ASSUME NEW w \in Workers, NEW p \in Proposals,
               \/ \E e \in Evidence : RecordAuthority(w, p, e)
               \/ ExpireDue(w, p)
               \/ Execute(w, p)
               \/ Reconcile(w, p)
               \/ ResumeVerification(w, p)
        PROVE  Simulated
    <2>1. UNCHANGED <<proposals, claims, applied>>
      BY <1>3 DEF RecordAuthority, ExpireDue, Execute, Reconcile,
                  ResumeVerification, store, target
    <2> QED BY <2>1, QuietStutter
  <1>4. ASSUME NEW w \in Workers, NEW p \in Proposals, PersistReplacement(w, p)
        PROVE  Simulated
    <2>1. calls[w].at \in Nat
      BY <1>4, CallIsFaithful DEF PersistReplacement
    <2> QED BY <1>4, <2>1, CreationStutters DEF PersistReplacement, target
  <1>5. ASSUME NEW w \in Workers, NEW p \in Proposals, Erase(w, p)
        PROVE  Simulated
    BY <1>5, ErasureStutters, QuietStutter DEF Erase, target
  <1>6. ASSUME NEW w \in Workers,
               \/ Abandon(w)
               \/ Resolve(w)
               \/ Recheck(w)
               \/ Precheck(w)
               \/ Dispatch(w)
               \/ Submit(w)
               \/ \E reply \in ExecutionReply : ExecutorReturns(w, reply)
               \/ ReconcileDue(w)
               \/ \E result \in VerificationReport,
                     items \in {"none", "succeeded", "partial"},
                     idempotent \in BOOLEAN :
                       Verify(w, result, items, idempotent)
               \/ DestroyKeys(w)
        PROVE  Simulated
    <2>1. UNCHANGED <<proposals, claims, applied>>
      BY <1>6 DEF Abandon, Resolve, Recheck, Precheck, Dispatch, Submit,
                  ExecutorReturns, ReconcileDue, Verify, DestroyKeys, store,
                  target
    <2> QED BY <2>1, QuietStutter
  <1>7. ASSUME NEW w \in Workers, CompleteErasure(w)
        PROVE  Simulated
    <2>1. calls[w].p \in Proposals
      BY <1>7, CallIsFaithful DEF CompleteErasure
    <2> QED BY <1>7, <2>1, ErasureStutters, QuietStutter
            DEF CompleteErasure, target
  <1>8. ASSUME NEW w \in Workers, Cas(w) \/ Admit(w)
        PROVE  Simulated
    BY <1>8, CasSimulates, AdmitSimulates
  <1>9. ASSUME NEW a \in inFlight, TargetApplies(a) \/ TargetRefuses(a)
        PROVE  Simulated
    <2>1. CASE TargetRefuses(a)
      BY <2>1, QuietStutter DEF TargetRefuses, store
    <2> QED BY <1>9, <2>1, TargetAppliesSimulates
  <1>10. CASE Tick
    BY <1>10, QuietStutter DEF Tick, target
  <1> QED BY <1>1, <1>2, <1>3, <1>4, <1>5, <1>6, <1>7, <1>8, <1>9, <1>10 DEF Next

\* Nobody owns an effect, every verdict is "none" and nothing happened.
LEMMA InitSimulates == Init => Admission!Init
  <1> SUFFICES ASSUME Init PROVE Admission!Init
    OBVIOUS
  <1>1. \A p \in Proposals : Verdict(proposals[p].status) = "none"
    BY DEF Init, AbsentProposal, Verdict, MayHaveEffect
  <1> QED BY <1>1 DEF Init, Admission!Init

\* The runtime, with its store, leases, retries and erasure, implements
\* EffectAdmission: the effect claim is the owner, the lifecycle status the
\* verdict, and what the target applied is what happened.
THEOREM RuntimeImplementsAdmission == Spec => ImplementsEffectAdmission
  <1>1. EffectInvariant /\ EffectInvariant' /\ [Next]_vars => Simulated
    BY StepSimulates
  <1> QED BY <1>1, InitSimulates, EffectInvariantHolds, PTL
          DEF Spec, ImplementsEffectAdmission, Admission!Spec, Simulated
=============================================================================
