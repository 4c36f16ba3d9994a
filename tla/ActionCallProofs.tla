-------------------------- MODULE ActionCallProofs --------------------------
(***************************************************************************)
(* Proofs, for every value of the constants, of what the runtime's calls   *)
(* may do to rows, keys and each other: matching writes are accepted, one  *)
(* call can settle a proposal, the executor runs under authority and       *)
(* within its lease, erasure freezes a row and spares what is still        *)
(* reconciled, and verification attempts are bounded.  On top of that,     *)
(* what work discovery, the recovery view and evidence export read in a    *)
(* row agrees with what the runtime wrote.  Behind an approval channel the *)
(* runtime is the same, and its evidence is what the page issued or the    *)
(* decision that a request keeps.                                          *)
(***************************************************************************)
EXTENDS ActionRuntimeProofs, RecoveryView, EvidenceExport, ApprovalChannel, FiniteSetTheorems

-----------------------------------------------------------------------------
(* Receipts and the answers among them. *)

\* Appending a receipt keeps the earlier ones.
LEMMA AppendIsPrefix ==
    ASSUME NEW s \in Seq(ReceiptKind), NEW k \in ReceiptKind
    PROVE  /\ IsPrefix(s, s)
           /\ IsPrefix(s, Append(s, k))
           /\ Len(Append(s, k)) = Len(s) + 1
  <1>1. Len(Append(s, k)) = Len(s) + 1 /\ Len(s) \in Nat
    OBVIOUS
  <1>2. SubSeq(s, 1, Len(s)) = SubSeq(Append(s, k), 1, Len(s))
    OBVIOUS
  <1> QED BY <1>1, <1>2 DEF IsPrefix

\* Answers are finitely many.
LEMMA AnswersFinite ==
    ASSUME NEW s \in Seq(ReceiptKind)
    PROVE  /\ IsFiniteSet(AnswersSinceRestart(s))
           /\ Cardinality(AnswersSinceRestart(s)) \in Nat
  <1>1. AnswersSinceRestart(s) \subseteq 1..Len(s)
    BY DEF AnswersSinceRestart
  <1>2. IsFiniteSet(1..Len(s))
    BY FS_Interval
  <1> QED BY <1>1, <1>2, FS_Subset, FS_CardinalityType

\* A fresh record has none.
LEMMA NoAnswers ==
    /\ Cardinality(AnswersSinceRestart(<<>>)) = 0
    /\ Cardinality(AnswersSinceRestart(<<"prepared">>)) = 0
  <1>1. AnswersSinceRestart(<<>>) = {}
    BY DEF AnswersSinceRestart
  <1>2. AnswersSinceRestart(<<"prepared">>) = {}
    BY DEF AnswersSinceRestart, VerificationReport
  <1> QED BY <1>1, <1>2, FS_EmptySet

\* A restart forgets them.
LEMMA RestartForgets ==
    ASSUME NEW s \in Seq(ReceiptKind), NEW k \in {"started", "verification_resumed"}
    PROVE  Cardinality(AnswersSinceRestart(Append(s, k))) = 0
  <1> DEFINE t == Append(s, k)
  <1>1. Len(s) + 1 \in DOMAIN t /\ t[Len(s) + 1] = k /\ DOMAIN t = 1..(Len(s) + 1)
    OBVIOUS
  <1> HIDE DEF t
  <1>2. AnswersSinceRestart(t) = {}
    BY <1>1 DEF AnswersSinceRestart
  <1> QED BY <1>2, FS_EmptySet DEF t

\* Other receipts leave them alone, and a verifier's answer adds one.
LEMMA ReceiptCounts ==
    ASSUME NEW s \in Seq(ReceiptKind), NEW k \in ReceiptKind,
           k \notin {"started", "verification_resumed"}
    PROVE  LET before == Cardinality(AnswersSinceRestart(s))
               after == Cardinality(AnswersSinceRestart(Append(s, k)))
           IN  /\ before \in Nat /\ after \in Nat
               /\ k \notin VerificationReport => after = before
               /\ after <= before + 1
  <1> DEFINE t == Append(s, k)
             n == Len(s) + 1
             A == AnswersSinceRestart(s)
             B == AnswersSinceRestart(t)
  <1>1. /\ n \in Nat /\ DOMAIN t = 1..n /\ t[n] = k
        /\ DOMAIN s = 1..(n - 1)
        /\ \A i \in 1..(n - 1) : t[i] = s[i] /\ i < n
    OBVIOUS
  <1>2. t \in Seq(ReceiptKind)
    OBVIOUS
  <1> HIDE DEF t, n
  <1>3. B \subseteq A \cup {n}
    BY <1>1 DEF AnswersSinceRestart
  <1>4. k \notin VerificationReport => B = A
    BY <1>1 DEF AnswersSinceRestart
  <1>5. /\ IsFiniteSet(A) /\ Cardinality(A) \in Nat
        /\ IsFiniteSet(B) /\ Cardinality(B) \in Nat
    BY <1>2, AnswersFinite
  <1> HIDE DEF A, B
  <1>6. /\ IsFiniteSet(A \cup {n})
        /\ Cardinality(A \cup {n}) \in Nat
        /\ Cardinality(A \cup {n}) <= Cardinality(A) + 1
    <2>1. /\ IsFiniteSet(A \cup {n})
          /\ \/ Cardinality(A \cup {n}) = Cardinality(A)
             \/ Cardinality(A \cup {n}) = Cardinality(A) + 1
      BY <1>5, FS_AddElement
    <2> QED BY <1>5, <2>1
  <1>7. Cardinality(B) <= Cardinality(A \cup {n})
    BY <1>3, <1>6, FS_Subset
  <1>8. Cardinality(B) <= Cardinality(A) + 1
    BY <1>5, <1>6, <1>7
  <1> QED BY <1>4, <1>5, <1>8 DEF A, B, t

-----------------------------------------------------------------------------
(* The approval policy. *)

\* More evidence never takes an approval away.
LEMMA SatisfiedGrows ==
    ASSUME NEW V, NEW W, V \subseteq W, Satisfied(V)
    PROVE  Satisfied(W)
  <1> DEFINE approving(X) ==
                {e.authority : e \in {x \in X : x.decision = "approve"}}
                  \cap Authorities
  <1>1. approving(V) \subseteq approving(W) /\ approving(W) \subseteq Authorities
    OBVIOUS
  <1>2. IsFiniteSet(approving(W))
    BY <1>1, AuthoritiesAssumption, FS_Subset
  <1>3. Cardinality(approving(V)) <= Cardinality(approving(W))
    BY <1>1, <1>2, FS_Subset
  <1>4. IsFiniteSet(approving(V))
    BY <1>1, <1>2, FS_Subset
  <1>5. Cardinality(approving(V)) \in Nat /\ Cardinality(approving(W)) \in Nat
    BY <1>2, <1>4, FS_CardinalityType
  <1>6. Cardinality(approving(V)) >= Required
    BY DEF Satisfied
  <1>7. Cardinality(approving(W)) >= Required
    <2> HIDE DEF approving
    <2> QED BY <1>3, <1>5, <1>6, RuntimeAssumption
  <1> QED BY <1>7 DEF Satisfied

-----------------------------------------------------------------------------
(* Lawful writes. *)

\* The fields a plain move leaves alone.
LEMMA MoveKeeps ==
    ASSUME NEW r \in StoredProposal, NEW s
    PROVE  /\ Move(r, s).status = s
           /\ Move(r, s).evidence = r.evidence
           /\ Move(r, s).receipts = r.receipts
           /\ Move(r, s).attempts = r.attempts
           /\ Move(r, s).erasure = r.erasure
  BY DEF Move, StoredProposal

\* The same, and what a receipt adds to it.
LEMMA MoveFields ==
    ASSUME NEW r \in StoredProposal, NEW s, NEW k
    PROVE  /\ Move(r, s).status = s
           /\ Move(r, s).evidence = r.evidence
           /\ Move(r, s).receipts = r.receipts
           /\ Move(r, s).attempts = r.attempts
           /\ Move(r, s).erasure = r.erasure
           /\ Move(r, s).nextAt = r.nextAt
           /\ MoveWith(r, s, k).status = s
           /\ MoveWith(r, s, k).evidence = r.evidence
           /\ MoveWith(r, s, k).receipts = Append(r.receipts, k)
           /\ MoveWith(r, s, k).attempts = r.attempts
           /\ MoveWith(r, s, k).erasure = r.erasure
  BY DEF Move, MoveWith, StoredProposal

\* A write of u over the copy r that satisfies WriteIsLawful.
LawfulWrite(r, u, next) ==
    /\ r.erasure = "none" /\ u.erasure = "none"
    /\ r.evidence \subseteq u.evidence
    /\ IsPrefix(r.receipts, u.receipts)
    /\ u.status \in AllowedNext(r.status) \cup {r.status}
    /\ r.status = "executing" =>
         Len(u.receipts) = Len(r.receipts) + 1 \/ r.nextAt <= now
    /\ AnswersAreCounted(r) /\ AnswersAreCounted(u)
    /\ next = "verify" => AnswerIsOwed(u)

\* A copy a handler may write over.
LiveCopy(r) ==
    r \in StoredProposal /\ r.erasure = "none" /\ AnswersAreCounted(r)

\* Statuses may change along the table, but not out of CounterRestarted.
LawfulStatus(from, to) ==
    /\ to \in AllowedNext(from) \cup {from}
    /\ from \in CounterRestarted => to \in CounterRestarted

\* A write that adds a receipt other than a restart or an answer is lawful.
LEMMA LawfulAppend ==
    ASSUME NEW r, LiveCopy(r), NEW u \in StoredProposal, NEW next, NEW k \in ReceiptKind,
           k \notin VerificationReport \cup {"started", "verification_resumed"},
           u.receipts = Append(r.receipts, k),
           u.erasure = r.erasure,
           u.attempts = r.attempts,
           r.evidence \subseteq u.evidence,
           LawfulStatus(r.status, u.status),
           next # "verify"
    PROVE  LawfulWrite(r, u, next)
  <1>1. r.receipts \in Seq(ReceiptKind) /\ r.attempts \in Nat
    BY DEF LiveCopy, StoredProposal
  <1>2. /\ IsPrefix(r.receipts, u.receipts)
        /\ Len(u.receipts) = Len(r.receipts) + 1
    BY <1>1, AppendIsPrefix
  <1>3. Cardinality(AnswersSinceRestart(u.receipts)) =
          Cardinality(AnswersSinceRestart(r.receipts))
    BY <1>1, ReceiptCounts
  <1>4. AnswersAreCounted(u)
    BY <1>3 DEF LiveCopy, AnswersAreCounted, LawfulStatus
  <1> QED BY <1>2, <1>4 DEF LawfulWrite, LiveCopy, LawfulStatus

\* So is one without a receipt, unless it takes over a leased execution.
LEMMA LawfulMove ==
    ASSUME NEW r, LiveCopy(r), NEW u \in StoredProposal, NEW next,
           u.receipts = r.receipts,
           u.erasure = r.erasure,
           u.attempts = r.attempts,
           u.evidence = r.evidence,
           LawfulStatus(r.status, u.status),
           r.status = "executing" => r.nextAt <= now,
           next # "verify"
    PROVE  LawfulWrite(r, u, next)
  <1>1. r.receipts \in Seq(ReceiptKind)
    BY DEF LiveCopy, StoredProposal
  <1>2. IsPrefix(r.receipts, u.receipts)
    BY <1>1, AppendIsPrefix DEF ReceiptKind
  <1>3. AnswersAreCounted(u)
    BY DEF LiveCopy, AnswersAreCounted, LawfulStatus
  <1> QED BY <1>2, <1>3 DEF LawfulWrite, LiveCopy, LawfulStatus

\* Expiry, blocking and staleness.
LEMMA ClosingIsLawful ==
    ASSUME NEW r, LiveCopy(r), r.status \in {"awaiting_authority", "authorized"},
           NEW next \in {"idle", "replace"}
    PROVE  /\ LawfulWrite(r, Move(r, "expired"), "idle")
           /\ r.status = "authorized" => LawfulWrite(r, Blocked(r), "idle")
           /\ r.status = "authorized" =>
                LawfulWrite(r, MoveWith(r, "stale", "failed_known"), next)
  <1> DEFINE e == Move(r, "expired")
             b == MoveWith(r, "blocked", "authority_failed")
             s == MoveWith(r, "stale", "failed_known")
  <1>1. r \in StoredProposal
    BY DEF LiveCopy
  <1>2. /\ e \in StoredProposal /\ b \in StoredProposal /\ s \in StoredProposal
    BY <1>1, MoveType, MoveWithType DEF LifecycleStatus, ReceiptKind
  <1>3. /\ e.status = "expired" /\ e.evidence = r.evidence
        /\ e.receipts = r.receipts /\ e.attempts = r.attempts
        /\ e.erasure = r.erasure
        /\ b.status = "blocked" /\ b.evidence = r.evidence
        /\ b.receipts = Append(r.receipts, "authority_failed")
        /\ b.attempts = r.attempts /\ b.erasure = r.erasure
        /\ s.status = "stale" /\ s.evidence = r.evidence
        /\ s.receipts = Append(r.receipts, "failed_known")
        /\ s.attempts = r.attempts /\ s.erasure = r.erasure
    BY <1>1, MoveFields
  <1>4. /\ LawfulStatus(r.status, "expired")
        /\ r.status = "authorized" =>
             LawfulStatus(r.status, "blocked") /\ LawfulStatus(r.status, "stale")
    BY DEF LawfulStatus, AllowedNext, CounterRestarted
  <1>5. /\ "authority_failed" \in ReceiptKind /\ "failed_known" \in ReceiptKind
        /\ {"authority_failed", "failed_known"}
             \cap (VerificationReport \cup {"started", "verification_resumed"}) = {}
    BY DEF ReceiptKind, VerificationReport
  <1> HIDE DEF e, b, s
  <1>6. LawfulWrite(r, e, "idle")
    BY <1>2, <1>3, <1>4, LawfulMove
  <1>7. r.status = "authorized" => LawfulWrite(r, b, "idle")
    BY <1>2, <1>3, <1>4, <1>5, LawfulAppend
  <1>8. r.status = "authorized" => LawfulWrite(r, s, next)
    BY <1>2, <1>3, <1>4, <1>5, LawfulAppend
  <1> QED BY <1>6, <1>7, <1>8 DEF e, b, s, Blocked

\* Recording a decision.
LEMMA DecidedIsLawful ==
    ASSUME NEW r, LiveCopy(r), r.status = "awaiting_authority",
           NEW e \in Evidence, NEW p, NEW at
    PROVE  LawfulWrite(r, Decided(r, e, p, at), "idle")
  <1> DEFINE acc == r.evidence \cup {e}
             s == IF e.decision = "reject" THEN "denied"
                  ELSE IF Satisfied(Valid(acc, p, at)) THEN "authorized"
                  ELSE "awaiting_authority"
             k == IF e.decision = "reject" THEN "authority_rejected"
                                           ELSE "authority_recorded"
             m == MoveWith(r, s, k)
             u == [m EXCEPT !.evidence = acc]
  <1>1. r \in StoredProposal
    BY DEF LiveCopy
  <1>2. Decided(r, e, p, at) = u
    BY DEF Decided
  <1>3. /\ s \in {"denied", "authorized", "awaiting_authority"}
        /\ k \in ReceiptKind
        /\ k \notin VerificationReport \cup {"started", "verification_resumed"}
    BY DEF ReceiptKind, VerificationReport
  <1>4. u \in StoredProposal
    <2>1. Decided(r, e, p, at) \in StoredProposal
      BY <1>1, DecidedType
    <2> HIDE DEF u
    <2> QED BY <1>2, <2>1
  <1> HIDE DEF s, k
  <1>5. /\ m \in StoredProposal
        /\ m.status = s /\ m.attempts = r.attempts /\ m.erasure = r.erasure
        /\ m.receipts = Append(r.receipts, k)
    <2>1. s \in LifecycleStatus
      BY <1>3 DEF LifecycleStatus
    <2> QED BY <1>1, <1>3, <2>1, MoveFields, MoveWithType
  <1> HIDE DEF m, acc
  <1>6. /\ u.status = s /\ u.attempts = r.attempts /\ u.erasure = r.erasure
        /\ u.receipts = Append(r.receipts, k) /\ u.evidence = acc
    BY <1>5 DEF StoredProposal
  <1>7. LawfulStatus(r.status, s)
    BY <1>3 DEF LawfulStatus, AllowedNext, CounterRestarted
  <1>8. r.evidence \subseteq acc
    BY DEF acc
  <1> HIDE DEF u
  <1> QED BY <1>2, <1>3, <1>4, <1>6, <1>7, <1>8, LawfulAppend

\* Settling an execution.
LEMMA SettlingIsLawful ==
    ASSUME NEW r, LiveCopy(r), r.status = "executing",
           NEW reply \in ExecutionReply, NEW at \in Nat
    PROVE  LawfulWrite(r, SettledExecution(r, reply, at), "idle")
  <1> DEFINE k == IF reply = "partially_succeeded" /\ ~Itemized
                  THEN "failed_unknown" ELSE reply
             u == SettledExecution(r, reply, at)
  <1>1. r \in StoredProposal
    BY DEF LiveCopy
  <1>2. /\ k \in ReceiptKind
        /\ k \notin VerificationReport \cup {"started", "verification_resumed"}
    BY DEF ReceiptKind, VerificationReport, ExecutionReply
  <1>3. /\ u \in StoredProposal
        /\ u.status \in {"stale", "failed_known", "failed_unknown",
                         "verification_pending"}
    BY <1>1, SettledExecutionType
  <1>4. \E s \in LifecycleStatus, t \in Int :
           u = [MoveWith(r, s, k) EXCEPT !.nextAt = t]
    <2> DEFINE settled(s, t) == [MoveWith(r, s, k) EXCEPT !.nextAt = t]
    <2>1. at + Delay \in Int /\ NoTime \in Int /\ at \in Int
      BY RuntimeAssumption DEF NoTime
    <2>2. \/ u = settled("stale", NoTime)
          \/ u = settled("failed_known", NoTime)
          \/ u = settled("failed_unknown", at)
          \/ u = settled("verification_pending", at + Delay)
      BY DEF SettledExecution
    <2>3. {"stale", "failed_known", "failed_unknown", "verification_pending"}
            \subseteq LifecycleStatus
      BY DEF LifecycleStatus
    <2>4. \E s \in LifecycleStatus, t \in Int : u = settled(s, t)
      <3> HIDE DEF settled, u
      <3> QED BY <2>1, <2>2, <2>3
    <2> QED BY <2>4
  <1> HIDE DEF u, k
  <1>5. PICK s \in LifecycleStatus, t \in Int :
           u = [MoveWith(r, s, k) EXCEPT !.nextAt = t]
    BY <1>4
  <1> DEFINE m == MoveWith(r, s, k)
  <1>6. /\ m \in StoredProposal /\ m.evidence = r.evidence
        /\ m.attempts = r.attempts /\ m.erasure = r.erasure
        /\ m.receipts = Append(r.receipts, k)
    BY <1>1, <1>2, MoveFields, MoveWithType
  <1> HIDE DEF m
  <1>7. /\ u.attempts = r.attempts /\ u.erasure = r.erasure
        /\ u.receipts = Append(r.receipts, k) /\ u.evidence = r.evidence
    BY <1>5, <1>6 DEF StoredProposal, m
  <1>8. LawfulStatus(r.status, u.status)
    BY <1>3 DEF LawfulStatus, AllowedNext, CounterRestarted
  <1> QED BY <1>2, <1>3, <1>7, <1>8, LawfulAppend DEF u

\* Settling a verification whose answer is owed.
LEMMA VerifyingIsLawful ==
    ASSUME NEW r, LiveCopy(r), r.status = "verification_pending",
           AnswerIsOwed(r), NEW result \in VerificationReport, NEW items,
           NEW idempotent \in BOOLEAN, NEW at \in Nat
    PROVE  LawfulWrite(r, SettledVerification(r, result, items, idempotent, at),
                       "idle")
  <1> DEFINE s == VerificationTransition(r, result, items, idempotent)
             m == MoveWith(r, s, result)
             u == SettledVerification(r, result, items, idempotent, at)
  <1>1. r \in StoredProposal /\ r.receipts \in Seq(ReceiptKind) /\ r.attempts \in Nat
    BY DEF LiveCopy, StoredProposal
  <1>2. /\ s \in {"verified", "partially_succeeded", "failed_known", "authorized",
                   "verification_unresolved", "verification_pending"}
        /\ s \in LifecycleStatus
    BY DEF VerificationTransition, VerificationReport, LifecycleStatus
  <1>3. /\ result \in ReceiptKind
        /\ result \notin {"started", "verification_resumed"}
    BY DEF ReceiptKind, VerificationReport
  <1>4. u = [m EXCEPT !.attempts = IF s = "authorized" THEN 0 ELSE m.attempts,
                      !.nextAt = IF s = "verification_pending" THEN at + Delay
                                                               ELSE NoTime]
    BY DEF SettledVerification
  <1> HIDE DEF s
  <1>5. /\ m \in StoredProposal /\ m.status = s /\ m.evidence = r.evidence
        /\ m.attempts = r.attempts /\ m.erasure = r.erasure
        /\ m.receipts = Append(r.receipts, result)
    BY <1>1, <1>2, <1>3, MoveFields, MoveWithType
  <1> HIDE DEF m, u
  <1>6. /\ u.status = s /\ u.erasure = r.erasure /\ u.evidence = r.evidence
        /\ u.receipts = Append(r.receipts, result)
        /\ u.attempts = IF s = "authorized" THEN 0 ELSE r.attempts
    BY <1>4, <1>5 DEF StoredProposal
  <1>7. IsPrefix(r.receipts, u.receipts)
    BY <1>1, <1>3, <1>6, AppendIsPrefix
  <1>8. s \in AllowedNext(r.status) \cup {r.status}
    BY <1>2 DEF AllowedNext
  <1>9. AnswersAreCounted(u)
    <2> DEFINE before == Cardinality(AnswersSinceRestart(r.receipts))
               after == Cardinality(AnswersSinceRestart(u.receipts))
    <2>1. before \in Nat /\ after \in Nat /\ after <= before + 1
      BY <1>1, <1>3, <1>6, ReceiptCounts
    <2>2. before < r.attempts /\ r.attempts <= MaxAttempts
      BY DEF AnswerIsOwed, LiveCopy, AnswersAreCounted
    <2>3. MaxAttempts \in Nat
      BY RuntimeAssumption
    <2> HIDE DEF before, after
    <2>4. after <= r.attempts /\ after <= MaxAttempts
      BY <1>1, <2>1, <2>2, <2>3
    <2>5. u.attempts <= MaxAttempts
      BY <1>6, <2>2, <2>3
    <2>6. u.status \notin CounterRestarted => after <= u.attempts
      BY <1>6, <2>4 DEF CounterRestarted
    <2> QED BY <2>4, <2>5, <2>6 DEF AnswersAreCounted, after
  <1> QED BY <1>6, <1>7, <1>8, <1>9 DEF LawfulWrite, LiveCopy, u

\* The operator's resume restarts the count.
LEMMA ResumingIsLawful ==
    ASSUME NEW r, LiveCopy(r), r.status \in OperatorRecoveryAvailable,
           NEW at \in Nat
    PROVE  LawfulWrite(r, Resumed(r, at), "observe")
  <1> DEFINE m == MoveWith(r, "verification_pending", "verification_resumed")
             u == Resumed(r, at)
  <1>1. r \in StoredProposal /\ r.receipts \in Seq(ReceiptKind)
    BY DEF LiveCopy, StoredProposal
  <1>2. u = [m EXCEPT !.attempts = 0, !.nextAt = at]
    BY DEF Resumed
  <1>3. /\ m \in StoredProposal /\ m.status = "verification_pending"
        /\ m.evidence = r.evidence /\ m.erasure = r.erasure
        /\ m.receipts = Append(r.receipts, "verification_resumed")
    <2>1. "verification_pending" \in LifecycleStatus /\ "verification_resumed" \in ReceiptKind
      BY DEF LifecycleStatus, ReceiptKind
    <2>2. m \in StoredProposal
      BY <1>1, <2>1, MoveWithType
    <2> QED BY <1>1, <2>2, MoveFields
  <1> HIDE DEF m, u
  <1>4. /\ u.status = "verification_pending" /\ u.evidence = r.evidence
        /\ u.erasure = r.erasure /\ u.attempts = 0
        /\ u.receipts = Append(r.receipts, "verification_resumed")
    BY <1>2, <1>3 DEF StoredProposal
  <1>5. /\ IsPrefix(r.receipts, u.receipts)
        /\ Len(u.receipts) = Len(r.receipts) + 1
    BY <1>1, <1>4, AppendIsPrefix DEF ReceiptKind
  <1>6. AnswersAreCounted(u)
    <2>1. Cardinality(AnswersSinceRestart(u.receipts)) = 0
      BY <1>1, <1>4, RestartForgets
    <2> QED BY <1>4, <2>1, RuntimeAssumption DEF AnswersAreCounted
  <1>7. u.status \in AllowedNext(r.status) \cup {r.status}
    BY <1>4 DEF AllowedNext, OperatorRecoveryAvailable
  <1> QED BY <1>4, <1>5, <1>6, <1>7 DEF LawfulWrite, LiveCopy, u

\* Reconcile takes an execution over once its lease has run out.
LEMMA TakeoverIsLawful ==
    ASSUME NEW r, LiveCopy(r), r.status \in {"executing", "failed_unknown"},
           r.status = "executing" => ~Leased(r, now), now \in Nat
    PROVE  LawfulWrite(r, Move(r, "verification_pending"), "due")
  <1> DEFINE u == Move(r, "verification_pending")
  <1>1. r \in StoredProposal /\ r.nextAt \in Int
    BY DEF LiveCopy, StoredProposal
  <1>2. u \in StoredProposal
    BY <1>1, MoveType DEF LifecycleStatus
  <1>3. /\ u.status = "verification_pending" /\ u.evidence = r.evidence
        /\ u.receipts = r.receipts /\ u.attempts = r.attempts
        /\ u.erasure = r.erasure
    BY <1>1, MoveFields
  <1>4. LawfulStatus(r.status, "verification_pending")
    BY DEF LawfulStatus, AllowedNext, CounterRestarted
  <1>5. r.status = "executing" => r.nextAt <= now
    BY <1>1 DEF Leased, NoTime
  <1> HIDE DEF u
  <1> QED BY <1>2, <1>3, <1>4, <1>5, LawfulMove DEF u

\* A stale proposal is superseded.
LEMMA SupersedingIsLawful ==
    ASSUME NEW r, LiveCopy(r), r.status = "stale", NEW fresh \in Proposals
    PROVE  LawfulWrite(r, [Move(r, "superseded") EXCEPT !.supersededBy = fresh],
                       "idle")
  <1> DEFINE m == Move(r, "superseded")
             u == [m EXCEPT !.supersededBy = fresh]
  <1>1. r \in StoredProposal
    BY DEF LiveCopy
  <1>2. /\ m \in StoredProposal
        /\ m.status = "superseded" /\ m.evidence = r.evidence
        /\ m.receipts = r.receipts /\ m.attempts = r.attempts
        /\ m.erasure = r.erasure
    <2>1. Move(r, "superseded") \in StoredProposal
      BY <1>1, MoveType DEF LifecycleStatus
    <2> QED BY <1>1, <2>1, MoveKeeps
  <1> HIDE DEF m
  <1>3. /\ u \in StoredProposal
        /\ u.status = "superseded" /\ u.evidence = r.evidence
        /\ u.receipts = r.receipts /\ u.attempts = r.attempts
        /\ u.erasure = r.erasure
    BY <1>2 DEF StoredProposal
  <1> HIDE DEF u
  <1>4. LawfulStatus(r.status, "superseded")
    BY DEF LawfulStatus, AllowedNext, CounterRestarted
  <1>5. LawfulWrite(r, u, "idle")
    BY <1>3, <1>4, LawfulMove
  <1> QED BY <1>5 DEF u, m

\* Due gives up, or pays an attempt for the answer it will ask for.
LEMMA DueIsLawful ==
    ASSUME NEW p, NEW r, LiveCopy(r), r.status = "verification_pending",
           NEW at \in Nat
    PROVE  \/ Due(p, r, at) = NoCall
           \/ \E u \in StoredProposal, next \in {"idle", "verify"}, t \in Nat :
                 /\ Due(p, r, at) = Write(p, r, u, next, t)
                 /\ LawfulWrite(r, u, next)
  <1> DEFINE mu == Move(r, "verification_unresolved")
             mp == Move(r, "verification_pending")
             uu == [mu EXCEPT !.nextAt = NoTime]
             up == [mp EXCEPT !.nextAt = at + Lease, !.attempts = mp.attempts + 1]
  <1>1. r \in StoredProposal /\ r.attempts \in Nat /\ r.receipts \in Seq(ReceiptKind)
    BY DEF LiveCopy, StoredProposal
  <1>2. /\ mu \in StoredProposal
        /\ mu.status = "verification_unresolved" /\ mu.evidence = r.evidence
        /\ mu.receipts = r.receipts /\ mu.attempts = r.attempts
        /\ mu.erasure = r.erasure
    <2>1. Move(r, "verification_unresolved") \in StoredProposal
      BY <1>1, MoveType DEF LifecycleStatus
    <2> QED BY <1>1, <2>1, MoveKeeps
  <1>3. /\ mp \in StoredProposal
        /\ mp.status = "verification_pending" /\ mp.evidence = r.evidence
        /\ mp.receipts = r.receipts /\ mp.attempts = r.attempts
        /\ mp.erasure = r.erasure
    <2>1. Move(r, "verification_pending") \in StoredProposal
      BY <1>1, MoveType DEF LifecycleStatus
    <2> QED BY <1>1, <2>1, MoveKeeps
  <1>4. \/ Due(p, r, at) = NoCall
        \/ Due(p, r, at) = Write(p, r, uu, "idle", 0)
        \/ /\ Due(p, r, at) = Write(p, r, up, "verify", at)
           /\ ~(r.attempts >= MaxAttempts)
    BY DEF Due
  <1>5. at + Lease \in Int /\ NoTime \in Int /\ MaxAttempts \in Nat
    BY RuntimeAssumption DEF NoTime
  <1> HIDE DEF mu, mp
  <1>6. /\ uu \in StoredProposal
        /\ uu.status = "verification_unresolved" /\ uu.evidence = r.evidence
        /\ uu.receipts = r.receipts /\ uu.attempts = r.attempts
        /\ uu.erasure = r.erasure
    BY <1>2, <1>5 DEF StoredProposal
  <1>7. /\ up \in StoredProposal
        /\ up.status = "verification_pending" /\ up.evidence = r.evidence
        /\ up.receipts = r.receipts /\ up.attempts = r.attempts + 1
        /\ up.erasure = r.erasure
    <2>1. mp.attempts + 1 \in Nat
      BY <1>1, <1>3
    <2> QED BY <1>3, <1>5, <2>1 DEF StoredProposal
  <1> HIDE DEF uu, up
  <1>8. LawfulWrite(r, uu, "idle")
    <2>1. LawfulStatus(r.status, "verification_unresolved")
      BY DEF LawfulStatus, AllowedNext, CounterRestarted
    <2> QED BY <1>6, <2>1, LawfulMove
  <1>9. ~(r.attempts >= MaxAttempts) => LawfulWrite(r, up, "verify")
    <2> SUFFICES ASSUME ~(r.attempts >= MaxAttempts)
                 PROVE  LawfulWrite(r, up, "verify")
      OBVIOUS
    <2> DEFINE n == Cardinality(AnswersSinceRestart(r.receipts))
    <2>1. n \in Nat
      BY <1>1, AnswersFinite
    <2>2. n <= r.attempts
      BY DEF LiveCopy, AnswersAreCounted, CounterRestarted
    <2>3. n < up.attempts /\ n <= up.attempts /\ up.attempts <= MaxAttempts
          /\ n <= MaxAttempts
      <3> HIDE DEF n
      <3> QED BY <1>1, <1>5, <1>7, <2>1, <2>2
    <2>4. AnswersAreCounted(up) /\ AnswerIsOwed(up)
      BY <1>7, <2>3 DEF AnswersAreCounted, AnswerIsOwed
    <2>5. IsPrefix(r.receipts, up.receipts)
      BY <1>1, <1>7, AppendIsPrefix DEF ReceiptKind
    <2> QED BY <1>7, <2>4, <2>5 DEF LawfulWrite, LiveCopy
  <1> QED BY <1>4, <1>6, <1>7, <1>8, <1>9

-----------------------------------------------------------------------------
(* Steps that only change one call. *)

\* A call moves to a lawful suspension other than the verifier.
LEMMA LawfulStep ==
    ASSUME EffectInvariant, CallInvariant, NEW w \in Workers, NEW c,
           Goto(w, c), UNCHANGED <<proposals, keys, now>>,
           CallIsLawful(c), c.pc # "verify"
    PROVE  CallInvariant'
  <1> USE DEF CallInvariant
  <1>1. /\ calls'[w] = c
        /\ \A v \in Workers : v # w => calls'[v] = calls[v]
    BY DEF Goto, EffectInvariant, TypeOK
  <1>2. CallsAreLawful'
    <2> SUFFICES ASSUME NEW v \in Workers PROVE CallIsLawful(calls[v])'
      BY DEF CallsAreLawful
    <2>1. CallIsLawful(calls'[v])
      BY <1>1 DEF CallsAreLawful
    <2> QED BY <2>1 DEF CallIsLawful, WriteIsLawful
  <1>3. VerifiersAreExclusive'
    BY <1>1 DEF VerifiersAreExclusive
  <1>4. ErasedRowsAreSettled' /\ KeysFollowErasure' /\ RowsAreCounted'
    BY DEF ErasedRowsAreSettled, KeysFollowErasure, RowsAreCounted, Stored
  <1> QED BY <1>2, <1>3, <1>4

\* A call ends.
LEMMA EndStep ==
    ASSUME EffectInvariant, CallInvariant, NEW w \in Workers,
           Return(w), UNCHANGED <<proposals, keys, now>>
    PROVE  CallInvariant'
  <1>1. NoCall.pc = "idle" /\ NoCall.rec = AbsentProposal
    BY DEF NoCall, Suspend
  <1>2. AnswersAreCounted(AbsentProposal)
    BY NoAnswers, RuntimeAssumption DEF AnswersAreCounted, AbsentProposal
  <1>3. CallIsLawful(NoCall)
    BY <1>1, <1>2 DEF CallIsLawful
  <1> QED BY <1>1, <1>3, LawfulStep DEF Return

\* A call computes a lawful write.
LEMMA LawfulWriteStep ==
    ASSUME EffectInvariant, CallInvariant, NEW w \in Workers,
           NEW p, NEW r, NEW u, NEW next, NEW at,
           Goto(w, Write(p, r, u, next, at)), UNCHANGED <<proposals, keys, now>>,
           LawfulWrite(r, u, next)
    PROVE  CallInvariant'
  <1> DEFINE c == Write(p, r, u, next, at)
  <1>1. c.pc = "cas" /\ c.rec = r /\ c.write = u /\ c.next = next
    BY DEF Write
  <1> HIDE DEF c
  <1>2. CallIsLawful(c)
    BY <1>1 DEF CallIsLawful, WriteIsLawful, LawfulWrite
  <1> QED BY <1>1, <1>2, LawfulStep DEF c

\* The row of a stored proposal that is not being erased is a live copy.
LEMMA RowIsLive ==
    ASSUME EffectInvariant, CallInvariant, NEW p \in Proposals,
           proposals[p].erasure = "none"
    PROVE  LiveCopy(proposals[p])
  <1>1. proposals[p] \in StoredProposal
    BY AttemptsTyped
  <1> QED BY <1>1 DEF LiveCopy, CallInvariant, RowsAreCounted

\* So is the copy a running call holds, unless it erases.
LEMMA CallIsLive ==
    ASSUME EffectInvariant, CallInvariant, NEW w \in Workers,
           calls[w].pc \notin {"idle", "destroy", "tombstone"}
    PROVE  /\ LiveCopy(calls[w].rec)
           /\ CallIsLawful(calls[w])
           /\ CallIsJustified(calls[w])
           /\ calls[w].p \in Proposals
           /\ calls[w].at \in Nat
           /\ now \in Nat
  <1>1. calls[w].rec \in StoredProposal
    BY CallIsFaithful
  <1>2. CallIsLawful(calls[w])
    BY DEF CallInvariant, CallsAreLawful
  <1> QED BY <1>1, <1>2, CallIsFaithful
          DEF LiveCopy, CallIsLawful, EffectInvariant, TypeOK

-----------------------------------------------------------------------------
(* One lemma per handler step that leaves the rows alone. *)

\* record_authority and expire_due.
LEMMA LawfulRecordAuthority ==
    ASSUME EffectInvariant, CallInvariant, NEW w \in Workers, NEW p \in Proposals,
           \/ \E e \in Evidence : RecordAuthority(w, p, e)
           \/ ExpireDue(w, p)
    PROVE  CallInvariant'
  <1> DEFINE r == proposals[p]
  <1>1. /\ r.erasure = "none"
        /\ r.status \in {"awaiting_authority", "authorized"}
        /\ UNCHANGED <<proposals, keys, now>>
        /\ \/ Goto(w, Write(p, r, Move(r, "expired"), "idle", 0))
           \/ \E e \in Evidence :
                /\ r.status = "awaiting_authority"
                /\ Goto(w, Write(p, r, Decided(r, e, p, now), "idle", 0))
    BY DEF RecordAuthority, ExpireDue, Begin, store
  <1>2. LiveCopy(r)
    BY <1>1, RowIsLive
  <1> HIDE DEF r
  <1>3. LawfulWrite(r, Move(r, "expired"), "idle")
    BY <1>1, <1>2, ClosingIsLawful
  <1>4. \A e \in Evidence : r.status = "awaiting_authority" =>
           LawfulWrite(r, Decided(r, e, p, now), "idle")
    BY <1>2, DecidedIsLawful
  <1> QED BY <1>1, <1>3, <1>4, LawfulWriteStep

\* A suspension before admission, with the copy of the row it read.
LEMMA LawfulSuspension ==
    ASSUME NEW p, NEW r, LiveCopy(r), NEW at,
           NEW pc \in {"resolve", "recheck", "await", "due", "observe", "replace"}
    PROVE  /\ CallIsLawful(Suspend(pc, p, r, at))
           /\ Suspend(pc, p, r, at).pc = pc
  <1> DEFINE c == Suspend(pc, p, r, at)
  <1>1. c.pc = pc /\ c.rec = r
    BY DEF Suspend
  <1> HIDE DEF c
  <1>2. CallIsLawful(c)
    BY <1>1 DEF CallIsLawful, LiveCopy
  <1> QED BY <1>1, <1>2 DEF c

\* execute reads the row.
LEMMA LawfulExecute ==
    ASSUME EffectInvariant, CallInvariant, NEW w \in Workers, NEW p \in Proposals,
           Execute(w, p)
    PROVE  CallInvariant'
  <1> DEFINE r == proposals[p]
  <1>1. /\ r.erasure = "none"
        /\ r.status = "authorized"
        /\ UNCHANGED <<proposals, keys, now>>
        /\ \/ Goto(w, Write(p, r, Move(r, "expired"), "idle", 0))
           \/ Goto(w, Suspend("resolve", p, r, now))
    BY DEF Execute, Begin, store
  <1>2. LiveCopy(r)
    BY <1>1, RowIsLive
  <1> HIDE DEF r
  <1>3. LawfulWrite(r, Move(r, "expired"), "idle")
    BY <1>1, <1>2, ClosingIsLawful
  <1>4. /\ CallIsLawful(Suspend("resolve", p, r, now))
        /\ Suspend("resolve", p, r, now).pc = "resolve"
    BY <1>2, LawfulSuspension
  <1> QED BY <1>1, <1>3, <1>4, LawfulWriteStep, LawfulStep

\* The state resolver returns.
LEMMA LawfulResolve ==
    ASSUME EffectInvariant, CallInvariant, NEW w \in Workers, Resolve(w)
    PROVE  CallInvariant'
  <1> DEFINE p == calls[w].p
             r == calls[w].rec
             at == calls[w].at
             stale == MoveWith(r, "stale", "failed_known")
  <1>1. /\ calls[w].pc = "resolve"
        /\ UNCHANGED <<proposals, keys, now>>
        /\ \/ Goto(w, Write(p, r, Blocked(r), "idle", 0))
           \/ Goto(w, Suspend("recheck", p, r, 0))
           \/ Goto(w, Write(p, r, stale, "idle", 0))
           \/ Goto(w, Write(p, r, stale, "replace", at))
    BY DEF Resolve, store
  <1>2. LiveCopy(r) /\ r.status = "authorized"
    BY <1>1, CallIsLive DEF CallIsJustified
  <1> HIDE DEF r
  <1>3. /\ LawfulWrite(r, Blocked(r), "idle")
        /\ LawfulWrite(r, stale, "idle")
        /\ LawfulWrite(r, stale, "replace")
    BY <1>2, ClosingIsLawful
  <1>4. /\ CallIsLawful(Suspend("recheck", p, r, 0))
        /\ Suspend("recheck", p, r, 0).pc = "recheck"
    BY <1>2, LawfulSuspension
  <1> HIDE DEF stale
  <1> QED BY <1>1, <1>3, <1>4, LawfulWriteStep, LawfulStep

\* The second look at expiry, authority and can_execute.
LEMMA LawfulRecheck ==
    ASSUME EffectInvariant, CallInvariant, NEW w \in Workers, Recheck(w)
    PROVE  CallInvariant'
  <1> DEFINE p == calls[w].p
             r == calls[w].rec
             valid == Valid(r.evidence, p, now)
             c == [Suspend("precheck", p, r, 0) EXCEPT !.valid = valid]
  <1>1. /\ calls[w].pc = "recheck"
        /\ UNCHANGED <<proposals, keys, now>>
        /\ \/ Goto(w, Write(p, r, Move(r, "expired"), "idle", 0))
           \/ Goto(w, Write(p, r, Blocked(r), "idle", 0))
           \/ Satisfied(valid) /\ Goto(w, c)
    BY DEF Recheck, store
  <1>2. LiveCopy(r) /\ r.status = "authorized"
    BY <1>1, CallIsLive DEF CallIsJustified
  <1>3. valid \subseteq r.evidence
    BY DEF Valid
  <1> HIDE DEF r, valid
  <1>4. c.pc = "precheck" /\ c.rec = r /\ c.valid = valid
    BY DEF Suspend
  <1> HIDE DEF c
  <1>5. /\ LawfulWrite(r, Blocked(r), "idle")
        /\ LawfulWrite(r, Move(r, "expired"), "idle")
    BY <1>2, ClosingIsLawful
  <1>6. Satisfied(valid) => CallIsLawful(c)
    BY <1>2, <1>3, <1>4 DEF CallIsLawful, LiveCopy
  <1> QED BY <1>1, <1>4, <1>5, <1>6, LawfulWriteStep, LawfulStep

\* The third, at the clock value that becomes admitted_at.
LEMMA LawfulPrecheck ==
    ASSUME EffectInvariant, CallInvariant, NEW w \in Workers, Precheck(w)
    PROVE  CallInvariant'
  <1> DEFINE p == calls[w].p
             r == calls[w].rec
             c == [calls[w] EXCEPT !.pc = "admit", !.at = now]
  <1>1. /\ calls[w].pc = "precheck"
        /\ UNCHANGED <<proposals, keys, now>>
        /\ \/ Goto(w, Write(p, r, Move(r, "expired"), "idle", 0))
           \/ Goto(w, Write(p, r, Blocked(r), "idle", 0))
           \/ Goto(w, c)
    BY DEF Precheck, store
  <1>2. LiveCopy(r) /\ r.status = "authorized" /\ CallIsLawful(calls[w])
    BY <1>1, CallIsLive DEF CallIsJustified
  <1>3. calls[w] \in Call
    BY AttemptsTyped
  <1>4. c.pc = "admit" /\ c.rec = r /\ c.valid = calls[w].valid
    BY <1>3 DEF Call
  <1>5. calls[w].valid \subseteq r.evidence /\ Satisfied(calls[w].valid)
    BY <1>1, <1>2 DEF CallIsLawful
  <1> HIDE DEF r, c
  <1>6. /\ LawfulWrite(r, Blocked(r), "idle")
        /\ LawfulWrite(r, Move(r, "expired"), "idle")
    BY <1>2, ClosingIsLawful
  <1>7. CallIsLawful(c)
    BY <1>2, <1>4, <1>5 DEF CallIsLawful, LiveCopy
  <1> QED BY <1>1, <1>4, <1>6, <1>7, LawfulWriteStep, LawfulStep

\* Dispatch refuses, or calls the executor under authority and lease.
LEMMA LawfulDispatch ==
    ASSUME EffectInvariant, CallInvariant, NEW w \in Workers, Dispatch(w)
    PROVE  CallInvariant'
  <1> DEFINE p == calls[w].p
             r == calls[w].rec
             V == calls[w].valid
             u == SettledExecution(r, "failed_known", now)
             c == [calls[w] EXCEPT !.pc = "run", !.at = now]
  <1>1. /\ calls[w].pc = "dispatch"
        /\ UNCHANGED <<proposals, keys, now>>
        /\ \/ Goto(w, Write(p, r, u, "idle", 0))
           \/ ~Refused(calls[w]) /\ Goto(w, c)
    BY DEF Dispatch, store
  <1>2. /\ LiveCopy(r) /\ r.status = "executing"
        /\ CallIsLawful(calls[w]) /\ now \in Nat /\ calls[w].at \in Nat
    BY <1>1, CallIsLive DEF CallIsJustified
  <1>3. calls[w] \in Call /\ r.expiresAt \in Nat
    BY <1>2, AttemptsTyped DEF LiveCopy, StoredProposal
  <1>4. c.pc = "run" /\ c.rec = r /\ c.at = now /\ c.p = p
    BY <1>3 DEF Call
  <1>5. /\ V \subseteq r.evidence /\ Satisfied(V)
        /\ r.nextAt = calls[w].at + Lease
    BY <1>1, <1>2 DEF CallIsLawful
  <1>6. LawfulWrite(r, u, "idle")
    BY <1>2, SettlingIsLawful DEF ExecutionReply
  <1>7. ~Refused(calls[w]) => CallIsLawful(c)
    <2> SUFFICES ASSUME ~Refused(calls[w]) PROVE CallIsLawful(c)
      OBVIOUS
    <2>1. /\ ~(r.expiresAt <= now)
          /\ Valid(V, p, now) = V
          /\ ~(now >= calls[w].at + Lease)
      BY DEF Refused, Expired
    <2>2. V \subseteq Valid(r.evidence, p, now)
      BY <1>5, <2>1 DEF Valid
    <2>3. Satisfied(Valid(r.evidence, p, now))
      BY <1>5, <2>2, SatisfiedGrows
    <2>4. now < r.expiresAt /\ now < r.nextAt
      BY <1>2, <1>3, <1>5, <2>1, RuntimeAssumption
    <2> HIDE DEF c, r, p
    <2>5. RunsUnderAuthority(c)
      BY <1>4, <2>3, <2>4 DEF RunsUnderAuthority
    <2> QED BY <1>2, <1>4, <2>5 DEF CallIsLawful, LiveCopy
  <1> HIDE DEF c, u
  <1> QED BY <1>1, <1>4, <1>6, <1>7, LawfulWriteStep, LawfulStep

\* The executor sends its attempt, or returns.
LEMMA LawfulExecutor ==
    ASSUME EffectInvariant, CallInvariant, NEW w \in Workers,
           Submit(w) \/ \E reply \in ExecutionReply : ExecutorReturns(w, reply)
    PROVE  CallInvariant'
  <1> DEFINE p == calls[w].p
             r == calls[w].rec
             c == Suspend("await", p, r, 0)
  <1>1. /\ calls[w].pc \in {"run", "await"}
        /\ UNCHANGED <<proposals, keys, now>>
        /\ \/ Goto(w, c)
           \/ \E reply \in ExecutionReply :
                Goto(w, Write(p, r, SettledExecution(r, reply, now), "idle", 0))
    BY DEF Submit, ExecutorReturns, store
  <1>2. LiveCopy(r) /\ r.status = "executing" /\ now \in Nat
    BY <1>1, CallIsLive DEF CallIsJustified
  <1> HIDE DEF r
  <1>3. CallIsLawful(c) /\ c.pc = "await"
    BY <1>2, LawfulSuspension
  <1>4. \A reply \in ExecutionReply :
           LawfulWrite(r, SettledExecution(r, reply, now), "idle")
    BY <1>2, SettlingIsLawful
  <1> HIDE DEF c
  <1> QED BY <1>1, <1>3, <1>4, LawfulWriteStep, LawfulStep

\* reconcile with a verification_pending record in hand.
LEMMA LawfulDue ==
    ASSUME EffectInvariant, CallInvariant, NEW w \in Workers, NEW p, NEW r,
           LiveCopy(r), r.status = "verification_pending", NEW at \in Nat,
           Goto(w, Due(p, r, at)), UNCHANGED <<proposals, keys, now>>
    PROVE  CallInvariant'
  <1>1. CASE Due(p, r, at) = NoCall
    BY <1>1, EndStep DEF Return
  <1>2. ASSUME NEW u \in StoredProposal, NEW next \in {"idle", "verify"},
               NEW t \in Nat,
               Due(p, r, at) = Write(p, r, u, next, t), LawfulWrite(r, u, next)
        PROVE  CallInvariant'
    <2>1. Goto(w, Write(p, r, u, next, t))
      BY <1>2
    <2> QED BY <1>2, <2>1, LawfulWriteStep
  <1> QED BY <1>1, <1>2, DueIsLawful

\* reconcile, from a call or as the end of resume_verification.
LEMMA LawfulReconcile ==
    ASSUME EffectInvariant, CallInvariant, NEW w \in Workers, NEW p \in Proposals,
           Reconcile(w, p)
    PROVE  CallInvariant'
  <1> DEFINE r == proposals[p]
             u == Move(r, "verification_pending")
  <1>1. /\ UNCHANGED <<proposals, keys, now>>
        /\ \/ Return(w)
           \/ /\ r.erasure = "none" /\ r.status = "verification_pending"
              /\ Goto(w, Due(p, r, now))
           \/ /\ r.erasure = "none" /\ r.status \in {"executing", "failed_unknown"}
              /\ r.status = "executing" => ~Leased(r, now)
              /\ Goto(w, Write(p, r, u, "due", now))
    BY DEF Reconcile, Return, store
  <1>2. r.erasure = "none" => LiveCopy(r)
    BY RowIsLive
  <1>3. now \in Nat
    BY DEF EffectInvariant, TypeOK
  <1> HIDE DEF r, u
  <1>4. CASE Return(w)
    BY <1>1, <1>4, EndStep
  <1>5. CASE /\ r.erasure = "none" /\ r.status = "verification_pending"
             /\ Goto(w, Due(p, r, now))
    BY <1>1, <1>2, <1>3, <1>5, LawfulDue
  <1>6. CASE /\ r.erasure = "none" /\ r.status \in {"executing", "failed_unknown"}
             /\ r.status = "executing" => ~Leased(r, now)
             /\ Goto(w, Write(p, r, u, "due", now))
    <2>1. LawfulWrite(r, u, "due")
      BY <1>2, <1>3, <1>6, TakeoverIsLawful DEF u
    <2> QED BY <1>1, <1>6, <2>1, LawfulWriteStep
  <1> QED BY <1>1, <1>4, <1>5, <1>6

\* reconcile goes on, the operator resumes.
LEMMA LawfulReconcileDue ==
    ASSUME EffectInvariant, CallInvariant, NEW w \in Workers, ReconcileDue(w)
    PROVE  CallInvariant'
  <1>1. /\ calls[w].pc = "due"
        /\ UNCHANGED <<proposals, keys, now>>
        /\ Goto(w, Due(calls[w].p, calls[w].rec, calls[w].at))
    BY DEF ReconcileDue, store
  <1>2. /\ LiveCopy(calls[w].rec)
        /\ calls[w].at \in Nat
        /\ calls[w].rec.status = "verification_pending"
    BY <1>1, CallIsLive DEF CallIsJustified
  <1> QED BY <1>1, <1>2, LawfulDue

\* resume_verification reopens the bounded verification of a row.
LEMMA LawfulResume ==
    ASSUME EffectInvariant, CallInvariant, NEW w \in Workers, NEW p \in Proposals,
           ResumeVerification(w, p)
    PROVE  CallInvariant'
  <1> DEFINE r == proposals[p]
             u == Resumed(r, now)
  <1>1. /\ r.erasure = "none"
        /\ r.status \in OperatorRecoveryAvailable
        /\ UNCHANGED <<proposals, keys, now>>
        /\ Goto(w, Write(p, r, u, "observe", 0))
    BY DEF ResumeVerification, Begin, store
  <1>2. LiveCopy(r) /\ now \in Nat
    BY <1>1, RowIsLive DEF EffectInvariant, TypeOK
  <1>3. LawfulWrite(r, u, "observe")
    BY <1>1, <1>2, ResumingIsLawful
  <1> HIDE DEF r, u
  <1> QED BY <1>1, <1>3, LawfulWriteStep

\* The verifier answers.
LEMMA LawfulVerify ==
    ASSUME EffectInvariant, CallInvariant, NEW w \in Workers,
           NEW result \in VerificationReport, NEW items,
           NEW idempotent \in BOOLEAN, Verify(w, result, items, idempotent)
    PROVE  CallInvariant'
  <1> DEFINE p == calls[w].p
             r == calls[w].rec
             at == calls[w].at
             u == SettledVerification(r, result, items, idempotent, at)
  <1>1. /\ calls[w].pc = "verify"
        /\ UNCHANGED <<proposals, keys, now>>
        /\ Goto(w, Write(p, r, u, "idle", 0))
    BY DEF Verify, store
  <1>2. /\ LiveCopy(r) /\ r.status = "verification_pending"
        /\ AnswerIsOwed(r) /\ at \in Nat
    BY <1>1, CallIsLive DEF CallIsJustified, CallIsLawful
  <1> HIDE DEF r, at
  <1>3. LawfulWrite(r, u, "idle")
    BY <1>2, VerifyingIsLawful
  <1> HIDE DEF u
  <1> QED BY <1>1, <1>3, LawfulWriteStep

\* The target decides, the clock advances, or nothing happens.
LEMMA LawfulSurroundings ==
    ASSUME EffectInvariant, CallInvariant,
           UNCHANGED <<proposals, keys, calls>>,
           now' = now \/ now' = now + 1
    PROVE  CallInvariant'
  <1> USE DEF CallInvariant
  <1>1. now \in Nat /\ \A w \in Workers : calls[w].rec.nextAt \in Int
    <2>1. \A w \in Workers : calls[w].rec \in StoredProposal
      BY DEF EffectInvariant, TypeOK, Call
    <2> QED BY <2>1 DEF EffectInvariant, TypeOK, StoredProposal
  <1>2. CallsAreLawful'
    <2> SUFFICES ASSUME NEW v \in Workers PROVE CallIsLawful(calls[v])'
      BY DEF CallsAreLawful
    <2>1. CallIsLawful(calls[v])
      BY DEF CallsAreLawful
    <2>2. calls[v].rec.nextAt <= now => calls[v].rec.nextAt <= now'
      BY <1>1
    <2> QED BY <2>1, <2>2 DEF CallIsLawful, WriteIsLawful
  <1>3. VerifiersAreExclusive'
    BY DEF VerifiersAreExclusive
  <1>4. ErasedRowsAreSettled' /\ KeysFollowErasure' /\ RowsAreCounted'
    BY DEF ErasedRowsAreSettled, KeysFollowErasure, RowsAreCounted, Stored
  <1> QED BY <1>2, <1>3, <1>4

-----------------------------------------------------------------------------
(* Steps that change a row. *)

\* A row is replaced, and never comes back from erasure.
LEMMA LawfulRow ==
    ASSUME EffectInvariant, CallInvariant, NEW p \in Proposals, NEW u,
           proposals' = [proposals EXCEPT ![p] = u], now' = now,
           AnswersAreCounted(u),
           proposals[p].erasure # "none" => u.erasure # "none",
           u.erasure # "none" => u.status \in Erasable,
           p \in keys' \/ u.erasure # "none",
           keys \subseteq keys',
           \A v \in Workers : calls'[v] = calls[v] \/ CallIsLawful(calls[v])',
           VerifiersAreExclusive'
    PROVE  CallInvariant'
  <1> USE DEF CallInvariant
  <1>1. /\ proposals'[p] = u
        /\ \A q \in Proposals : q # p => proposals'[q] = proposals[q]
    BY DEF EffectInvariant, TypeOK
  <1>2. CallsAreLawful'
    <2> SUFFICES ASSUME NEW v \in Workers, calls'[v] = calls[v]
                 PROVE  CallIsLawful(calls[v])'
      BY DEF CallsAreLawful
    <2>1. CallIsLawful(calls[v])
      BY DEF CallsAreLawful
    <2>2. calls[v].pc # "idle" => calls[v].p \in Proposals
      BY CallIsFaithful
    <2>3. calls[v].pc \in {"destroy", "tombstone"} =>
             proposals'[calls[v].p].erasure # "none"
      BY <1>1, <2>1, <2>2 DEF CallIsLawful
    <2> QED BY <2>1, <2>3 DEF CallIsLawful, WriteIsLawful
  <1>3. ErasedRowsAreSettled'
    BY <1>1 DEF ErasedRowsAreSettled
  <1>4. KeysFollowErasure'
    BY <1>1, <1>3 DEF KeysFollowErasure, ErasedRowsAreSettled, Stored, Erasable,
                      ReconciliationAvailable
  <1>5. RowsAreCounted'
    BY <1>1 DEF RowsAreCounted
  <1> QED BY <1>2, <1>3, <1>4, <1>5

\* A stored row that is not being erased has its keys.
LEMMA LiveRowHasKeys ==
    ASSUME CallInvariant, NEW p \in Proposals, Stored(p),
           proposals[p].erasure = "none"
    PROVE  p \in keys
  BY DEF CallInvariant, KeysFollowErasure

\* A fresh row.
LEMMA PreparedIsLawful ==
    ASSUME NEW at
    PROVE  AnswersAreCounted(Prepared(at)) /\ Prepared(at).erasure = "none"
  BY NoAnswers, RuntimeAssumption DEF AnswersAreCounted, Prepared

\* A proposal without a row has no erasure under way.
LEMMA AbsentIsNotErased ==
    ASSUME CallInvariant, NEW p \in Proposals, ~Stored(p)
    PROVE  proposals[p].erasure = "none"
  BY DEF CallInvariant, ErasedRowsAreSettled, Stored, Erasable, LifecycleStatus

\* prepare creates a row.
LEMMA LawfulPrepare ==
    ASSUME EffectInvariant, CallInvariant, NEW p \in Proposals, NEW at,
           Prepare(p, at)
    PROVE  CallInvariant'
  <1> DEFINE u == Prepared(at)
  <1>1. /\ ~Stored(p)
        /\ proposals' = [proposals EXCEPT ![p] = u]
        /\ now' = now /\ calls' = calls /\ keys' = keys \cup {p}
    BY DEF Prepare
  <1>2. AnswersAreCounted(u) /\ u.erasure = "none"
    BY PreparedIsLawful
  <1>3. proposals[p].erasure = "none"
    BY <1>1, AbsentIsNotErased
  <1>4. VerifiersAreExclusive'
    BY <1>1 DEF CallInvariant, VerifiersAreExclusive
  <1> HIDE DEF u
  <1> QED BY <1>1, <1>2, <1>3, <1>4, LawfulRow

\* _supersede_stale persists the replacement.
LEMMA LawfulReplacement ==
    ASSUME EffectInvariant, CallInvariant, NEW w \in Workers,
           NEW fresh \in Proposals, PersistReplacement(w, fresh)
    PROVE  CallInvariant'
  <1> DEFINE p == calls[w].p
             r == calls[w].rec
             f == Prepared(calls[w].at)
             u == [Move(r, "superseded") EXCEPT !.supersededBy = fresh]
             c == Write(p, r, u, "idle", 0)
  <1>1. /\ calls[w].pc = "replace"
        /\ ~Stored(fresh)
        /\ proposals' = [proposals EXCEPT ![fresh] = f]
        /\ keys' = keys \cup {fresh} /\ now' = now
        /\ calls' = [calls EXCEPT ![w] = c]
    BY DEF PersistReplacement, Goto
  <1>2. LiveCopy(r) /\ r.status = "stale"
    BY <1>1, CallIsLive DEF CallIsJustified
  <1>3. AnswersAreCounted(f) /\ f.erasure = "none"
    BY PreparedIsLawful
  <1>4. proposals[fresh].erasure = "none"
    BY <1>1, AbsentIsNotErased
  <1>5. LawfulWrite(r, u, "idle")
    BY <1>2, SupersedingIsLawful
  <1>6. c.pc = "cas" /\ c.rec = r /\ c.write = u /\ c.next = "idle"
    BY DEF Write
  <1> HIDE DEF c, f, u
  <1>7. calls'[w] = c /\ \A v \in Workers : v # w => calls'[v] = calls[v]
    BY <1>1 DEF EffectInvariant, TypeOK
  <1>8. VerifiersAreExclusive'
    BY <1>6, <1>7 DEF CallInvariant, VerifiersAreExclusive
  <1>9. CallIsLawful(calls[w])'
    BY <1>1, <1>5, <1>6, <1>7 DEF CallIsLawful, WriteIsLawful, LawfulWrite
  <1> QED BY <1>1, <1>3, <1>4, <1>7, <1>8, <1>9, LawfulRow

\* A compare-and-set.
LEMMA LawfulCas ==
    ASSUME EffectInvariant, CallInvariant, NEW w \in Workers, Cas(w)
    PROVE  CallInvariant'
  <1> DEFINE p == calls[w].p
             r == calls[w].rec
             u == calls[w].write
             next == calls[w].next
             n == IF next = "idle" THEN NoCall
                  ELSE Suspend(next, p, u, calls[w].at)
  <1>1. /\ calls[w].pc = "cas"
        /\ UNCHANGED <<claims, now, keys>>
    BY DEF Cas
  <1>2. /\ FaithfulCopy(p, r) /\ WriteIsJustified(calls[w])
        /\ LiveCopy(r) /\ WriteIsLawful(calls[w])
        /\ p \in Proposals /\ u \in StoredProposal
    BY <1>1, CallIsLive, CallIsFaithful DEF CallIsJustified, CallIsLawful
  <1>3. CASE ~Accepts(p, r, u)
    <2>1. Return(w) /\ proposals' = proposals
      BY <1>3 DEF Cas, CompareAndSet
    <2> QED BY <1>1, <2>1, EndStep
  <1>4. CASE Accepts(p, r, u)
    <2>1. proposals[p] = r /\ Stored(p)
      BY <1>2, <1>4 DEF Accepts, Matches, FaithfulCopy
    <2>2. /\ proposals' = [proposals EXCEPT ![p] = u]
          /\ calls' = [calls EXCEPT ![w] = n]
      BY <1>4 DEF Cas, CompareAndSet, Goto, Return
    <2>3. next \in {"idle", "due", "verify", "observe", "replace"}
      BY <1>2 DEF WriteIsJustified
    <2>4. /\ n.pc = next
          /\ next # "idle" => n.p = p /\ n.rec = u
          /\ next = "idle" => n.rec = AbsentProposal
      BY DEF NoCall, Suspend
    <2> HIDE DEF n
    <2>5. /\ calls'[w] = n
          /\ \A v \in Workers : v # w => calls'[v] = calls[v]
      BY <2>2 DEF EffectInvariant, TypeOK
    <2>6. /\ AnswersAreCounted(u) /\ u.erasure = "none"
          /\ next = "verify" => AnswerIsOwed(u)
      BY <1>2 DEF WriteIsLawful
    <2>7. AnswersAreCounted(AbsentProposal)
      BY NoAnswers, RuntimeAssumption DEF AnswersAreCounted, AbsentProposal
    <2>8. CallIsLawful(calls[w])'
      BY <2>3, <2>4, <2>5, <2>6, <2>7 DEF CallIsLawful
    <2>9. VerifiersAreExclusive'
      <3>1. u.revision = proposals[p].revision + 1 /\ proposals[p].revision \in Nat
        BY <1>2, <2>1, AttemptsTyped DEF WriteIsJustified
      <3>2. \A v \in Workers : calls[v].pc # "idle" /\ calls[v].p = p =>
               calls[v].rec.revision <= proposals[p].revision
        BY CallIsFaithful DEF FaithfulCopy
      <3>3. \A v \in Workers : calls[v].rec.revision \in Nat
        BY AttemptsTyped
      <3>4. \A v \in Workers : calls[v].pc = "verify" /\ calls[v].p = p =>
               calls[v].rec.revision # u.revision
        <4> HIDE DEF p, u
        <4> QED BY <3>1, <3>2, <3>3
      <3> HIDE DEF p, u, next
      <3> QED BY <2>4, <2>5, <3>4 DEF CallInvariant, VerifiersAreExclusive
    <2>10. p \in keys
      BY <1>2, <2>1, LiveRowHasKeys DEF LiveCopy
    <2>11. proposals[p].erasure = "none"
      BY <1>2, <2>1 DEF LiveCopy
    <2> HIDE DEF p, u
    <2> QED BY <1>1, <1>2, <2>2, <2>5, <2>6, <2>8, <2>9, <2>10, <2>11, LawfulRow
  <1> QED BY <1>3, <1>4

\* Entering executing starts a lease and a new count.
LEMMA ExecutingIsLawful ==
    ASSUME NEW r, LiveCopy(r), NEW at \in Nat
    PROVE  LET x == Executing(r, at)
           IN  /\ x.erasure = "none" /\ x.evidence = r.evidence
               /\ x.nextAt = at + Lease
               /\ IsPrefix(r.receipts, x.receipts)
               /\ AnswersAreCounted(x)
  <1> DEFINE m == MoveWith(r, "executing", "started")
             x == Executing(r, at)
  <1>1. /\ r \in StoredProposal /\ r.receipts \in Seq(ReceiptKind)
        /\ r.attempts \in Nat
    BY DEF LiveCopy, StoredProposal
  <1>2. x = [m EXCEPT !.nextAt = at + Lease]
    BY DEF Executing
  <1>3. /\ m \in StoredProposal
        /\ m.evidence = r.evidence /\ m.erasure = r.erasure
        /\ m.receipts = Append(r.receipts, "started") /\ m.attempts = r.attempts
    <2>1. "executing" \in LifecycleStatus /\ "started" \in ReceiptKind
      BY DEF LifecycleStatus, ReceiptKind
    <2> QED BY <1>1, <2>1, MoveFields, MoveWithType
  <1> HIDE DEF m, x
  <1>4. /\ x.evidence = r.evidence /\ x.erasure = r.erasure
        /\ x.receipts = Append(r.receipts, "started") /\ x.attempts = r.attempts
        /\ x.nextAt = at + Lease
    BY <1>2, <1>3 DEF StoredProposal
  <1>5. IsPrefix(r.receipts, x.receipts)
    BY <1>1, <1>4, AppendIsPrefix DEF ReceiptKind
  <1>6. Cardinality(AnswersSinceRestart(x.receipts)) = 0
    BY <1>1, <1>4, RestartForgets
  <1>7. AnswersAreCounted(x)
    BY <1>1, <1>4, <1>6, RuntimeAssumption DEF AnswersAreCounted, LiveCopy
  <1> QED BY <1>4, <1>5, <1>7 DEF LiveCopy, x

\* admit_execution.
LEMMA LawfulAdmit ==
    ASSUME EffectInvariant, CallInvariant, NEW w \in Workers, Admit(w)
    PROVE  CallInvariant'
  <1> DEFINE p == calls[w].p
             r == calls[w].rec
             at == calls[w].at
             x == Executing(r, at)
             c == [calls[w] EXCEPT !.pc = "dispatch", !.rec = x]
  <1>1. calls[w].pc = "admit" /\ UNCHANGED <<now, keys>>
    BY DEF Admit
  <1>2. /\ LiveCopy(r) /\ CallIsLawful(calls[w]) /\ FaithfulCopy(p, r)
        /\ p \in Proposals /\ at \in Nat
    BY <1>1, CallIsLive, CallIsFaithful
  <1>3. \/ Return(w) /\ UNCHANGED proposals
        \/ /\ Admissible(p, r, at, x)
           /\ proposals' = [proposals EXCEPT ![p] = x]
           /\ calls' = [calls EXCEPT ![w] = c]
    BY DEF Admit, Goto
  <1>4. CASE Return(w) /\ UNCHANGED proposals
    BY <1>1, <1>4, EndStep
  <1>5. CASE /\ Admissible(p, r, at, x)
             /\ proposals' = [proposals EXCEPT ![p] = x]
             /\ calls' = [calls EXCEPT ![w] = c]
    <2>1. Stored(p) /\ proposals[p].erasure = "none"
      BY <1>5 DEF Admissible
    <2>2. /\ x.erasure = "none" /\ x.evidence = r.evidence
          /\ x.nextAt = at + Lease
          /\ AnswersAreCounted(x)
      BY <1>2, ExecutingIsLawful
    <2> HIDE DEF x
    <2>3. /\ c.pc = "dispatch" /\ c.rec = x /\ c.at = at
          /\ c.valid = calls[w].valid
      BY AttemptsTyped DEF Call
    <2>4. calls[w].valid \subseteq r.evidence /\ Satisfied(calls[w].valid)
      BY <1>1, <1>2 DEF CallIsLawful
    <2> HIDE DEF c
    <2>5. /\ calls'[w] = c
          /\ \A v \in Workers : v # w => calls'[v] = calls[v]
      BY <1>5 DEF EffectInvariant, TypeOK
    <2>6. CallIsLawful(calls[w])'
      BY <2>2, <2>3, <2>4, <2>5 DEF CallIsLawful
    <2>7. VerifiersAreExclusive'
      BY <2>3, <2>5 DEF CallInvariant, VerifiersAreExclusive
    <2>8. p \in keys
      BY <1>2, <2>1, LiveRowHasKeys
    <2> HIDE DEF p
    <2> QED BY <1>1, <1>2, <1>5, <2>1, <2>2, <2>5, <2>6, <2>7, <2>8, LawfulRow
  <1> QED BY <1>3, <1>4, <1>5

\* What erasure writes.
LEMMA ErasureFields ==
    ASSUME NEW r \in StoredProposal, AnswersAreCounted(r)
    PROVE  /\ ProposalWithErasurePending(r).erasure = "pending"
           /\ AnswersAreCounted(ProposalWithErasurePending(r))
           /\ ErasedProposal(r).erasure = "erased"
           /\ AnswersAreCounted(ErasedProposal(r))
  <1> DEFINE m == ProposalWithErasurePending(r)
             x == ErasedProposal(r)
  <1>1. /\ m.erasure = "pending" /\ m.receipts = r.receipts
        /\ m.attempts = r.attempts /\ m.status = r.status
    BY DEF ProposalWithErasurePending, StoredProposal
  <1>2. /\ x.erasure = "erased" /\ x.receipts = <<>>
        /\ x.attempts = r.attempts /\ x.status = r.status
    BY DEF ErasedProposal, StoredProposal
  <1>3. r.attempts \in Nat
    BY DEF StoredProposal
  <1> HIDE DEF m, x
  <1>4. AnswersAreCounted(m)
    BY <1>1 DEF AnswersAreCounted
  <1>5. AnswersAreCounted(x)
    BY <1>2, <1>3, NoAnswers, RuntimeAssumption DEF AnswersAreCounted
  <1> QED BY <1>1, <1>2, <1>4, <1>5 DEF m, x

\* erase marks the row, or finds it marked.
LEMMA LawfulErase ==
    ASSUME EffectInvariant, CallInvariant, NEW w \in Workers, NEW p \in Proposals,
           Erase(w, p)
    PROVE  CallInvariant'
  <1> DEFINE r == proposals[p]
             m == ProposalWithErasurePending(r)
  <1>1. /\ UNCHANGED <<now, keys>>
        /\ Stored(p)
        /\ \/ /\ r.status \in Erasable
              /\ proposals' = [proposals EXCEPT ![p] = m]
              /\ calls' = [calls EXCEPT ![w] = Suspend("destroy", p, proposals'[p], 0)]
           \/ /\ r.erasure = "pending"
              /\ Goto(w, Suspend("destroy", p, r, 0))
              /\ UNCHANGED proposals
    BY DEF Erase, MayMarkErasure, Goto
  <1>2. r \in StoredProposal /\ AnswersAreCounted(r)
    BY AttemptsTyped DEF CallInvariant, RowsAreCounted
  <1>3. CASE /\ r.erasure = "pending"
             /\ Goto(w, Suspend("destroy", p, r, 0))
             /\ UNCHANGED proposals
    <2> DEFINE c == Suspend("destroy", p, r, 0)
    <2>1. c.pc = "destroy" /\ c.p = p /\ c.rec = r
      BY DEF Suspend
    <2> HIDE DEF c
    <2>2. CallIsLawful(c)
      BY <1>2, <1>3, <2>1 DEF CallIsLawful
    <2> QED BY <1>1, <1>3, <2>1, <2>2, LawfulStep DEF c
  <1>4. CASE /\ r.status \in Erasable
             /\ proposals' = [proposals EXCEPT ![p] = m]
             /\ calls' = [calls EXCEPT ![w] = Suspend("destroy", p, proposals'[p], 0)]
    <2>1. m.erasure = "pending" /\ AnswersAreCounted(m) /\ m.status = r.status
      BY <1>2, ErasureFields, ErasureType
    <2> HIDE DEF m
    <2>2. proposals'[p] = m
      BY <1>4 DEF EffectInvariant, TypeOK
    <2> DEFINE c == Suspend("destroy", p, m, 0)
    <2>3. c.pc = "destroy" /\ c.p = p /\ c.rec = m
      BY DEF Suspend
    <2>4. /\ calls'[w] = c
          /\ \A v \in Workers : v # w => calls'[v] = calls[v]
      BY <1>4, <2>2 DEF EffectInvariant, TypeOK
    <2> HIDE DEF c
    <2>5. CallIsLawful(calls[w])'
      BY <2>1, <2>2, <2>3, <2>4 DEF CallIsLawful
    <2>6. VerifiersAreExclusive'
      BY <2>3, <2>4 DEF CallInvariant, VerifiersAreExclusive
    <2> HIDE DEF r
    <2> QED BY <1>1, <1>4, <2>1, <2>4, <2>5, <2>6, LawfulRow
  <1> QED BY <1>1, <1>3, <1>4

\* The keys of a row under erasure are destroyed.
LEMMA LawfulDestroyKeys ==
    ASSUME EffectInvariant, CallInvariant, NEW w \in Workers, DestroyKeys(w)
    PROVE  CallInvariant'
  <1> USE DEF CallInvariant
  <1> DEFINE p == calls[w].p
             c == [calls[w] EXCEPT !.pc = "tombstone"]
  <1>1. /\ calls[w].pc = "destroy"
        /\ keys' = keys \ {p}
        /\ calls' = [calls EXCEPT ![w] = c]
        /\ proposals' = proposals /\ now' = now
    BY DEF DestroyKeys, Goto, store
  <1>2. CallIsLawful(calls[w])
    BY DEF CallsAreLawful
  <1>3. proposals[p].erasure # "none"
    BY <1>1, <1>2 DEF CallIsLawful
  <1>4. c.pc = "tombstone" /\ c.p = p /\ c.rec = calls[w].rec
    BY AttemptsTyped DEF Call
  <1> HIDE DEF c
  <1>5. /\ calls'[w] = c
        /\ \A v \in Workers : v # w => calls'[v] = calls[v]
    BY <1>1 DEF EffectInvariant, TypeOK
  <1>6. CallsAreLawful'
    <2> SUFFICES ASSUME NEW v \in Workers PROVE CallIsLawful(calls[v])'
      BY DEF CallsAreLawful
    <2>1. CASE v = w
      BY <1>1, <1>2, <1>3, <1>4, <1>5, <2>1 DEF CallIsLawful
    <2>2. CASE v # w
      BY <1>1, <1>5, <2>2 DEF CallsAreLawful, CallIsLawful, WriteIsLawful
    <2> QED BY <2>1, <2>2
  <1>7. VerifiersAreExclusive'
    BY <1>4, <1>5 DEF VerifiersAreExclusive
  <1>8. ErasedRowsAreSettled' /\ RowsAreCounted'
    BY <1>1 DEF ErasedRowsAreSettled, RowsAreCounted
  <1>9. KeysFollowErasure'
    BY <1>1, <1>3, <1>8 DEF KeysFollowErasure, ErasedRowsAreSettled, Stored,
                            Erasable, ReconciliationAvailable
  <1> QED BY <1>6, <1>7, <1>8, <1>9

\* The tombstone replaces the row.
LEMMA LawfulCompleteErasure ==
    ASSUME EffectInvariant, CallInvariant, NEW w \in Workers, CompleteErasure(w)
    PROVE  CallInvariant'
  <1> DEFINE p == calls[w].p
             r == proposals[p]
             x == ErasedProposal(r)
  <1>1. /\ calls[w].pc = "tombstone"
        /\ Return(w) /\ UNCHANGED <<now, keys>>
        /\ \/ proposals' = proposals
           \/ /\ r.erasure = "pending"
              /\ proposals' = [proposals EXCEPT ![p] = x]
    BY DEF CompleteErasure, MayCompleteErasure
  <1>2. CASE proposals' = proposals
    BY <1>1, <1>2, EndStep
  <1>3. CASE r.erasure = "pending" /\ proposals' = [proposals EXCEPT ![p] = x]
    <2>1. p \in Proposals
      BY <1>1, CallIsFaithful
    <2>2. r \in StoredProposal /\ AnswersAreCounted(r) /\ r.status \in Erasable
      BY <1>3, <2>1, AttemptsTyped
         DEF CallInvariant, RowsAreCounted, ErasedRowsAreSettled
    <2>3. x.erasure = "erased" /\ AnswersAreCounted(x) /\ x.status = r.status
      BY <2>2, ErasureFields, ErasureType
    <2>4. NoCall.pc = "idle" /\ NoCall.rec = AbsentProposal
      BY DEF NoCall, Suspend
    <2>5. /\ calls'[w] = NoCall
          /\ \A v \in Workers : v # w => calls'[v] = calls[v]
      BY <1>1 DEF Return, Goto, EffectInvariant, TypeOK
    <2>6. AnswersAreCounted(AbsentProposal)
      BY NoAnswers, RuntimeAssumption DEF AnswersAreCounted, AbsentProposal
    <2>7. CallIsLawful(calls[w])'
      BY <2>4, <2>5, <2>6 DEF CallIsLawful
    <2>8. VerifiersAreExclusive'
      BY <2>4, <2>5 DEF CallInvariant, VerifiersAreExclusive
    <2> HIDE DEF p, r, x
    <2> QED BY <1>1, <1>3, <2>1, <2>2, <2>3, <2>5, <2>7, <2>8, LawfulRow DEF r
  <1> QED BY <1>1, <1>2, <1>3

-----------------------------------------------------------------------------
(* The invariant holds. *)

\* Nothing is stored and nobody calls at first.
LEMMA InitiallyLawful == Init => CallInvariant
  <1> SUFFICES ASSUME Init PROVE CallInvariant
    OBVIOUS
  <1>1. NoCall.pc = "idle" /\ NoCall.rec = AbsentProposal
    BY DEF NoCall, Suspend
  <1>2. /\ AbsentProposal.status = "absent" /\ AbsentProposal.erasure = "none"
        /\ AnswersAreCounted(AbsentProposal)
    BY NoAnswers, RuntimeAssumption DEF AnswersAreCounted, AbsentProposal
  <1>3. \A w \in Workers : calls[w] = NoCall
    BY DEF Init
  <1>4. \A p \in Proposals : proposals[p] = AbsentProposal
    BY DEF Init
  <1>5. CallsAreLawful
    BY <1>1, <1>2, <1>3 DEF CallsAreLawful, CallIsLawful
  <1>6. VerifiersAreExclusive
    BY <1>1, <1>3 DEF VerifiersAreExclusive
  <1>7. ErasedRowsAreSettled /\ KeysFollowErasure /\ RowsAreCounted
    BY <1>2, <1>4 DEF ErasedRowsAreSettled, KeysFollowErasure, RowsAreCounted,
                      Stored
  <1> QED BY <1>5, <1>6, <1>7 DEF CallInvariant

\* Every step preserves it.
LEMMA CallInvariantStep ==
    ASSUME EffectInvariant, CallInvariant, [Next]_vars
    PROVE  CallInvariant'
  <1>1. CASE UNCHANGED vars
    BY <1>1, LawfulSurroundings DEF vars, store
  <1>2. ASSUME NEW p \in Proposals, NEW at \in 0..now, Prepare(p, at)
        PROVE  CallInvariant'
    BY <1>2, LawfulPrepare
  <1>3. ASSUME NEW w \in Workers, NEW p \in Proposals,
               \/ \E e \in Evidence : RecordAuthority(w, p, e)
               \/ ExpireDue(w, p)
               \/ Execute(w, p)
               \/ PersistReplacement(w, p)
               \/ Reconcile(w, p)
               \/ ResumeVerification(w, p)
               \/ Erase(w, p)
        PROVE  CallInvariant'
    BY <1>3, LawfulRecordAuthority, LawfulExecute, LawfulReplacement,
       LawfulReconcile, LawfulResume, LawfulErase
  <1>4. ASSUME NEW w \in Workers,
               \/ Cas(w)
               \/ Abandon(w)
               \/ Resolve(w)
               \/ Recheck(w)
               \/ Precheck(w)
               \/ Admit(w)
               \/ Dispatch(w)
               \/ Submit(w)
               \/ \E reply \in ExecutionReply : ExecutorReturns(w, reply)
               \/ ReconcileDue(w)
               \/ DestroyKeys(w)
               \/ CompleteErasure(w)
        PROVE  CallInvariant'
    <2>1. CASE Abandon(w)
      BY <2>1, EndStep DEF Abandon, store
    <2> QED BY <1>4, <2>1, LawfulCas, LawfulResolve, LawfulRecheck,
               LawfulPrecheck, LawfulAdmit, LawfulDispatch, LawfulExecutor,
               LawfulReconcileDue, LawfulDestroyKeys, LawfulCompleteErasure
  <1>5. ASSUME NEW w \in Workers, NEW result \in VerificationReport,
               NEW items \in {"none", "succeeded", "partial"},
               NEW idempotent \in BOOLEAN,
               Verify(w, result, items, idempotent)
        PROVE  CallInvariant'
    BY <1>5, LawfulVerify
  <1>6. ASSUME NEW a \in inFlight, TargetApplies(a) \/ TargetRefuses(a)
        PROVE  CallInvariant'
    BY <1>6, LawfulSurroundings DEF TargetApplies, TargetRefuses, store
  <1>7. CASE Tick
    BY <1>7, LawfulSurroundings DEF Tick
  <1> QED BY <1>1, <1>2, <1>3, <1>4, <1>5, <1>6, <1>7 DEF Next

\* The two layers of the inductive invariant hold together: whatever workers,
\* takeovers, cancellations and erasures there are, a suspended call of the
\* runtime holds what its next write and its executor call rely on.
THEOREM RuntimeInvariantHolds == Spec => []RuntimeInvariant
  <1>1. Init => RuntimeInvariant
    BY InitiallyEffect, InitiallyLawful DEF RuntimeInvariant
  <1>2. RuntimeInvariant /\ [Next]_vars => RuntimeInvariant'
    BY EffectInvariantStep, CallInvariantStep DEF RuntimeInvariant
  <1> QED BY <1>1, <1>2, PTL DEF Spec

-----------------------------------------------------------------------------
(* What follows from it. *)

\* A matching write is valid and keeps executing to its claim, and so is a
\* matching admission: nobody ever meets StoreInvariantError.
LEMMA MatchingWritesAreAccepted == RuntimeInvariant => NoStoreInvariantError
  <1> SUFFICES ASSUME EffectInvariant, CallInvariant, NEW w \in Workers,
                      calls[w].pc \in {"cas", "admit"},
                      Matches(calls[w].p, calls[w].rec)
               PROVE  /\ calls[w].pc = "cas" =>
                           /\ calls[w].rec = proposals[calls[w].p]
                           /\ Accepts(calls[w].p, calls[w].rec, calls[w].write)
                      /\ calls[w].pc = "admit" =>
                           ValidUpdate(proposals[calls[w].p],
                                       Executing(calls[w].rec, calls[w].at))
    BY DEF RuntimeInvariant, NoStoreInvariantError
  <1> DEFINE p == calls[w].p
             r == calls[w].rec
             u == calls[w].write
             x == Executing(r, calls[w].at)
  <1>1. /\ FaithfulCopy(p, r) /\ LiveCopy(r) /\ calls[w].at \in Nat
        /\ CallIsLawful(calls[w]) /\ CallIsJustified(calls[w])
    BY CallIsFaithful, CallIsLive
  <1>2. r = proposals[p] /\ r.erasure = "none" /\ r \in StoredProposal
    BY <1>1 DEF FaithfulCopy, Matches, LiveCopy
  <1>3. ASSUME calls[w].pc = "cas" PROVE Accepts(p, r, u)
    <2>1. WriteIsLawful(calls[w]) /\ WriteIsJustified(calls[w])
      BY <1>1, <1>3 DEF CallIsLawful, CallIsJustified
    <2>2. ValidUpdate(r, u)
      BY <1>2, <2>1 DEF ValidUpdate, WriteIsLawful, WriteIsJustified
    <2> QED BY <1>2, <2>1, <2>2 DEF Accepts, WriteIsJustified
  <1>4. ASSUME calls[w].pc = "admit" PROVE ValidUpdate(r, x)
    <2>1. r.status = "authorized"
      BY <1>1, <1>4 DEF CallIsJustified
    <2>2. /\ x.erasure = "none" /\ x.evidence = r.evidence
          /\ IsPrefix(r.receipts, x.receipts)
      BY <1>1, ExecutingIsLawful
    <2>3. x.status = "executing" /\ x.revision = r.revision + 1
      BY <1>1, <1>2, ExecutingType
    <2> HIDE DEF x, r
    <2> QED BY <1>2, <2>1, <2>2, <2>3 DEF ValidUpdate, AllowedNext
  <1> QED BY <1>2, <1>3, <1>4

\* Every compare-and-set or admission that still matches its row is accepted.
THEOREM NoInvariantErrors == Spec => []NoStoreInvariantError
  BY RuntimeInvariantHolds, MatchingWritesAreAccepted, PTL

\* Executing calls are exclusive, verifying calls are, and a row is in one of
\* the two statuses.
LEMMA SettlersAreExclusive == RuntimeInvariant => OneCallCanSettle
  <1> DEFINE current(x) ==
                /\ calls[x].pc \in {"dispatch", "run", "await", "verify"}
                /\ Matches(calls[x].p, calls[x].rec)
  <1> SUFFICES ASSUME EffectInvariant, CallInvariant,
                      NEW v \in Workers, NEW w \in Workers,
                      current(v), current(w), calls[v].p = calls[w].p, v # w
               PROVE  FALSE
    BY DEF RuntimeInvariant, OneCallCanSettle
  <1>1. calls[v].rec = proposals[calls[v].p] /\ calls[w].rec = proposals[calls[w].p]
    BY CallIsFaithful DEF FaithfulCopy, Matches
  <1>2. calls[v].rec = calls[w].rec
    BY <1>1
  <1>3. CallIsJustified(calls[v]) /\ CallIsJustified(calls[w])
    BY CallIsFaithful
  <1>4. \/ {calls[v].pc, calls[w].pc} \subseteq {"dispatch", "run", "await"}
        \/ calls[v].pc = "verify" /\ calls[w].pc = "verify"
    BY <1>2, <1>3 DEF CallIsJustified
  <1> QED BY <1>2, <1>4 DEF EffectInvariant, AttemptsAreExclusive, CallInvariant,
                            VerifiersAreExclusive

\* Of the calls that execute or verify a proposal, one can write its outcome.
THEOREM OneSettler == Spec => []OneCallCanSettle
  BY RuntimeInvariantHolds, SettlersAreExclusive, PTL

\* An attempt that is not decided yet belongs to a row under reconciliation or
\* to one that is given up: a verdict of success would have its effect already.
LEMMA UndecidedAttempts ==
    ASSUME EffectInvariant, NEW a \in OpenAttempts, a \notin applied
    PROVE  /\ a.proposal \in Proposals /\ Stored(a.proposal)
           /\ claims[EffectOf[a.proposal]] = a.proposal
           /\ proposals[a.proposal].status
                \in ReconciliationAvailable \union {"verification_unresolved"}
  <1>1. a \in Attempts
    BY DEF OpenAttempts, Attempts
  <1>2. a.proposal \in Proposals /\ Stored(a.proposal)
    BY <1>1 DEF EffectInvariant, AttemptsAreKnown
  <1>3. /\ proposals[a.proposal].status \in MayHaveEffect
        /\ claims[EffectOf[a.proposal]] = a.proposal
        /\ \A b \in OpenAttempts : b.proposal = a.proposal => b = a
    BY DEF EffectInvariant, ClaimCoversOpenAttempt
  <1>4. applied \subseteq OpenAttempts
    BY DEF EffectInvariant, AttemptsAreKnown, OpenAttempts
  <1>5. proposals[a.proposal].status \notin {"verified", "partially_succeeded"}
    BY <1>2, <1>3, <1>4 DEF EffectInvariant, StatusTellsTheTruth
  <1> QED BY <1>2, <1>3, <1>5 DEF MayHaveEffect, ReconciliationAvailable

\* Keys are destroyed only under erasure, and an attempt that can still take
\* effect loses them only in verification_unresolved, where it keeps its claim.
THEOREM KeysAreKept == Spec => []KeysOutliveAttempts
  <1>1. RuntimeInvariant => KeysOutliveAttempts
    BY UndecidedAttempts DEF RuntimeInvariant, CallInvariant, KeysFollowErasure,
                             KeysOutliveAttempts
  <1> QED BY <1>1, RuntimeInvariantHolds, PTL

\* The executor runs unexpired, leased, and on evidence that satisfies the
\* approval policy at that moment.
THEOREM AuthorityCoversExecutor == Spec => []ExecutorRunsUnderAuthority
  <1>1. RuntimeInvariant => ExecutorRunsUnderAuthority
    BY DEF RuntimeInvariant, CallInvariant, CallsAreLawful, CallIsLawful,
           ExecutorRunsUnderAuthority
  <1> QED BY <1>1, RuntimeInvariantHolds, PTL

\* A verifier answers at most max_verification_attempts times between two
\* executions or operator resumes.
THEOREM VerificationBound == Spec => []VerificationsBounded
  <1>1. RuntimeInvariant => VerificationsBounded
    BY DEF RuntimeInvariant, CallInvariant, RowsAreCounted, AnswersAreCounted,
           VerificationsBounded
  <1> QED BY <1>1, RuntimeInvariantHolds, PTL

-----------------------------------------------------------------------------
(* What a step may do to a row. *)

\* A stored row changes by a lawful write over an exact copy, by admission, by
\* an erasure that starts on a settled row, or by its completion.
LEMMA RowChanges ==
    ASSUME EffectInvariant, CallInvariant, Next, NEW q \in Proposals,
           proposals'[q] # proposals[q], Stored(q)
    PROVE  \/ \E w \in Workers :
                /\ calls[w].pc = "cas"
                /\ calls[w].rec = proposals[q]
                /\ calls[w].write = proposals'[q]
           \/ /\ proposals[q].erasure = "none"
              /\ proposals[q].status \in {"authorized"} \cup Erasable
           \/ /\ proposals[q].erasure = "pending"
              /\ proposals'[q] = ErasedProposal(proposals[q])
  <1> DEFINE Goal ==
               \/ \E w \in Workers :
                    /\ calls[w].pc = "cas"
                    /\ calls[w].rec = proposals[q]
                    /\ calls[w].write = proposals'[q]
               \/ /\ proposals[q].erasure = "none"
                  /\ proposals[q].status \in {"authorized"} \cup Erasable
               \/ /\ proposals[q].erasure = "pending"
                  /\ proposals'[q] = ErasedProposal(proposals[q])
  <1> USE DEF store
  <1>0. \A p, u : proposals' = [proposals EXCEPT ![p] = u] =>
           p = q /\ (p \in Proposals => proposals'[q] = u)
    BY DEF EffectInvariant, TypeOK
  <1>1. ASSUME NEW p \in Proposals, NEW at, Prepare(p, at) PROVE Goal
    BY <1>0, <1>1 DEF Prepare
  <1>2. ASSUME NEW w \in Workers, NEW p \in Proposals, PersistReplacement(w, p)
        PROVE  Goal
    BY <1>0, <1>2 DEF PersistReplacement
  <1>3. ASSUME NEW w \in Workers, NEW p \in Proposals, Erase(w, p)
        PROVE  Goal
    <2>1. /\ MayMarkErasure(p, proposals[p])
          /\ proposals' = [proposals EXCEPT
                             ![p] = ProposalWithErasurePending(proposals[p])]
      BY <1>3 DEF Erase
    <2> QED BY <1>0, <2>1 DEF MayMarkErasure
  <1>4. ASSUME NEW w \in Workers, Cas(w) PROVE Goal
    <2>1. /\ calls[w].pc = "cas"
          /\ Accepts(calls[w].p, calls[w].rec, calls[w].write)
          /\ proposals' = [proposals EXCEPT ![calls[w].p] = calls[w].write]
      BY <1>4 DEF Cas, CompareAndSet
    <2>2. calls[w].p = q /\ proposals'[q] = calls[w].write
      BY <1>0, <2>1
    <2>3. calls[w].rec = proposals[q]
      BY <2>1, <2>2, CallIsFaithful DEF FaithfulCopy, Accepts, Matches
    <2> QED BY <2>1, <2>2, <2>3
  <1>5. ASSUME NEW w \in Workers, Admit(w) PROVE Goal
    <2> DEFINE x == Executing(calls[w].rec, calls[w].at)
    <2>1. /\ Admissible(calls[w].p, calls[w].rec, calls[w].at, x)
          /\ proposals' = [proposals EXCEPT ![calls[w].p] = x]
      BY <1>5 DEF Admit
    <2> QED BY <1>0, <2>1 DEF Admissible
  <1>6. ASSUME NEW w \in Workers, CompleteErasure(w) PROVE Goal
    <2> DEFINE p == calls[w].p
    <2>1. /\ proposals[p].erasure = "pending"
          /\ proposals' = [proposals EXCEPT ![p] = ErasedProposal(proposals[p])]
      BY <1>6 DEF CompleteErasure, MayCompleteErasure
    <2> HIDE DEF p
    <2> QED BY <1>0, <2>1
  <1>7. ASSUME NEW w \in Workers, NEW p \in Proposals,
               \/ \E e \in Evidence : RecordAuthority(w, p, e)
               \/ ExpireDue(w, p)
               \/ Execute(w, p)
               \/ Reconcile(w, p)
               \/ ResumeVerification(w, p)
        PROVE  FALSE
    BY <1>7 DEF RecordAuthority, ExpireDue, Execute, Reconcile, ResumeVerification
  <1>8. ASSUME NEW w \in Workers,
               \/ Abandon(w)
               \/ Resolve(w)
               \/ Recheck(w)
               \/ Precheck(w)
               \/ Dispatch(w)
               \/ Submit(w)
               \/ \E reply \in ExecutionReply : ExecutorReturns(w, reply)
               \/ ReconcileDue(w)
               \/ DestroyKeys(w)
        PROVE  FALSE
    BY <1>8 DEF Abandon, Resolve, Recheck, Precheck, Dispatch, Submit,
                ExecutorReturns, ReconcileDue, DestroyKeys
  <1>9. ASSUME NEW w \in Workers, NEW result \in VerificationReport,
               NEW items \in {"none", "succeeded", "partial"},
               NEW idempotent \in BOOLEAN,
               Verify(w, result, items, idempotent)
        PROVE  FALSE
    BY <1>9 DEF Verify
  <1>10. ASSUME \/ \E a \in inFlight : TargetApplies(a) \/ TargetRefuses(a)
                \/ Tick
         PROVE  FALSE
    BY <1>10 DEF TargetApplies, TargetRefuses, Tick
  <1> HIDE DEF Goal
  <1>11. Goal
    BY <1>1, <1>2, <1>3, <1>4, <1>5, <1>6, <1>7, <1>8, <1>9, <1>10 DEF Next
  <1> QED BY <1>11 DEF Goal

\* Once erasure is pending nothing but its completion changes the row: a call
\* that read the row earlier loses its compare-and-set.
THEOREM ErasedRowsFreeze == Spec => ErasureFreezes
  <1> DEFINE Freeze ==
               \A p \in Proposals :
                  proposals[p].erasure # "none" /\ proposals'[p] # proposals[p] =>
                      /\ proposals[p].erasure = "pending"
                      /\ proposals'[p] = ErasedProposal(proposals[p])
  <1>1. ASSUME RuntimeInvariant, Next PROVE Freeze
    <2> SUFFICES ASSUME NEW p \in Proposals, proposals[p].erasure # "none",
                        proposals'[p] # proposals[p]
                 PROVE  /\ proposals[p].erasure = "pending"
                        /\ proposals'[p] = ErasedProposal(proposals[p])
      OBVIOUS
    <2>1. EffectInvariant /\ CallInvariant
      BY <1>1 DEF RuntimeInvariant
    <2>2. Stored(p)
      BY <2>1, AbsentIsNotErased
    <2>3. \A w \in Workers : calls[w].pc = "cas" => calls[w].rec.erasure = "none"
      BY <2>1, CallIsLive DEF LiveCopy
    <2> QED BY <1>1, <2>1, <2>2, <2>3, RowChanges
  <1>2. RuntimeInvariant /\ [Next]_vars => [Freeze]_vars
    BY <1>1
  <1> QED BY <1>2, RuntimeInvariantHolds, PTL DEF Spec, ErasureFreezes

\* While an executor's lease runs, only an outcome of that execution moves the
\* proposal: reconcile cannot take it over.
THEOREM LeasesProtect == Spec => LeaseProtectsExecutor
  <1> DEFINE Protect ==
               \A p \in Proposals :
                  /\ proposals[p].status = "executing"
                  /\ proposals[p].nextAt > now
                  /\ proposals'[p] # proposals[p]
                  => Len(proposals'[p].receipts) = Len(proposals[p].receipts) + 1
  <1>1. ASSUME RuntimeInvariant, Next PROVE Protect
    <2> SUFFICES ASSUME NEW p \in Proposals, proposals[p].status = "executing",
                        proposals[p].nextAt > now, proposals'[p] # proposals[p]
                 PROVE  Len(proposals'[p].receipts) = Len(proposals[p].receipts) + 1
      OBVIOUS
    <2>1. EffectInvariant /\ CallInvariant
      BY <1>1 DEF RuntimeInvariant
    <2>2. Stored(p) /\ proposals[p].erasure = "none" /\ now \in Nat
      BY <2>1 DEF Stored, EffectInvariant, ExecutingIsKept, TypeOK
    <2>3. proposals[p].nextAt \in Int
      BY <2>1, AttemptsTyped DEF StoredProposal
    <2>4. PICK w \in Workers :
             /\ calls[w].pc = "cas"
             /\ calls[w].rec = proposals[p]
             /\ calls[w].write = proposals'[p]
      BY <1>1, <2>1, <2>2, RowChanges DEF Erasable
    <2>5. WriteIsLawful(calls[w])
      BY <2>1, <2>4, CallIsLive DEF CallIsLawful
    <2> QED BY <2>2, <2>3, <2>4, <2>5 DEF WriteIsLawful
  <1>2. RuntimeInvariant /\ [Next]_vars => [Protect]_vars
    BY <1>1
  <1> QED BY <1>2, RuntimeInvariantHolds, PTL DEF Spec, LeaseProtectsExecutor

-----------------------------------------------------------------------------
(* Sound records. *)

\* A copy a handler may write over, of a stored proposal.
SoundCopy(r) ==
    LiveCopy(r) /\ RecordIsSound(r) /\ r.status # "absent"

\* The absent record, and the first row of a proposal.
LEMMA FreshIsSound ==
    ASSUME NEW at \in Nat, at <= MaxTime
    PROVE  RecordIsSound(AbsentProposal) /\ RecordIsSound(Prepared(at))
  <1>1. Ttl \in Nat /\ MaxTime \in Nat
    BY RuntimeAssumption
  <1>2. RecordIsSound(AbsentProposal)
    BY <1>1 DEF RecordIsSound, AbsentProposal, ReconciliationAvailable
  <1>3. RecordIsSound(Prepared(at))
    BY <1>1 DEF RecordIsSound, Prepared, ReconciliationAvailable
  <1> QED BY <1>2, <1>3

\* A write that appends a receipt is sound when the receipt explains the status.
LEMMA SoundAppend ==
    ASSUME NEW r, SoundCopy(r), NEW u, NEW k \in ReceiptKind,
           u.receipts = Append(r.receipts, k),
           u.expiresAt = r.expiresAt,
           u.status \in ReconciliationAvailable =>
             u.nextAt # NoTime /\ u.nextAt <= MaxTime + Lease + Delay,
           u.status = "verified" => k = "verified_completion",
           u.status = "failed_known" =>
             k \in {"failed_known", "verified_terminal_failure",
                    "authoritative_final_absence"}
    PROVE  RecordIsSound(u)
  <1>1. /\ r.receipts \in Seq(ReceiptKind) /\ r.receipts # <<>>
        /\ r.receipts[1] = "prepared"
        /\ r.expiresAt <= MaxTime + Ttl
    BY DEF SoundCopy, LiveCopy, RecordIsSound, StoredProposal
  <1>2. /\ Len(r.receipts) \in Nat \ {0}
        /\ u.receipts # <<>>
        /\ u.receipts[1] = r.receipts[1]
        /\ u.receipts[Len(u.receipts)] = k
    BY <1>1
  <1> QED BY <1>1, <1>2 DEF RecordIsSound

\* So is a write without a receipt into a status that reports no outcome.
LEMMA SoundMove ==
    ASSUME NEW r, SoundCopy(r), NEW u,
           u.receipts = r.receipts,
           u.expiresAt = r.expiresAt,
           u.status \notin {"verified", "failed_known"},
           u.status \in ReconciliationAvailable =>
             u.nextAt # NoTime /\ u.nextAt <= MaxTime + Lease + Delay
    PROVE  RecordIsSound(u)
  BY DEF SoundCopy, LiveCopy, RecordIsSound

\* Moving a record leaves its expiry and schedule alone.
LEMMA MoveTimes ==
    ASSUME NEW r \in StoredProposal, NEW s, NEW k
    PROVE  /\ Move(r, s).expiresAt = r.expiresAt
           /\ Move(r, s).nextAt = r.nextAt
           /\ MoveWith(r, s, k).expiresAt = r.expiresAt
           /\ MoveWith(r, s, k).nextAt = r.nextAt
  BY DEF Move, MoveWith, StoredProposal

\* Expiry, blocking, staleness and supersession.
LEMMA ClosingIsSound ==
    ASSUME NEW r, SoundCopy(r), NEW fresh
    PROVE  /\ RecordIsSound(Move(r, "expired"))
           /\ RecordIsSound(Blocked(r))
           /\ RecordIsSound(MoveWith(r, "stale", "failed_known"))
           /\ RecordIsSound([Move(r, "superseded") EXCEPT !.supersededBy = fresh])
  <1> DEFINE e == Move(r, "expired")
             b == MoveWith(r, "blocked", "authority_failed")
             s == MoveWith(r, "stale", "failed_known")
             m == Move(r, "superseded")
             u == [m EXCEPT !.supersededBy = fresh]
  <1>1. r \in StoredProposal
    BY DEF SoundCopy, LiveCopy
  <1>2. /\ e.status = "expired" /\ e.receipts = r.receipts
        /\ e.expiresAt = r.expiresAt
    BY <1>1, MoveFields, MoveTimes
  <1>b. /\ b.status = "blocked" /\ b.receipts = Append(r.receipts, "authority_failed")
        /\ b.expiresAt = r.expiresAt
    BY <1>1, MoveFields, MoveTimes
  <1>s. /\ s.status = "stale" /\ s.receipts = Append(r.receipts, "failed_known")
        /\ s.expiresAt = r.expiresAt
    BY <1>1, MoveFields, MoveTimes
  <1>m. /\ m.status = "superseded" /\ m.receipts = r.receipts
        /\ m.expiresAt = r.expiresAt
    BY <1>1, MoveFields, MoveTimes
  <1>3. m \in StoredProposal
    BY <1>1, MoveType DEF LifecycleStatus
  <1> HIDE DEF e, b, s, m
  <1>4. /\ u.status = "superseded" /\ u.receipts = r.receipts
        /\ u.expiresAt = r.expiresAt
    BY <1>m, <1>3 DEF StoredProposal
  <1> HIDE DEF u
  <1>5. {"authority_failed", "failed_known"} \subseteq ReceiptKind
    BY DEF ReceiptKind
  <1>6. RecordIsSound(e) /\ RecordIsSound(u)
    BY <1>2, <1>4, SoundMove DEF ReconciliationAvailable
  <1>7. RecordIsSound(b)
    BY <1>b, <1>5, SoundAppend DEF ReconciliationAvailable
  <1>8. RecordIsSound(s)
    BY <1>s, <1>5, SoundAppend DEF ReconciliationAvailable
  <1> QED BY <1>6, <1>7, <1>8 DEF e, b, s, m, u, Blocked

\* A recorded decision.
LEMMA DecidedIsSound ==
    ASSUME NEW r, SoundCopy(r), NEW e \in Evidence, NEW p, NEW at
    PROVE  RecordIsSound(Decided(r, e, p, at))
  <1> DEFINE acc == r.evidence \cup {e}
             s == IF e.decision = "reject" THEN "denied"
                  ELSE IF Satisfied(Valid(acc, p, at)) THEN "authorized"
                  ELSE "awaiting_authority"
             k == IF e.decision = "reject" THEN "authority_rejected"
                                           ELSE "authority_recorded"
             m == MoveWith(r, s, k)
             u == [m EXCEPT !.evidence = acc]
  <1>1. r \in StoredProposal
    BY DEF SoundCopy, LiveCopy
  <1>2. Decided(r, e, p, at) = u
    BY DEF Decided
  <1>3. s \in {"denied", "authorized", "awaiting_authority"} /\ k \in ReceiptKind
    BY DEF ReceiptKind
  <1> HIDE DEF s, k
  <1>4. m \in StoredProposal
    <2>1. s \in LifecycleStatus
      BY <1>3 DEF LifecycleStatus
    <2> QED BY <1>1, <1>3, <2>1, MoveWithType
  <1>5. /\ m.status = s /\ m.receipts = Append(r.receipts, k)
        /\ m.expiresAt = r.expiresAt
    BY <1>1, MoveFields, MoveTimes
  <1> HIDE DEF m, acc
  <1>6. /\ u.status = s /\ u.receipts = Append(r.receipts, k)
        /\ u.expiresAt = r.expiresAt
    BY <1>4, <1>5 DEF StoredProposal
  <1> HIDE DEF u
  <1>7. RecordIsSound(u)
    BY <1>3, <1>6, SoundAppend DEF ReconciliationAvailable
  <1> QED BY <1>2, <1>7

\* A settled execution is scheduled for reconciliation or explained.
LEMMA SettlingIsSound ==
    ASSUME NEW r, SoundCopy(r), NEW reply \in ExecutionReply, NEW at \in Nat,
           at <= MaxTime
    PROVE  RecordIsSound(SettledExecution(r, reply, at))
  <1> DEFINE k == IF reply = "partially_succeeded" /\ ~Itemized
                  THEN "failed_unknown" ELSE reply
             settled(s, t) == [MoveWith(r, s, k) EXCEPT !.nextAt = t]
             u == SettledExecution(r, reply, at)
  <1>1. r \in StoredProposal
    BY DEF SoundCopy, LiveCopy
  <1>2. k \in ReceiptKind
    BY DEF ReceiptKind, ExecutionReply
  <1>3. \/ u = settled("stale", NoTime)
        \/ u = settled("failed_known", NoTime) /\ k = "failed_known"
        \/ u = settled("failed_unknown", at)
        \/ u = settled("verification_pending", at + Delay)
    BY DEF SettledExecution
  <1>4. {"stale", "failed_known", "failed_unknown", "verification_pending"}
          \subseteq LifecycleStatus
    BY DEF LifecycleStatus
  <1> HIDE DEF k, u
  <1>5. ASSUME NEW s \in LifecycleStatus, NEW t \in Int
        PROVE  /\ settled(s, t).status = s
               /\ settled(s, t).receipts = Append(r.receipts, k)
               /\ settled(s, t).expiresAt = r.expiresAt
               /\ settled(s, t).nextAt = t
    <2> DEFINE m == MoveWith(r, s, k)
    <2>1. m \in StoredProposal
      BY <1>1, <1>2, MoveWithType
    <2>2. /\ m.status = s /\ m.receipts = Append(r.receipts, k)
          /\ m.expiresAt = r.expiresAt
      BY <1>1, MoveFields, MoveTimes
    <2> HIDE DEF m
    <2>3. /\ [m EXCEPT !.nextAt = t].status = s
          /\ [m EXCEPT !.nextAt = t].receipts = Append(r.receipts, k)
          /\ [m EXCEPT !.nextAt = t].expiresAt = r.expiresAt
          /\ [m EXCEPT !.nextAt = t].nextAt = t
      BY <2>1, <2>2 DEF StoredProposal
    <2> QED BY <2>3 DEF m
  <1> HIDE DEF settled
  <1>6. /\ NoTime \in Int /\ at \in Int /\ at + Delay \in Int
        /\ at # NoTime /\ at + Delay # NoTime
        /\ at <= MaxTime + Lease + Delay
        /\ at + Delay <= MaxTime + Lease + Delay
    BY RuntimeAssumption DEF NoTime
  <1>7. CASE u = settled("stale", NoTime)
    BY <1>2, <1>4, <1>5, <1>6, <1>7, SoundAppend DEF ReconciliationAvailable, u
  <1>8. CASE u = settled("failed_known", NoTime) /\ k = "failed_known"
    BY <1>2, <1>4, <1>5, <1>6, <1>8, SoundAppend DEF ReconciliationAvailable, u
  <1>9. CASE u = settled("failed_unknown", at)
    BY <1>2, <1>4, <1>5, <1>6, <1>9, SoundAppend DEF u
  <1>10. CASE u = settled("verification_pending", at + Delay)
    BY <1>2, <1>4, <1>5, <1>6, <1>10, SoundAppend DEF u
  <1> QED BY <1>3, <1>7, <1>8, <1>9, <1>10

\* A settled verification likewise.
LEMMA VerifyingIsSound ==
    ASSUME NEW r, SoundCopy(r), NEW result \in VerificationReport, NEW items,
           NEW idempotent \in BOOLEAN, NEW at \in Nat, at <= MaxTime
    PROVE  RecordIsSound(SettledVerification(r, result, items, idempotent, at))
  <1> DEFINE s == VerificationTransition(r, result, items, idempotent)
             m == MoveWith(r, s, result)
             u == SettledVerification(r, result, items, idempotent, at)
  <1>1. r \in StoredProposal
    BY DEF SoundCopy, LiveCopy
  <1>2. /\ s \in {"verified", "partially_succeeded", "failed_known", "authorized",
                   "verification_unresolved", "verification_pending"}
        /\ s = "verified" => result = "verified_completion"
        /\ s = "failed_known" => result \in {"verified_terminal_failure",
                                             "authoritative_final_absence"}
    BY DEF VerificationTransition, VerificationReport
  <1>3. s \in LifecycleStatus /\ result \in ReceiptKind
    BY <1>2 DEF LifecycleStatus, ReceiptKind, VerificationReport
  <1>4. u = [m EXCEPT !.attempts = IF s = "authorized" THEN 0 ELSE m.attempts,
                      !.nextAt = IF s = "verification_pending" THEN at + Delay
                                                               ELSE NoTime]
    BY DEF SettledVerification
  <1> HIDE DEF s
  <1>5. m \in StoredProposal
    BY <1>1, <1>3, MoveWithType
  <1>6. /\ m.status = s /\ m.receipts = Append(r.receipts, result)
        /\ m.expiresAt = r.expiresAt
    BY <1>1, MoveFields, MoveTimes
  <1> HIDE DEF m, u
  <1>7. /\ u.status = s /\ u.receipts = Append(r.receipts, result)
        /\ u.expiresAt = r.expiresAt
        /\ s = "verification_pending" => u.nextAt = at + Delay
    BY <1>4, <1>5, <1>6 DEF StoredProposal
  <1>8. at + Delay # NoTime /\ at + Delay <= MaxTime + Lease + Delay
    BY RuntimeAssumption DEF NoTime
  <1> QED BY <1>2, <1>3, <1>7, <1>8, SoundAppend DEF ReconciliationAvailable, u

\* An operator's resume, an execution's lease, a takeover and Due's writes
\* carry a time.
LEMMA ResumingIsSound ==
    ASSUME NEW r, SoundCopy(r), NEW at \in Nat, at <= MaxTime
    PROVE  RecordIsSound(Resumed(r, at))
  <1> DEFINE m == MoveWith(r, "verification_pending", "verification_resumed")
             u == Resumed(r, at)
  <1>1. r \in StoredProposal
    BY DEF SoundCopy, LiveCopy
  <1>2. u = [m EXCEPT !.attempts = 0, !.nextAt = at]
    BY DEF Resumed
  <1>3. m \in StoredProposal
    BY <1>1, MoveWithType DEF LifecycleStatus, ReceiptKind
  <1>4. /\ m.status = "verification_pending" /\ m.expiresAt = r.expiresAt
        /\ m.receipts = Append(r.receipts, "verification_resumed")
    BY <1>1, MoveFields, MoveTimes
  <1> HIDE DEF m, u
  <1>5. /\ u.status = "verification_pending" /\ u.expiresAt = r.expiresAt
        /\ u.receipts = Append(r.receipts, "verification_resumed")
        /\ u.nextAt = at
    BY <1>2, <1>3, <1>4 DEF StoredProposal
  <1>6. at # NoTime /\ at <= MaxTime + Lease + Delay
    BY RuntimeAssumption DEF NoTime
  <1>7. "verification_resumed" \in ReceiptKind
    BY DEF ReceiptKind
  <1> QED BY <1>5, <1>6, <1>7, SoundAppend DEF u

\* The row that admission writes ends its receipts as an executing row does.
LEMMA ExecutingIsSound ==
    ASSUME NEW r, SoundCopy(r), NEW at \in Nat, at <= MaxTime
    PROVE  RecordIsSound(Executing(r, at))
  <1> DEFINE m == MoveWith(r, "executing", "started")
             u == Executing(r, at)
  <1>1. r \in StoredProposal
    BY DEF SoundCopy, LiveCopy
  <1>2. u = [m EXCEPT !.nextAt = at + Lease]
    BY DEF Executing
  <1>3. m \in StoredProposal
    BY <1>1, MoveWithType DEF LifecycleStatus, ReceiptKind
  <1>4. /\ m.status = "executing" /\ m.expiresAt = r.expiresAt
        /\ m.receipts = Append(r.receipts, "started")
    BY <1>1, MoveFields, MoveTimes
  <1> HIDE DEF m, u
  <1>5. /\ u.status = "executing" /\ u.expiresAt = r.expiresAt
        /\ u.receipts = Append(r.receipts, "started")
        /\ u.nextAt = at + Lease
    BY <1>2, <1>3, <1>4 DEF StoredProposal
  <1>6. at + Lease # NoTime /\ at + Lease <= MaxTime + Lease + Delay
    BY RuntimeAssumption DEF NoTime
  <1>7. "started" \in ReceiptKind
    BY DEF ReceiptKind
  <1> QED BY <1>5, <1>6, <1>7, SoundAppend DEF u

\* The row reconcile takes over keeps its times and its evidence of a start.
LEMMA TakeoverIsSound ==
    ASSUME NEW r, SoundCopy(r), r.status \in ReconciliationAvailable
    PROVE  RecordIsSound(Move(r, "verification_pending"))
  <1> DEFINE u == Move(r, "verification_pending")
  <1>1. r \in StoredProposal
    BY DEF SoundCopy, LiveCopy
  <1>2. u.status = "verification_pending" /\ u.receipts = r.receipts
    BY <1>1, MoveFields
  <1>3. u.expiresAt = r.expiresAt /\ u.nextAt = r.nextAt
    BY <1>1, MoveTimes
  <1>4. r.nextAt # NoTime /\ r.nextAt <= MaxTime + Lease + Delay
    BY DEF SoundCopy, RecordIsSound
  <1> HIDE DEF u
  <1> QED BY <1>2, <1>3, <1>4, SoundMove DEF u

\* What a due verification computes to write is sound at the time it was read.
LEMMA DueIsSound ==
    ASSUME NEW p, NEW r, SoundCopy(r), NEW at \in Nat, at <= MaxTime
    PROVE  /\ Due(p, r, at).at <= MaxTime
           /\ RecordIsSound(Due(p, r, at).rec)
           /\ RecordIsSound(Due(p, r, at).write)
  <1> DEFINE mu == Move(r, "verification_unresolved")
             mp == Move(r, "verification_pending")
             uu == [mu EXCEPT !.nextAt = NoTime]
             up == [mp EXCEPT !.nextAt = at + Lease, !.attempts = mp.attempts + 1]
  <1>1. r \in StoredProposal /\ RecordIsSound(r)
    BY DEF SoundCopy, LiveCopy
  <1>2. /\ mu.status = "verification_unresolved" /\ mu.receipts = r.receipts
        /\ mu.expiresAt = r.expiresAt
    BY <1>1, MoveFields, MoveTimes
  <1>3. /\ mp.status = "verification_pending" /\ mp.receipts = r.receipts
        /\ mp.expiresAt = r.expiresAt
    BY <1>1, MoveFields, MoveTimes
  <1>4. mu \in StoredProposal /\ mp \in StoredProposal
    BY <1>1, MoveType DEF LifecycleStatus
  <1>5. \/ Due(p, r, at) = NoCall
        \/ Due(p, r, at) = Write(p, r, uu, "idle", 0)
        \/ Due(p, r, at) = Write(p, r, up, "verify", at)
    BY DEF Due
  <1> HIDE DEF mu, mp
  <1>6. /\ uu.status = "verification_unresolved" /\ uu.receipts = r.receipts
        /\ uu.expiresAt = r.expiresAt
    BY <1>2, <1>4 DEF StoredProposal
  <1>7. /\ up.status = "verification_pending" /\ up.receipts = r.receipts
        /\ up.expiresAt = r.expiresAt /\ up.nextAt = at + Lease
    BY <1>3, <1>4 DEF StoredProposal
  <1>8. at + Lease # NoTime /\ at + Lease <= MaxTime + Lease + Delay /\ 0 <= MaxTime
    BY RuntimeAssumption DEF NoTime
  <1> HIDE DEF uu, up
  <1>9. RecordIsSound(uu)
    BY <1>6, SoundMove DEF ReconciliationAvailable
  <1>10. RecordIsSound(up)
    BY <1>7, <1>8, SoundMove
  <1>11. RecordIsSound(AbsentProposal)
    BY FreshIsSound, RuntimeAssumption
  <1> QED BY <1>1, <1>5, <1>8, <1>9, <1>10, <1>11 DEF NoCall, Suspend, Write

-----------------------------------------------------------------------------
(* One lemma per handler step. *)

\* A call, and what it carries, is sound.
SoundCall(c) ==
    c.at <= MaxTime /\ RecordIsSound(c.rec) /\ RecordIsSound(c.write)

\* A suspended call and a pending write.
LEMMA SoundCalls ==
    ASSUME NEW pc, NEW p, NEW r, RecordIsSound(r), NEW u, RecordIsSound(u),
           NEW next, NEW at \in Nat, at <= MaxTime
    PROVE  /\ SoundCall(Suspend(pc, p, r, at))
           /\ SoundCall(Suspend(pc, p, r, 0))
           /\ SoundCall(Write(p, r, u, next, at))
           /\ SoundCall(Write(p, r, u, next, 0))
           /\ SoundCall(NoCall)
  <1>1. 0 <= MaxTime /\ RecordIsSound(AbsentProposal)
    BY FreshIsSound, RuntimeAssumption
  <1> QED BY <1>1 DEF SoundCall, Suspend, Write, NoCall

\* A call changes, and with it at most one row.
LEMMA SoundStep ==
    ASSUME EffectInvariant, RecordInvariant, now' = now,
           \/ proposals' = proposals
           \/ \E p \in Proposals : \E u :
                proposals' = [proposals EXCEPT ![p] = u] /\ RecordIsSound(u),
           \/ calls' = calls
           \/ \E w \in Workers : \E c :
                calls' = [calls EXCEPT ![w] = c] /\ SoundCall(c)
    PROVE  RecordInvariant'
  <1>1. \A p \in Proposals : RecordIsSound(proposals'[p])
    BY DEF RecordInvariant, EffectInvariant, TypeOK
  <1>2. \A w \in Workers : SoundCall(calls[w])
    BY DEF RecordInvariant, SoundCall
  <1>3. \A w \in Workers : SoundCall(calls'[w])
    BY <1>2 DEF EffectInvariant, TypeOK
  <1> QED BY <1>1, <1>3 DEF RecordInvariant, SoundCall

\* The row and the copies a step starts from.
LEMMA SoundCopies ==
    ASSUME EffectInvariant, CallInvariant, RecordInvariant
    PROVE  /\ \A p \in Proposals :
                Stored(p) /\ proposals[p].erasure = "none" => SoundCopy(proposals[p])
           /\ \A w \in Workers :
                calls[w].pc \notin {"idle", "destroy", "tombstone", "observe"} =>
                  SoundCopy(calls[w].rec)
           /\ \A w \in Workers : calls[w].at \in Nat /\ calls[w].at <= MaxTime
           /\ now \in Nat /\ now <= MaxTime
  <1>1. \A p \in Proposals :
           Stored(p) /\ proposals[p].erasure = "none" => SoundCopy(proposals[p])
    BY RowIsLive DEF SoundCopy, RecordInvariant, Stored
  <1>2. ASSUME NEW w \in Workers,
               calls[w].pc \notin {"idle", "destroy", "tombstone", "observe"}
        PROVE  SoundCopy(calls[w].rec)
    <2>1. LiveCopy(calls[w].rec) /\ CallIsJustified(calls[w]) /\ calls[w] \in Call
      BY <1>2, CallIsLive, AttemptsTyped
    <2>2. calls[w].rec.status # "absent"
      BY <1>2, <2>1 DEF CallIsJustified, WriteIsJustified, Call, CallPc
    <2> QED BY <2>1, <2>2 DEF SoundCopy, RecordInvariant
  <1>3. \A w \in Workers : calls[w].at \in Nat
    BY DEF EffectInvariant, TypeOK, Call
  <1> QED BY <1>1, <1>2, <1>3 DEF RecordInvariant, EffectInvariant, TypeOK

\* Handlers that start from the row.
LEMMA SoundFromRow ==
    ASSUME EffectInvariant, CallInvariant, RecordInvariant,
           NEW w \in Workers, NEW p \in Proposals,
           \/ \E e \in Evidence : RecordAuthority(w, p, e)
           \/ ExpireDue(w, p)
           \/ Execute(w, p)
           \/ ResumeVerification(w, p)
    PROVE  RecordInvariant'
  <1> DEFINE r == proposals[p]
  <1>1. /\ Stored(p) /\ r.erasure = "none"
        /\ proposals' = proposals /\ now' = now
        /\ \/ Goto(w, Write(p, r, Move(r, "expired"), "idle", 0))
           \/ \E e \in Evidence :
                Goto(w, Write(p, r, Decided(r, e, p, now), "idle", 0))
           \/ Goto(w, Suspend("resolve", p, r, now))
           \/ Goto(w, Write(p, r, Resumed(r, now), "observe", 0))
    BY DEF RecordAuthority, ExpireDue, Execute, ResumeVerification, Begin, store
  <1>2. SoundCopy(r) /\ now \in Nat /\ now <= MaxTime
    BY <1>1, SoundCopies
  <1> HIDE DEF r
  <1>3. /\ RecordIsSound(r)
        /\ RecordIsSound(Move(r, "expired"))
        /\ \A e \in Evidence : RecordIsSound(Decided(r, e, p, now))
        /\ RecordIsSound(Resumed(r, now))
    BY <1>2, ClosingIsSound, DecidedIsSound, ResumingIsSound DEF SoundCopy
  <1>4. /\ SoundCall(Write(p, r, Move(r, "expired"), "idle", 0))
        /\ \A e \in Evidence :
             SoundCall(Write(p, r, Decided(r, e, p, now), "idle", 0))
        /\ SoundCall(Suspend("resolve", p, r, now))
        /\ SoundCall(Write(p, r, Resumed(r, now), "observe", 0))
    BY <1>2, <1>3, SoundCalls
  <1>5. \E c : Goto(w, c) /\ SoundCall(c)
    BY <1>1, <1>4
  <1> QED BY <1>1, <1>5, SoundStep DEF Goto

\* reconcile, from the row or from the record it moved.
LEMMA SoundReconcile ==
    ASSUME EffectInvariant, CallInvariant, RecordInvariant, NEW w \in Workers,
           ReconcileDue(w) \/ \E p \in Proposals : Reconcile(w, p)
    PROVE  RecordInvariant'
  <1>1. CASE ReconcileDue(w)
    <2> DEFINE d == Due(calls[w].p, calls[w].rec, calls[w].at)
    <2>1. /\ calls[w].pc = "due" /\ Goto(w, d)
          /\ proposals' = proposals /\ now' = now
      BY <1>1 DEF ReconcileDue, store
    <2>2. SoundCall(d)
      BY <2>1, SoundCopies, DueIsSound DEF SoundCall
    <2> HIDE DEF d
    <2> QED BY <2>1, <2>2, SoundStep DEF Goto
  <1>2. ASSUME NEW p \in Proposals, Reconcile(w, p) PROVE RecordInvariant'
    <2> DEFINE r == proposals[p]
               u == Move(r, "verification_pending")
    <2>1. Stored(p)
      <3>1. CASE Begin(w, p)
        BY <3>1 DEF Begin
      <3>2. CASE calls[w].pc = "observe" /\ calls[w].p = p
        BY <3>2, CallIsFaithful DEF FaithfulCopy
      <3> QED BY <1>2, <3>1, <3>2 DEF Reconcile
    <2>2. /\ proposals' = proposals /\ now' = now
          /\ \/ Goto(w, NoCall)
             \/ r.erasure = "none" /\ Goto(w, Due(p, r, now))
             \/ /\ r.erasure = "none" /\ r.status \in ReconciliationAvailable
                /\ Goto(w, Write(p, r, u, "due", now))
      BY <1>2 DEF Reconcile, store, ReconciliationAvailable
    <2>3. /\ r.erasure = "none" => SoundCopy(r)
          /\ now \in Nat /\ now <= MaxTime
      BY <2>1, SoundCopies
    <2> HIDE DEF r, u
    <2>4. SoundCall(NoCall)
      BY FreshIsSound, RuntimeAssumption DEF SoundCall, NoCall, Suspend
    <2>5. r.erasure = "none" => SoundCall(Due(p, r, now))
      BY <2>3, DueIsSound DEF SoundCall
    <2>6. r.erasure = "none" /\ r.status \in ReconciliationAvailable =>
             SoundCall(Write(p, r, u, "due", now))
      <3> SUFFICES ASSUME r.erasure = "none", r.status \in ReconciliationAvailable
                   PROVE  SoundCall(Write(p, r, u, "due", now))
        OBVIOUS
      <3>1. RecordIsSound(r) /\ RecordIsSound(u)
        BY <2>3, TakeoverIsSound DEF u, SoundCopy
      <3> QED BY <2>3, <3>1, SoundCalls
    <2>7. \E c : Goto(w, c) /\ SoundCall(c)
      BY <2>2, <2>4, <2>5, <2>6
    <2> QED BY <2>2, <2>7, SoundStep DEF Goto
  <1> QED BY <1>1, <1>2

\* The steps of execute up to the executor's answer, and the verifier's.
LEMMA SoundFromCall ==
    ASSUME EffectInvariant, CallInvariant, RecordInvariant, NEW w \in Workers,
           \/ Resolve(w)
           \/ Recheck(w)
           \/ Precheck(w)
           \/ Dispatch(w)
           \/ Submit(w)
           \/ \E reply \in ExecutionReply : ExecutorReturns(w, reply)
           \/ \E result \in VerificationReport,
                 items \in {"none", "succeeded", "partial"},
                 idempotent \in BOOLEAN : Verify(w, result, items, idempotent)
    PROVE  RecordInvariant'
  <1> DEFINE p == calls[w].p
             r == calls[w].rec
             at == calls[w].at
             stale == MoveWith(r, "stale", "failed_known")
             valid == Valid(r.evidence, p, now)
             cs == { Suspend("recheck", p, r, 0),
                     [Suspend("precheck", p, r, 0) EXCEPT !.valid = valid],
                     [calls[w] EXCEPT !.pc = "admit", !.at = now],
                     [calls[w] EXCEPT !.pc = "run", !.at = now],
                     Suspend("await", p, r, 0) }
  <1>1. /\ calls[w].pc \in {"resolve", "recheck", "precheck", "dispatch", "run",
                            "await", "verify"}
        /\ proposals' = proposals /\ now' = now
        /\ \/ \E c \in cs : Goto(w, c)
           \/ Goto(w, Write(p, r, Blocked(r), "idle", 0))
           \/ Goto(w, Write(p, r, stale, "idle", 0))
           \/ Goto(w, Write(p, r, stale, "replace", at))
           \/ Goto(w, Write(p, r, Move(r, "expired"), "idle", 0))
           \/ \E reply \in ExecutionReply :
                Goto(w, Write(p, r, SettledExecution(r, reply, now), "idle", 0))
           \/ \E result \in VerificationReport, items \in {"none", "succeeded", "partial"},
                 idempotent \in BOOLEAN :
                Goto(w, Write(p, r, SettledVerification(r, result, items,
                                                        idempotent, at), "idle", 0))
    <2>1. CASE Resolve(w)
      BY <2>1 DEF Resolve, store
    <2>2. CASE Recheck(w)
      BY <2>2 DEF Recheck, store
    <2>3. CASE Precheck(w)
      BY <2>3 DEF Precheck, store
    <2>4. CASE Dispatch(w)
      BY <2>4 DEF Dispatch, store, ExecutionReply
    <2>5. CASE Submit(w)
      BY <2>5 DEF Submit, store
    <2>6. CASE \E reply \in ExecutionReply : ExecutorReturns(w, reply)
      BY <2>6 DEF ExecutorReturns, store
    <2>7. CASE \E result \in VerificationReport,
                  items \in {"none", "succeeded", "partial"},
                  idempotent \in BOOLEAN : Verify(w, result, items, idempotent)
      BY <2>7 DEF Verify, store
    <2> QED BY <2>1, <2>2, <2>3, <2>4, <2>5, <2>6, <2>7
  <1>2. /\ SoundCopy(r) /\ at \in Nat /\ at <= MaxTime
        /\ now \in Nat /\ now <= MaxTime
    BY <1>1, SoundCopies
  <1>3. RecordIsSound(r) /\ RecordIsSound(AbsentProposal) /\ 0 <= MaxTime
        /\ RecordIsSound(calls[w].write)
    BY <1>2, FreshIsSound, RuntimeAssumption DEF SoundCopy, RecordInvariant
  <1>4. \A c \in cs : SoundCall(c)
    <2>1. calls[w] \in Call
      BY AttemptsTyped
    <2> HIDE DEF valid
    <2>2. /\ SoundCall(Suspend("recheck", p, r, 0))
          /\ SoundCall(Suspend("await", p, r, 0))
      BY <1>3 DEF SoundCall, Suspend
    <2>3. SoundCall([Suspend("precheck", p, r, 0) EXCEPT !.valid = valid])
      BY <1>3 DEF SoundCall, Suspend
    <2>4. /\ SoundCall([calls[w] EXCEPT !.pc = "admit", !.at = now])
          /\ SoundCall([calls[w] EXCEPT !.pc = "run", !.at = now])
      BY <1>2, <1>3, <2>1 DEF SoundCall, Call
    <2> QED BY <2>2, <2>3, <2>4
  <1> HIDE DEF r, at, cs
  <1>5. /\ RecordIsSound(Blocked(r)) /\ RecordIsSound(stale)
        /\ RecordIsSound(Move(r, "expired"))
    BY <1>2, ClosingIsSound
  <1>6. \A reply \in ExecutionReply : RecordIsSound(SettledExecution(r, reply, now))
    BY <1>2, SettlingIsSound
  <1>7. \A result \in VerificationReport, items \in {"none", "succeeded", "partial"},
           idempotent \in BOOLEAN :
             RecordIsSound(SettledVerification(r, result, items, idempotent, at))
    BY <1>2, VerifyingIsSound
  <1> HIDE DEF stale
  <1>8. \A u, next : RecordIsSound(u) =>
           /\ SoundCall(Write(p, r, u, next, 0))
           /\ SoundCall(Write(p, r, u, next, at))
    BY <1>2, <1>3, SoundCalls
  <1>9. \E c : Goto(w, c) /\ SoundCall(c)
    BY <1>1, <1>4, <1>5, <1>6, <1>7, <1>8
  <1> QED BY <1>1, <1>9, SoundStep DEF Goto

\* Steps that write a row.
LEMMA SoundWrites ==
    ASSUME EffectInvariant, CallInvariant, RecordInvariant, NEW w \in Workers,
           \/ Cas(w)
           \/ Admit(w)
           \/ \E fresh \in Proposals : PersistReplacement(w, fresh)
    PROVE  RecordInvariant'
  <1> DEFINE p == calls[w].p
             r == calls[w].rec
             u == calls[w].write
             at == calls[w].at
             x == Executing(r, at)
             s(fresh) == [Move(r, "superseded") EXCEPT !.supersededBy = fresh]
  <1>1. SoundCall(NoCall)
    BY FreshIsSound, RuntimeAssumption DEF SoundCall, NoCall, Suspend
  <1>2. /\ calls[w].pc # "idle" => p \in Proposals
        /\ at \in Nat /\ at <= MaxTime
        /\ calls[w].pc \in {"cas", "admit", "replace"} => SoundCopy(r)
        /\ RecordIsSound(u) /\ RecordIsSound(r)
    BY CallIsFaithful, SoundCopies DEF RecordInvariant
  <1>3. CASE Cas(w)
    <2>1. /\ calls[w].pc = "cas" /\ now' = now
          /\ proposals' = proposals \/ proposals' = [proposals EXCEPT ![p] = u]
          /\ \/ Goto(w, Suspend(calls[w].next, p, u, at))
             \/ Goto(w, NoCall)
      BY <1>3 DEF Cas, CompareAndSet, Return
    <2>2. SoundCall(Suspend(calls[w].next, p, u, at))
      BY <1>2, SoundCalls
    <2>3. \E c : Goto(w, c) /\ SoundCall(c)
      BY <1>1, <2>1, <2>2
    <2>4. p \in Proposals
      BY <1>2, <2>1
    <2> HIDE DEF p, u
    <2> QED BY <1>2, <2>1, <2>3, <2>4, SoundStep DEF Goto
  <1>4. CASE Admit(w)
    <2> DEFINE c == [calls[w] EXCEPT !.pc = "dispatch", !.rec = x]
    <2>1. /\ calls[w].pc = "admit" /\ now' = now
          /\ proposals' = proposals \/ proposals' = [proposals EXCEPT ![p] = x]
          /\ Goto(w, c) \/ Goto(w, NoCall)
      BY <1>4 DEF Admit, Return
    <2>2. RecordIsSound(x)
      BY <1>2, <2>1, ExecutingIsSound
    <2> HIDE DEF x
    <2>3. SoundCall(c)
      BY <1>2, <2>2, AttemptsTyped DEF SoundCall, Call
    <2>4. \E d : Goto(w, d) /\ SoundCall(d)
      BY <1>1, <2>1, <2>3
    <2>5. p \in Proposals
      BY <1>2, <2>1
    <2> HIDE DEF p
    <2> QED BY <2>1, <2>2, <2>4, <2>5, SoundStep DEF Goto
  <1>5. ASSUME NEW fresh \in Proposals, PersistReplacement(w, fresh)
        PROVE  RecordInvariant'
    <2>1. /\ calls[w].pc = "replace" /\ now' = now
          /\ proposals' = [proposals EXCEPT ![fresh] = Prepared(at)]
          /\ Goto(w, Write(p, r, s(fresh), "idle", 0))
      BY <1>5 DEF PersistReplacement
    <2>2. RecordIsSound(s(fresh))
      BY <1>2, <2>1, ClosingIsSound
    <2> HIDE DEF s
    <2>3. SoundCall(Write(p, r, s(fresh), "idle", 0))
      BY <1>2, <2>2, SoundCalls
    <2>4. RecordIsSound(Prepared(at))
      BY <1>2, FreshIsSound
    <2> QED BY <2>1, <2>3, <2>4, SoundStep DEF Goto
  <1> QED BY <1>3, <1>4, <1>5

\* Erasure keeps the status of a settled row.
LEMMA ErasureIsSound ==
    ASSUME NEW r \in StoredProposal, RecordIsSound(r), r.status \in Erasable
    PROVE  /\ RecordIsSound(ProposalWithErasurePending(r))
           /\ RecordIsSound(ErasedProposal(r))
  <1> DEFINE m == ProposalWithErasurePending(r)
             x == ErasedProposal(r)
  <1>1. m.erasure = "pending" /\ m.status = r.status /\ m.expiresAt = r.expiresAt
    BY DEF ProposalWithErasurePending, StoredProposal
  <1>2. x.erasure = "erased" /\ x.status = r.status /\ x.expiresAt = r.expiresAt
    BY DEF ErasedProposal, StoredProposal
  <1> HIDE DEF m, x
  <1>3. RecordIsSound(m) /\ RecordIsSound(x)
    BY <1>1, <1>2 DEF RecordIsSound, Erasable, ReconciliationAvailable
  <1> QED BY <1>3 DEF m, x

\* The erase handler leaves receipts and times of a row as they were.
LEMMA SoundErasure ==
    ASSUME EffectInvariant, CallInvariant, RecordInvariant, NEW w \in Workers,
           \/ \E p \in Proposals : Erase(w, p)
           \/ DestroyKeys(w)
           \/ CompleteErasure(w)
    PROVE  RecordInvariant'
  <1>1. SoundCall(NoCall) /\ 0 <= MaxTime /\ RecordIsSound(AbsentProposal)
    BY FreshIsSound, RuntimeAssumption DEF SoundCall, NoCall, Suspend
  <1>2. /\ \A p \in Proposals :
             proposals[p] \in StoredProposal /\ RecordIsSound(proposals[p])
        /\ \A p \in Proposals :
             proposals[p].erasure # "none" => proposals[p].status \in Erasable
    BY AttemptsTyped DEF RecordInvariant, CallInvariant, ErasedRowsAreSettled
  <1>3. ASSUME NEW p \in Proposals, Erase(w, p) PROVE RecordInvariant'
    <2> DEFINE r == proposals[p]
               m == ProposalWithErasurePending(r)
    <2>1. /\ now' = now
          /\ \/ /\ r.status \in Erasable
                /\ proposals' = [proposals EXCEPT ![p] = m]
                /\ Goto(w, Suspend("destroy", p, proposals'[p], 0))
             \/ /\ proposals' = proposals
                /\ Goto(w, Suspend("destroy", p, r, 0))
      BY <1>3 DEF Erase, MayMarkErasure
    <2>2. RecordIsSound(r) /\ (r.status \in Erasable => RecordIsSound(m))
      BY <1>2, ErasureIsSound
    <2>3. r.status \in Erasable /\ proposals' = [proposals EXCEPT ![p] = m] =>
             proposals'[p] = m
      BY DEF EffectInvariant, TypeOK
    <2> HIDE DEF m, r
    <2>4. \A q : RecordIsSound(q) => SoundCall(Suspend("destroy", p, q, 0))
      BY <1>1 DEF SoundCall, Suspend
    <2>5. \E c : calls' = [calls EXCEPT ![w] = c] /\ SoundCall(c)
      BY <2>1, <2>2, <2>3, <2>4 DEF Goto
    <2> QED BY <2>1, <2>2, <2>5, SoundStep
  <1>4. CASE DestroyKeys(w)
    <2> DEFINE c == [calls[w] EXCEPT !.pc = "tombstone"]
    <2>1. now' = now /\ proposals' = proposals /\ Goto(w, c)
      BY <1>4 DEF DestroyKeys, store
    <2>2. SoundCall(c)
      BY AttemptsTyped DEF SoundCall, RecordInvariant, Call
    <2> QED BY <2>1, <2>2, SoundStep DEF Goto
  <1>5. CASE CompleteErasure(w)
    <2> DEFINE p == calls[w].p
               x == ErasedProposal(proposals[p])
    <2>1. /\ calls[w].pc = "tombstone" /\ now' = now /\ Goto(w, NoCall)
          /\ \/ proposals' = proposals
             \/ /\ proposals[p].erasure = "pending"
                /\ proposals' = [proposals EXCEPT ![p] = x]
      BY <1>5 DEF CompleteErasure, MayCompleteErasure, Return
    <2>2. p \in Proposals
      BY <2>1, CallIsFaithful
    <2>3. proposals[p].erasure = "pending" => RecordIsSound(x)
      BY <1>2, <2>2, ErasureIsSound
    <2> HIDE DEF p, x
    <2> QED BY <1>1, <2>1, <2>2, <2>3, SoundStep DEF Goto
  <1> QED BY <1>3, <1>4, <1>5

-----------------------------------------------------------------------------
(* The invariant holds. *)

\* Nothing is stored and nobody calls at first.
LEMMA InitiallySound == Init => RecordInvariant
  <1> SUFFICES ASSUME Init PROVE RecordInvariant
    OBVIOUS
  <1>1. /\ 0 <= MaxTime /\ RecordIsSound(AbsentProposal)
        /\ NoCall.at = 0 /\ NoCall.rec = AbsentProposal
        /\ NoCall.write = AbsentProposal
    BY FreshIsSound, RuntimeAssumption DEF NoCall, Suspend
  <1> QED BY <1>1 DEF Init, RecordInvariant

\* Every step preserves it.
LEMMA RecordInvariantStep ==
    ASSUME EffectInvariant, CallInvariant, RecordInvariant, [Next]_vars
    PROVE  RecordInvariant'
  <1>1. CASE UNCHANGED vars
    BY <1>1 DEF vars, store, RecordInvariant
  <1>2. ASSUME NEW p \in Proposals, NEW at \in 0..now, Prepare(p, at)
        PROVE  RecordInvariant'
    <2>1. at \in Nat /\ at <= MaxTime
      BY SoundCopies, RuntimeAssumption
    <2>2. RecordIsSound(Prepared(at))
      BY <2>1, FreshIsSound
    <2>3. /\ proposals' = [proposals EXCEPT ![p] = Prepared(at)]
          /\ now' = now /\ calls' = calls
      BY <1>2 DEF Prepare
    <2> QED BY <2>2, <2>3, SoundStep
  <1>3. ASSUME NEW w \in Workers, NEW p \in Proposals,
               \/ \E e \in Evidence : RecordAuthority(w, p, e)
               \/ ExpireDue(w, p)
               \/ Execute(w, p)
               \/ PersistReplacement(w, p)
               \/ Reconcile(w, p)
               \/ ResumeVerification(w, p)
               \/ Erase(w, p)
        PROVE  RecordInvariant'
    BY <1>3, SoundFromRow, SoundWrites, SoundReconcile, SoundErasure
  <1>4. ASSUME NEW w \in Workers,
               \/ Cas(w)
               \/ Resolve(w)
               \/ Recheck(w)
               \/ Precheck(w)
               \/ Admit(w)
               \/ Dispatch(w)
               \/ Submit(w)
               \/ \E reply \in ExecutionReply : ExecutorReturns(w, reply)
               \/ ReconcileDue(w)
               \/ \E result \in VerificationReport,
                     items \in {"none", "succeeded", "partial"},
                     idempotent \in BOOLEAN : Verify(w, result, items, idempotent)
               \/ DestroyKeys(w)
               \/ CompleteErasure(w)
        PROVE  RecordInvariant'
    BY <1>4, SoundWrites, SoundFromCall, SoundReconcile, SoundErasure
  <1>5. ASSUME NEW w \in Workers, Abandon(w) PROVE RecordInvariant'
    <2>1. SoundCall(NoCall)
      BY FreshIsSound, RuntimeAssumption DEF SoundCall, NoCall, Suspend
    <2>2. /\ calls' = [calls EXCEPT ![w] = NoCall]
          /\ proposals' = proposals /\ now' = now
      BY <1>5 DEF Abandon, Return, Goto, store
    <2> QED BY <2>1, <2>2, SoundStep
  <1>6. ASSUME NEW a \in inFlight, TargetApplies(a) \/ TargetRefuses(a)
        PROVE  RecordInvariant'
    BY <1>6 DEF TargetApplies, TargetRefuses, store, RecordInvariant
  <1>7. CASE Tick
    <2>1. now' <= MaxTime
      BY <1>7, SoundCopies, RuntimeAssumption DEF Tick
    <2> QED BY <1>7, <2>1 DEF Tick, RecordInvariant
  <1> QED BY <1>1, <1>2, <1>3, <1>4, <1>5, <1>6, <1>7 DEF Next

\* Whatever the runtime writes is scheduled, dated within the clock, and
\* explained by its receipts; all layers of the invariant hold.
THEOREM InductiveInvariantHolds == Spec => []InductiveInvariant
  <1>1. Init => InductiveInvariant
    BY InitiallyEffect, InitiallyLawful, InitiallySound
       DEF InductiveInvariant, RuntimeInvariant
  <1>2. InductiveInvariant /\ [Next]_vars => InductiveInvariant'
    BY EffectInvariantStep, CallInvariantStep, RecordInvariantStep
       DEF InductiveInvariant, RuntimeInvariant
  <1> QED BY <1>1, <1>2, PTL DEF Spec

-----------------------------------------------------------------------------
(* What follows from it. *)

\* A row that is still open expires or carries a time before the horizon.
LEMMA OpenRowsAreDated == InductiveInvariant => OpenWorkIsDiscovered
  <1> SUFFICES ASSUME InductiveInvariant, NEW p \in Proposals,
                      Stored(p), proposals[p].erasure = "none",
                      proposals[p].status \notin AutomaticProcessingClosed
               PROVE  DueWork(proposals[p], Horizon)
                        \in {"expire", "execute", "reconcile"}
    BY DEF OpenWorkIsDiscovered
  <1> DEFINE r == proposals[p]
  <1>1. r \in StoredProposal /\ RecordIsSound(r)
    BY AttemptsTyped DEF InductiveInvariant, RuntimeInvariant, RecordInvariant
  <1>2. r.status \in {"awaiting_authority", "authorized"} \cup ReconciliationAvailable
    BY <1>1 DEF StoredProposal, LifecycleStatus, Stored, AutomaticProcessingClosed,
                ReconciliationAvailable
  <1>3. r.expiresAt \in Nat /\ r.nextAt \in Int
    BY <1>1 DEF StoredProposal
  <1> HIDE DEF r
  <1>4. r.expiresAt <= Horizon
    BY <1>1, <1>3, RuntimeAssumption DEF RecordIsSound, Horizon
  <1>5. r.status \in ReconciliationAvailable =>
           r.nextAt # NoTime /\ r.nextAt <= Horizon
    BY <1>1, <1>3, RuntimeAssumption DEF RecordIsSound, Horizon
  <1>6. r.erasure = "none"
    BY DEF r
  <1>7. DueWork(r, Horizon) \in {"expire", "execute", "reconcile"}
    BY <1>2, <1>4, <1>5, <1>6 DEF DueWork, Expired
  <1> QED BY <1>7 DEF r

\* discover_due finds every open proposal, once its time has come, with work
\* the worker can run.
THEOREM OpenWorkFound == Spec => []OpenWorkIsDiscovered
  BY InductiveInvariantHolds, OpenRowsAreDated, PTL

\* read_recovery advises execution only of an unexpired authorized row.
LEMMA ReadyIsAuthorized ==
    ASSUME NEW r \in StoredProposal, NEW at, r.status # "absent",
           RecoveryCondition(r, at) = "ready_for_execution"
    PROVE  r.status = "authorized" /\ ~Expired(r, at)
  <1>1. r.status \in LifecycleStatus
    BY DEF StoredProposal
  <1>2. CASE r.status = "authorized"
    BY <1>2 DEF RecoveryCondition
  <1>3. CASE r.status = "awaiting_authority"
    BY <1>3 DEF RecoveryCondition
  <1>4. CASE r.status = "executing"
    BY <1>4 DEF RecoveryCondition
  <1>5. CASE r.status = "verification_pending"
    BY <1>5 DEF RecoveryCondition
  <1>6. CASE r.status = "failed_unknown"
    BY <1>6 DEF RecoveryCondition
  <1>7. CASE r.status \in {"verification_unresolved", "partially_succeeded"}
    BY <1>7 DEF RecoveryCondition
  <1>8. CASE r.status \in {"verified", "failed_known"}
    BY <1>8 DEF RecoveryCondition
  <1>9. CASE r.status \in {"stale", "superseded"}
    BY <1>9 DEF RecoveryCondition
  <1>10. CASE r.status \in {"denied", "expired", "blocked"}
    BY <1>10 DEF RecoveryCondition
  <1> QED BY <1>1, <1>2, <1>3, <1>4, <1>5, <1>6, <1>7, <1>8, <1>9, <1>10
          DEF LifecycleStatus

\* What read_recovery calls ready passes every test of admit_execution.
LEMMA ReadyRowsAreAdmissible == InductiveInvariant => ReadyMeansAdmissible
  <1> SUFFICES ASSUME InductiveInvariant, NEW p \in Proposals, Stored(p),
                      ReadRecovery(p, now) = "ready_for_execution"
               PROVE  /\ Claimable(p)
                      /\ Admissible(p, proposals[p], now,
                                    Executing(proposals[p], now))
    BY DEF ReadyMeansAdmissible
  <1> DEFINE r == proposals[p]
             x == Executing(r, now)
  <1>1. EffectInvariant /\ CallInvariant
    BY DEF InductiveInvariant, RuntimeInvariant
  <1>2. r \in StoredProposal /\ now \in Nat /\ r.expiresAt \in Nat
    BY <1>1, AttemptsTyped DEF EffectInvariant, TypeOK, StoredProposal
  <1>3. /\ r.erasure = "none"
        /\ RecoveryCondition(r, now) = "ready_for_execution"
        /\ ~(r.status = "authorized" /\ EffectOwnership(p) = "owned_elsewhere")
    BY DEF ReadRecovery
  <1>4. r.status = "authorized" /\ ~Expired(r, now)
    BY <1>2, <1>3, ReadyIsAuthorized DEF Stored
  <1>5. Claimable(p)
    BY <1>3, <1>4 DEF EffectOwnership, Claimable
  <1>6. LiveCopy(r)
    BY <1>1, <1>3, RowIsLive
  <1>7. /\ x.erasure = "none" /\ x.evidence = r.evidence
        /\ IsPrefix(r.receipts, x.receipts)
    BY <1>2, <1>6, ExecutingIsLawful
  <1>8. x.status = "executing" /\ x.revision = r.revision + 1
    BY <1>2, ExecutingType
  <1> HIDE DEF x
  <1>9. ValidUpdate(r, x)
    BY <1>3, <1>4, <1>7, <1>8 DEF ValidUpdate, AllowedNext
  <1>10. r.expiresAt > now
    BY <1>2, <1>4 DEF Expired
  <1>11. Admissible(p, r, now, x)
    BY <1>3, <1>4, <1>9, <1>10 DEF Admissible
  <1> QED BY <1>5, <1>11 DEF x

\* An execution that a current recovery view advises is not refused admission.
THEOREM ReadyIsAdmissible == Spec => []ReadyMeansAdmissible
  BY InductiveInvariantHolds, ReadyRowsAreAdmissible, PTL

\* The receipts of a sound row support its lifecycle, final absence aside.
LEMMA SoundRowsAreSupported == InductiveInvariant => OnlyFinalAbsenceUnsupported
  <1> SUFFICES ASSUME InductiveInvariant, NEW p \in Proposals, Stored(p),
                      ~LifecycleIsSupported(Bundle(proposals[p]))
               PROVE  /\ proposals[p].status = "failed_known"
                      /\ Last(proposals[p].receipts) = "authoritative_final_absence"
    BY DEF OnlyFinalAbsenceUnsupported
  <1> DEFINE r == proposals[p]
             n == Len(r.receipts)
             b == [r EXCEPT !.evidence = {}, !.receipts = <<>>]
  <1>1. r \in StoredProposal /\ RecordIsSound(r) /\ r.receipts \in Seq(ReceiptKind)
    BY AttemptsTyped DEF InductiveInvariant, RuntimeInvariant, RecordInvariant,
                         StoredProposal
  <1>2. r.erasure = "none"
    <2> SUFFICES ASSUME r.erasure # "none" PROVE FALSE
      OBVIOUS
    <2>1. b.erasure # "none" /\ b.receipts = <<>> /\ b.evidence = {}
      BY <1>1 DEF StoredProposal
    <2>2. Bundle(r) = b
      BY DEF Bundle
    <2> HIDE DEF b, r
    <2> QED BY <2>1, <2>2 DEF LifecycleIsSupported, r
  <1>3. Bundle(r) = r
    BY <1>2 DEF Bundle
  <1>4. /\ r.receipts # <<>> /\ r.receipts[1] = "prepared"
        /\ r.status = "verified" => r.receipts[n] = "verified_completion"
        /\ r.status = "failed_known" =>
             r.receipts[n] \in {"failed_known", "verified_terminal_failure",
                                "authoritative_final_absence"}
    BY <1>1, <1>2 DEF RecordIsSound, Stored
  <1>5. n \in DOMAIN r.receipts /\ Head(r.receipts) = r.receipts[1]
    BY <1>1, <1>4
  <1>6. r.receipts[n] \in Receipts(r)
    BY <1>5 DEF Receipts
  <1>7. ~LifecycleIsSupported(r)
    BY <1>3
  <1> HIDE DEF r, n
  <1>8. r.status = "failed_known" /\ r.receipts[n] = "authoritative_final_absence"
    BY <1>2, <1>4, <1>5, <1>6, <1>7 DEF LifecycleIsSupported
  <1> QED BY <1>8 DEF r, n, Last

\* The validator rejects no export but that of a final absence.
THEOREM OnlyFinalAbsenceRejected == Spec => []OnlyFinalAbsenceUnsupported
  BY InductiveInvariantHolds, SoundRowsAreSupported, PTL
-----------------------------------------------------------------------------
(***************************************************************************)
(* Behind an approval channel.                                             *)
(*                                                                         *)
(* Evidence reaches a row through copies: the handler's, the call's record *)
(* and its pending write.  The invariant says of every copy what the       *)
(* property says of the row, and that a persisted decision never changes.  *)
(***************************************************************************)

Asked == Approvers \union {"none"}

Slip ==
    [ proposal : Proposals, authority : Asked, decision : Decision,
      issued : Nat, expires : Nat ]

Request == [authority : Asked, expires : Nat, decision : Slip \union {NoEvidence}]

\* Where a handler can be.
Step ==
    {Away}
      \union [pc : {"insert"}, p : Proposals, row : Request]
      \union [pc : {"check"}, p : Proposals, decision : Decision,
              seen : Slip \union {NoEvidence}]
      \union [pc : {"record", "deliver"}, p : Proposals, evidence : Slip]

\* What a handler carries is not decided yet or is the persisted decision.
Agrees(d) ==
    /\ d.pc = "insert" => d.row.decision = NoEvidence
    /\ d.pc = "check" => d.seen \in {NoEvidence, requests[d.p].decision}
    /\ d.pc = "deliver" => d.evidence = requests[d.p].decision

\* Evidence for p that the page did not issue is the persisted decision.
Heard(p, evidence) ==
    \A e \in evidence :
        e \notin page => e = requests[p].decision /\ e # NoEvidence

RowsHeard == \A p \in Proposals : Heard(p, proposals[p].evidence)
CopyHeard(c) == c.p \in Proposals => Heard(c.p, c.rec.evidence)
WriteHeard(c) == c.p \in Proposals => Heard(c.p, c.write.evidence)

ChannelInvariant ==
    /\ requests \in [Proposals -> Request]
    /\ desk \in [Workers -> Step]
    /\ \A w \in Workers : Agrees(desk[w])
    /\ RowsHeard
    /\ \A w \in Workers : CopyHeard(calls[w]) /\ WriteHeard(calls[w])

-----------------------------------------------------------------------------
(* Evidence on its way through the runtime. *)

\* A step of the runtime that the channel's tables do not notice.
RuntimeHears ==
    RowsHeard' /\ \A v \in Workers : CopyHeard(calls[v])'

\* A call hears what its record holds.
LEMMA CopiesOfRecords ==
    ASSUME NEW p, NEW r, NEW u, NEW pc, NEW next, NEW at
    PROVE  /\ CopyHeard(Suspend(pc, p, r, at)) <=> (p \in Proposals => Heard(p, r.evidence))
           /\ CopyHeard(Write(p, r, u, next, at)) <=> (p \in Proposals => Heard(p, r.evidence))
           /\ CopyHeard(NoCall)
  <1>1. /\ Suspend(pc, p, r, at).p = p /\ Suspend(pc, p, r, at).rec = r
        /\ Write(p, r, u, next, at).p = p /\ Write(p, r, u, next, at).rec = r
    BY DEF Suspend, Write
  <1>2. NoCall.rec.evidence = {}
    BY DEF NoCall, Suspend, AbsentProposal
  <1>3. \A q : Heard(q, {})
    BY DEF Heard
  <1> QED BY <1>1, <1>2, <1>3 DEF CopyHeard

\* A call goes on with a record it may hold.
LEMMA CallHears ==
    ASSUME TypeOK, RowsHeard, \A v \in Workers : CopyHeard(calls[v]),
           NEW w \in Workers, NEW c, Goto(w, c), CopyHeard(c),
           UNCHANGED <<proposals, requests>>, page \subseteq page'
    PROVE  RuntimeHears
  <1>1. calls'[w] = c /\ \A v \in Workers : v # w => calls'[v] = calls[v]
    BY DEF TypeOK, Goto
  <1>2. RowsHeard'
    BY DEF RowsHeard, Heard
  <1>3. ASSUME NEW v \in Workers
        PROVE  CopyHeard(calls[v])'
    <2>1. PICK d : d = calls'[v] /\ CopyHeard(d)
      BY <1>1
    <2> QED BY <2>1 DEF CopyHeard, Heard
  <1> QED BY <1>2, <1>3 DEF RuntimeHears

\* A call goes on and a row changes.
LEMMA RowHears ==
    ASSUME TypeOK, RowsHeard, \A v \in Workers : CopyHeard(calls[v]),
           NEW w \in Workers, NEW c, Goto(w, c), CopyHeard(c),
           requests' = requests, page \subseteq page',
           NEW p \in Proposals, NEW r, proposals' = [proposals EXCEPT ![p] = r],
           Heard(p, r.evidence)
    PROVE  RuntimeHears
  <1>1. calls'[w] = c /\ \A v \in Workers : v # w => calls'[v] = calls[v]
    BY DEF TypeOK, Goto
  <1>2. RowsHeard'
    <2> SUFFICES ASSUME NEW q \in Proposals PROVE Heard(q, proposals[q].evidence)'
      BY DEF RowsHeard
    <2>1. proposals'[q] = IF q = p THEN r ELSE proposals[q]
      BY DEF TypeOK
    <2>2. PICK s : s = proposals'[q] /\ Heard(q, s.evidence)
      <3>1. CASE q = p
        BY <2>1, <3>1
      <3>2. CASE q # p
        BY <2>1, <3>2 DEF RowsHeard
      <3> QED BY <3>1, <3>2
    <2> QED BY <2>2 DEF Heard
  <1>3. ASSUME NEW v \in Workers
        PROVE  CopyHeard(calls[v])'
    <2>1. PICK d : d = calls'[v] /\ CopyHeard(d)
      BY <1>1
    <2> QED BY <2>1 DEF CopyHeard, Heard
  <1> QED BY <1>2, <1>3 DEF RuntimeHears

\* Moving a record on leaves its evidence alone.
LEMMA EvidenceKept ==
    ASSUME NEW r \in StoredProposal, NEW at
    PROVE  /\ Executing(r, at).evidence = r.evidence
           /\ ProposalWithErasurePending(r).evidence = r.evidence
           /\ ErasedProposal(r).evidence = {}
           /\ Prepared(at).evidence = {}
  BY DEF Executing, MoveWith, Move, ProposalWithErasurePending, ErasedProposal, Prepared,
         StoredProposal

\* Handlers that start on a row.
LEMMA StartsHear ==
    ASSUME TypeOK, RowsHeard, \A v \in Workers : CopyHeard(calls[v]),
           requests' = requests, page \subseteq page',
           NEW w \in Workers, NEW p \in Proposals,
           \/ \E e : RecordAuthority(w, p, e)
           \/ ExpireDue(w, p) \/ Execute(w, p) \/ Reconcile(w, p) \/ ResumeVerification(w, p)
    PROVE  RuntimeHears
  <1>1. /\ Heard(p, proposals[p].evidence)
        /\ \A u, next, at : CopyHeard(Write(p, proposals[p], u, next, at))
        /\ \A pc, at : CopyHeard(Suspend(pc, p, proposals[p], at))
        /\ CopyHeard(NoCall)
    BY CopiesOfRecords DEF RowsHeard
  <1>2. UNCHANGED <<proposals, requests>>
    BY DEF RecordAuthority, ExpireDue, Execute, Reconcile, ResumeVerification, store
  <1>3. PICK c : Goto(w, c) /\ CopyHeard(c)
    <2>1. CASE \E e : RecordAuthority(w, p, e)
      BY <1>1, <2>1 DEF RecordAuthority
    <2>2. CASE ExpireDue(w, p)
      BY <1>1, <2>2 DEF ExpireDue
    <2>3. CASE Execute(w, p)
      BY <1>1, <2>3 DEF Execute
    <2>4. CASE Reconcile(w, p)
      BY <1>1, <2>4 DEF Reconcile, Due
    <2>5. CASE ResumeVerification(w, p)
      BY <1>1, <2>5 DEF ResumeVerification
    <2> QED BY <2>1, <2>2, <2>3, <2>4, <2>5
  <1> QED BY <1>2, <1>3, CallHears

\* Calls that go on with the record they hold.
LEMMA CallsHear ==
    ASSUME TypeOK, RowsHeard, \A v \in Workers : CopyHeard(calls[v]),
           requests' = requests, page \subseteq page',
           NEW w \in Workers,
           \/ Abandon(w) \/ Resolve(w) \/ Recheck(w) \/ Precheck(w) \/ Dispatch(w)
           \/ Submit(w) \/ ReconcileDue(w) \/ DestroyKeys(w)
           \/ \E reply : ExecutorReturns(w, reply)
           \/ \E result, items, idempotent : Verify(w, result, items, idempotent)
    PROVE  RuntimeHears
  <1> DEFINE o == calls[w]
  <1>1. /\ \A u, next, at : CopyHeard(Write(o.p, o.rec, u, next, at))
        /\ \A pc, at : CopyHeard(Suspend(pc, o.p, o.rec, at))
        /\ CopyHeard(NoCall)
    <2>1. CopyHeard(o)
      OBVIOUS
    <2>2. o.p \in Proposals => Heard(o.p, o.rec.evidence)
      BY <2>1 DEF CopyHeard
    <2> QED BY <2>2, CopiesOfRecords
  <1>2. \A c \in Call : c.p = o.p /\ c.rec = o.rec => CopyHeard(c)
    BY DEF CopyHeard
  <1>3. UNCHANGED <<proposals, requests>>
    BY DEF Abandon, Resolve, Recheck, Precheck, Dispatch, Submit, ReconcileDue, DestroyKeys,
           ExecutorReturns, Verify, store
  <1>4. o \in Call /\ now \in Nat
    BY DEF TypeOK
  <1>5. PICK c : Goto(w, c) /\ CopyHeard(c)
    <2>1. CASE Abandon(w)
      BY <1>1, <2>1 DEF Abandon, Return
    <2>2. CASE Resolve(w)
      BY <1>1, <2>2 DEF Resolve
    <2>3. CASE Recheck(w)
      <3>1. ASSUME NEW d, d = [Suspend("precheck", o.p, o.rec, 0) EXCEPT
                                 !.valid = Valid(o.rec.evidence, o.p, now)]
            PROVE  CopyHeard(d)
        <4>1. d.p = o.p /\ d.rec = o.rec
          BY <3>1 DEF Suspend
        <4> QED BY <4>1 DEF CopyHeard
      <3> QED BY <1>1, <2>3, <3>1 DEF Recheck
    <2>4. CASE Precheck(w)
      <3>1. ASSUME NEW d, d = [o EXCEPT !.pc = "admit", !.at = now]
            PROVE  CopyHeard(d)
        <4>1. d.p = o.p /\ d.rec = o.rec
          BY <1>4, <3>1 DEF Call
        <4> QED BY <4>1 DEF CopyHeard
      <3> QED BY <1>1, <2>4, <3>1 DEF Precheck
    <2>5. CASE Dispatch(w)
      <3>1. ASSUME NEW d, d = [o EXCEPT !.pc = "run", !.at = now]
            PROVE  CopyHeard(d)
        <4>1. d.p = o.p /\ d.rec = o.rec
          BY <1>4, <3>1 DEF Call
        <4> QED BY <4>1 DEF CopyHeard
      <3> QED BY <1>1, <2>5, <3>1 DEF Dispatch
    <2>6. CASE Submit(w)
      BY <1>1, <2>6 DEF Submit
    <2>7. CASE ReconcileDue(w)
      BY <1>1, <2>7 DEF ReconcileDue, Due
    <2>8. CASE DestroyKeys(w)
      <3>1. ASSUME NEW d, d = [o EXCEPT !.pc = "tombstone"]
            PROVE  CopyHeard(d)
        <4>1. d.p = o.p /\ d.rec = o.rec
          BY <1>4, <3>1 DEF Call
        <4> QED BY <4>1 DEF CopyHeard
      <3> QED BY <2>8, <3>1 DEF DestroyKeys
    <2>9. CASE \E reply : ExecutorReturns(w, reply)
      BY <1>1, <2>9 DEF ExecutorReturns
    <2>10. CASE \E result, items, idempotent : Verify(w, result, items, idempotent)
      BY <1>1, <2>10 DEF Verify
    <2> QED BY <2>1, <2>2, <2>3, <2>4, <2>5, <2>6, <2>7, <2>8, <2>9, <2>10
  <1> QED BY <1>3, <1>5, CallHears

\* Calls that write a row.
LEMMA WritesHear ==
    ASSUME EffectInvariant, RowsHeard,
           \A v \in Workers : CopyHeard(calls[v]) /\ WriteHeard(calls[v]),
           requests' = requests, page \subseteq page', NEW w \in Workers,
           \/ Cas(w) \/ Admit(w) \/ CompleteErasure(w)
           \/ \E p \in Proposals : PersistReplacement(w, p) \/ Erase(w, p)
    PROVE  RuntimeHears
  <1> DEFINE o == calls[w]
  <1>1. /\ TypeOK /\ o \in Call /\ o.rec \in StoredProposal /\ o.at \in Nat
        /\ \A p \in Proposals : proposals[p] \in StoredProposal
    BY DEF EffectInvariant, TypeOK, Call
  <1>2. CopyHeard(NoCall) /\ \A q : Heard(q, {})
    BY CopiesOfRecords DEF Heard
  <1>3. CASE Cas(w)
    <2>1. o.p \in Proposals
      BY <1>3, CallIsFaithful DEF Cas
    <2>2. Heard(o.p, o.write.evidence)
      BY <2>1 DEF WriteHeard
    <2>3. \A pc, at : CopyHeard(Suspend(pc, o.p, o.write, at))
      BY <2>2, CopiesOfRecords
    <2>4. PICK c : Goto(w, c) /\ CopyHeard(c)
      BY <1>2, <1>3, <2>3 DEF Cas, Return
    <2>5. CASE Accepts(o.p, o.rec, o.write)
      <3>1. proposals' = [proposals EXCEPT ![o.p] = o.write]
        BY <1>3, <2>5 DEF Cas, CompareAndSet
      <3> QED BY <1>1, <2>1, <2>2, <2>4, <3>1, RowHears
    <2>6. CASE ~Accepts(o.p, o.rec, o.write)
      <3>1. UNCHANGED <<proposals, requests>>
        BY <1>3, <2>6 DEF Cas, CompareAndSet
      <3> QED BY <1>1, <2>4, <3>1, CallHears
    <2> QED BY <2>5, <2>6
  <1>4. CASE Admit(w)
    <2>1. o.p \in Proposals
      BY <1>4, CallIsFaithful DEF Admit
    <2>2. PICK r : r = Executing(o.rec, o.at)
      OBVIOUS
    <2>3. r.evidence = o.rec.evidence
      BY <1>1, <2>2, EvidenceKept
    <2>4. Heard(o.p, r.evidence)
      BY <2>1, <2>3 DEF CopyHeard
    <2>5. CASE /\ proposals' = [proposals EXCEPT ![o.p] = r]
               /\ Goto(w, [o EXCEPT !.pc = "dispatch", !.rec = r])
      <3>1. PICK c : c = [o EXCEPT !.pc = "dispatch", !.rec = r]
        OBVIOUS
      <3>2. c.p = o.p /\ c.rec = r
        BY <1>1, <3>1 DEF Call
      <3>3. CopyHeard(c)
        BY <2>4, <3>2 DEF CopyHeard
      <3> QED BY <1>1, <2>1, <2>4, <2>5, <3>1, <3>3, RowHears
    <2>6. CASE Return(w) /\ UNCHANGED proposals
      BY <1>1, <1>2, <2>6, CallHears DEF Return
    <2> QED BY <1>4, <2>2, <2>5, <2>6 DEF Admit
  <1>5. CASE CompleteErasure(w)
    <2>1. o.p \in Proposals /\ Goto(w, NoCall)
      BY <1>5, CallIsFaithful DEF CompleteErasure, Return
    <2>2. CASE proposals' = proposals
      BY <1>1, <1>2, <2>1, <2>2, CallHears
    <2>3. CASE proposals' = [proposals EXCEPT ![o.p] = ErasedProposal(proposals[o.p])]
      <3>1. ErasedProposal(proposals[o.p]).evidence = {}
        BY <1>1, <2>1, EvidenceKept
      <3> QED BY <1>1, <1>2, <2>1, <2>3, <3>1, RowHears
    <2> QED BY <1>5, <2>2, <2>3 DEF CompleteErasure
  <1>6. ASSUME NEW p \in Proposals, PersistReplacement(w, p)
        PROVE  RuntimeHears
    <2>1. PICK r : r = Prepared(o.at)
      OBVIOUS
    <2>2. r.evidence = {}
      BY <1>1, <2>1, EvidenceKept
    <2>3. \A u, next, at : CopyHeard(Write(o.p, o.rec, u, next, at))
      <3>1. o.p \in Proposals => Heard(o.p, o.rec.evidence)
        BY DEF CopyHeard
      <3> QED BY <3>1, CopiesOfRecords
    <2>4. PICK c : Goto(w, c) /\ CopyHeard(c)
      BY <1>6, <2>3 DEF PersistReplacement
    <2>5. proposals' = [proposals EXCEPT ![p] = r]
      BY <1>6, <2>1 DEF PersistReplacement
    <2> QED BY <1>1, <1>2, <2>2, <2>4, <2>5, RowHears
  <1>7. ASSUME NEW p \in Proposals, Erase(w, p)
        PROVE  RuntimeHears
    <2>1. PICK r : r = ProposalWithErasurePending(proposals[p])
      OBVIOUS
    <2>2. Heard(p, r.evidence) /\ Heard(p, proposals[p].evidence)
      BY <1>1, <2>1, EvidenceKept DEF RowsHeard
    <2>3. CASE /\ proposals' = [proposals EXCEPT ![p] = r]
               /\ Goto(w, Suspend("destroy", p, proposals'[p], 0))
      <3>1. proposals'[p] = r
        BY <2>3 DEF EffectInvariant, TypeOK
      <3>2. CopyHeard(Suspend("destroy", p, r, 0))
        BY <2>2, CopiesOfRecords
      <3>3. Goto(w, Suspend("destroy", p, r, 0))
        BY <2>3, <3>1
      <3> QED BY <1>1, <2>2, <2>3, <3>2, <3>3, RowHears
    <2>4. CASE /\ UNCHANGED proposals
               /\ Goto(w, Suspend("destroy", p, proposals[p], 0))
      <3>1. CopyHeard(Suspend("destroy", p, proposals[p], 0))
        BY <2>2, CopiesOfRecords
      <3> QED BY <1>1, <2>4, <3>1, CallHears
    <2> QED BY <1>7, <2>1, <2>3, <2>4 DEF Erase
  <1> QED BY <1>3, <1>4, <1>5, <1>6, <1>7

\* Whatever step the runtime takes, its rows and copies stay heard.
LEMMA RuntimeStepHears ==
    ASSUME EffectInvariant, RowsHeard,
           \A v \in Workers : CopyHeard(calls[v]) /\ WriteHeard(calls[v]),
           requests' = requests, page \subseteq page', [Next]_vars
    PROVE  RuntimeHears
  <1>1. TypeOK /\ \A v \in Workers : CopyHeard(calls[v])
    BY DEF EffectInvariant
  <1>2. ASSUME UNCHANGED <<proposals, calls>>
        PROVE  RuntimeHears
    BY <1>2 DEF RuntimeHears, RowsHeard, CopyHeard, Heard
  <1>3. ASSUME NEW p \in Proposals, NEW at \in 0..now, Prepare(p, at)
        PROVE  RuntimeHears
    <2>1. PICK r : r = Prepared(at)
      OBVIOUS
    <2>2. r.evidence = {}
      BY <2>1 DEF Prepared
    <2>3. proposals' = [proposals EXCEPT ![p] = r] /\ calls' = calls
      BY <1>3, <2>1 DEF Prepare
    <2>4. RowsHeard'
      <3> SUFFICES ASSUME NEW q \in Proposals PROVE Heard(q, proposals[q].evidence)'
        BY DEF RowsHeard
      <3>1. CASE q = p
        BY <1>1, <2>2, <2>3, <3>1 DEF TypeOK, Heard
      <3>2. CASE q # p
        BY <1>1, <2>3, <3>2 DEF TypeOK, RowsHeard, Heard
      <3> QED BY <3>1, <3>2
    <2> QED BY <1>1, <2>3, <2>4 DEF RuntimeHears, CopyHeard, Heard
  <1>4. ASSUME NEW w \in Workers, NEW p \in Proposals,
               \/ \E e \in Evidence : RecordAuthority(w, p, e)
               \/ ExpireDue(w, p) \/ Execute(w, p) \/ Reconcile(w, p)
               \/ ResumeVerification(w, p)
        PROVE  RuntimeHears
    BY <1>1, <1>4, StartsHear
  <1>5. ASSUME NEW w \in Workers,
               \/ Abandon(w) \/ Resolve(w) \/ Recheck(w) \/ Precheck(w) \/ Dispatch(w)
               \/ Submit(w) \/ ReconcileDue(w) \/ DestroyKeys(w)
               \/ \E reply \in ExecutionReply : ExecutorReturns(w, reply)
               \/ \E result \in VerificationReport,
                     items \in {"none", "succeeded", "partial"},
                     idempotent \in BOOLEAN : Verify(w, result, items, idempotent)
        PROVE  RuntimeHears
    BY <1>1, <1>5, CallsHear
  <1>6. ASSUME NEW w \in Workers,
               \/ Cas(w) \/ Admit(w) \/ CompleteErasure(w)
               \/ \E p \in Proposals : PersistReplacement(w, p) \/ Erase(w, p)
        PROVE  RuntimeHears
    BY <1>6, WritesHear
  <1>7. ASSUME \/ \E a \in inFlight : TargetApplies(a) \/ TargetRefuses(a)
               \/ Tick
               \/ UNCHANGED vars
        PROVE  RuntimeHears
    BY <1>2, <1>7 DEF TargetApplies, TargetRefuses, Tick, vars, store
  <1> HIDE DEF RuntimeHears
  <1> QED BY <1>3, <1>4, <1>5, <1>6, <1>7 DEF Next

\* A write that adds nothing to its record is heard with it.
LEMMA ModestWrites ==
    ASSUME RuntimeHears, requests' = requests, page \subseteq page', NEW w \in Workers,
           WriteHeard(calls[w]),
           calls'[w].write.evidence \subseteq calls'[w].rec.evidence \/ calls'[w] = calls[w]
    PROVE  WriteHeard(calls[w])'
  <1>1. CASE calls'[w].write.evidence \subseteq calls'[w].rec.evidence
    BY <1>1 DEF RuntimeHears, CopyHeard, WriteHeard, Heard
  <1>2. CASE calls'[w] = calls[w]
    BY <1>2 DEF WriteHeard, Heard
  <1> QED BY <1>1, <1>2

\* record_authority adds evidence that speaks for the request, or of the page.
LEMMA AuthorityHears ==
    ASSUME TypeOK, RowsHeard,
           \A v \in Workers : CopyHeard(calls[v]) /\ WriteHeard(calls[v]),
           requests' = requests, page \subseteq page',
           NEW w \in Workers, NEW p \in Proposals, NEW e, RecordAuthority(w, p, e),
           Heard(p, {e})'
    PROVE  RuntimeHears /\ \A v \in Workers : WriteHeard(calls[v])'
  <1>1. RuntimeHears
    BY StartsHear
  <1>2. PICK r : r = proposals[p]
    OBVIOUS
  <1>3. r \in StoredProposal /\ Heard(p, r.evidence)
    BY <1>2 DEF TypeOK, RowsHeard
  <1>4. PICK u : /\ Goto(w, Write(p, r, u, "idle", 0))
                 /\ \/ u = Move(r, "expired")
                    \/ u = Decided(r, e, p, now)
    BY <1>2 DEF RecordAuthority
  <1>5. u.evidence \subseteq r.evidence \union {e}
    <2>1. CASE u = Move(r, "expired")
      BY <1>3, <2>1 DEF Move, StoredProposal
    <2>2. CASE u = Decided(r, e, p, now)
      BY <1>3, <2>2 DEF Decided, MoveWith, Move, StoredProposal
    <2> QED BY <1>4, <2>1, <2>2
  <1>6. \A k \in u.evidence : k \notin page' => k = requests'[p].decision /\ k # NoEvidence
    BY <1>3, <1>5 DEF Heard
  <1>7. PICK c : c = Write(p, r, u, "idle", 0)
    OBVIOUS
  <1>8. c.p = p /\ c.write = u
    BY <1>7 DEF Write
  <1>9. /\ c.p = p
        /\ \A k \in c.write.evidence :
              k \notin page' => k = requests'[p].decision /\ k # NoEvidence
    BY <1>6, <1>8
  <1>10. calls'[w] = c /\ \A v \in Workers : v # w => calls'[v] = calls[v]
    BY <1>4, <1>7 DEF Goto, TypeOK
  <1>11. ASSUME NEW v \in Workers
         PROVE  WriteHeard(calls[v])'
    <2>1. CASE v = w
      BY <1>9, <1>10, <2>1 DEF WriteHeard, Heard
    <2>2. CASE v # w
      <3>1. PICK d : d = calls'[v] /\ WriteHeard(d)
        BY <1>10, <2>2
      <3> QED BY <3>1 DEF WriteHeard, Heard
    <2> QED BY <2>1, <2>2
  <1> QED BY <1>1, <1>11

-----------------------------------------------------------------------------
(* The handlers and their table. *)

\* A persisted decision stays, so what agrees with it goes on agreeing.
DecisionsStay ==
    \A p \in Proposals :
        requests'[p].decision = requests[p].decision \/ requests[p].decision = NoEvidence

\* What the runtime holds stays heard while only the table moves.
LEMMA TableHears ==
    ASSUME RowsHeard, \A v \in Workers : CopyHeard(calls[v]) /\ WriteHeard(calls[v]),
           UNCHANGED <<proposals, calls>>, DecisionsStay, page \subseteq page'
    PROVE  RuntimeHears /\ \A v \in Workers : WriteHeard(calls[v])'
  <1>1. ASSUME NEW p \in Proposals, NEW E, Heard(p, E)
        PROVE  \A e \in E : e \notin page' =>
                   e = requests'[p].decision /\ e # NoEvidence
    BY <1>1 DEF Heard, DecisionsStay
  <1>2. RowsHeard'
    BY <1>1 DEF RowsHeard, Heard
  <1>3. \A v \in Workers : CopyHeard(calls[v])' /\ WriteHeard(calls[v])'
    BY <1>1 DEF CopyHeard, WriteHeard, Heard
  <1> QED BY <1>2, <1>3 DEF RuntimeHears

\* A slip is evidence.
LEMMA SlipsAreEvidence == \A e \in Slip : e # NoEvidence
  <1> SUFFICES ASSUME NEW e \in Slip PROVE e # NoEvidence
    OBVIOUS
  <1>1. e.proposal \in Proposals /\ NoEvidence.proposal = NoProposal
    BY DEF Slip, NoEvidence
  <1> QED BY <1>1, StoreAssumption

\* What the kinds of steps carry.
LEMMA StepKinds ==
    ASSUME NEW d \in Step
    PROVE  /\ d.pc \in {"away", "insert", "check", "record", "deliver"}
           /\ d.pc = "insert" => d.p \in Proposals /\ d.row \in Request
           /\ d.pc = "check" => /\ d.p \in Proposals /\ d.decision \in Decision
                                /\ d.seen \in Slip \union {NoEvidence}
           /\ d.pc \in {"record", "deliver"} => d.p \in Proposals /\ d.evidence \in Slip
  BY DEF Step, Away

\* A handler that does not move goes on agreeing.
LEMMA StaysAgreed ==
    ASSUME NEW d \in Step, Agrees(d), DecisionsStay
    PROVE  /\ d.pc = "insert" => d.row.decision = NoEvidence
           /\ d.pc = "check" => d.seen \in {NoEvidence, requests'[d.p].decision}
           /\ d.pc = "deliver" => d.evidence = requests'[d.p].decision
  <1>1. CASE d.pc = "check"
    BY <1>1, StepKinds DEF Agrees, DecisionsStay
  <1>2. CASE d.pc = "deliver"
    <2>1. d.evidence # NoEvidence /\ d.p \in Proposals
      BY <1>2, StepKinds, SlipsAreEvidence
    <2> QED BY <1>2, <2>1 DEF Agrees, DecisionsStay
  <1> QED BY <1>1, <1>2 DEF Agrees

\* A handler moves and the table agrees with it.
LEMMA DeskStep ==
    ASSUME desk \in [Workers -> Step], \A v \in Workers : Agrees(desk[v]), DecisionsStay,
           NEW w \in Workers, NEW d \in Step, Enter(w, d),
           d.pc = "insert" => d.row.decision = NoEvidence,
           d.pc = "check" => d.seen \in {NoEvidence, requests'[d.p].decision},
           d.pc = "deliver" => d.evidence = requests'[d.p].decision
    PROVE  desk' \in [Workers -> Step] /\ \A v \in Workers : Agrees(desk[v])'
  <1>1. desk' \in [Workers -> Step]
    BY DEF Enter
  <1>2. desk'[w] = d /\ \A v \in Workers : v # w => desk'[v] = desk[v]
    BY DEF Enter
  <1>3. ASSUME NEW v \in Workers
        PROVE  Agrees(desk[v])'
    <2>1. CASE v = w
      BY <1>2, <2>1 DEF Agrees
    <2>2. CASE v # w
      <3>1. desk[v] \in Step /\ Agrees(desk[v]) /\ desk'[v] = desk[v]
        BY <1>2, <2>2
      <3>2. PICK k : k = desk[v]
        OBVIOUS
      <3>3. /\ k.pc = "insert" => k.row.decision = NoEvidence
            /\ k.pc = "check" => k.seen \in {NoEvidence, requests'[k.p].decision}
            /\ k.pc = "deliver" => k.evidence = requests'[k.p].decision
        BY <3>1, <3>2, StaysAgreed
      <3> QED BY <3>1, <3>2, <3>3 DEF Agrees
    <2> QED BY <2>1, <2>2
  <1> QED BY <1>1, <1>3

\* A handler leaves.
LEMMA LeaveStep ==
    ASSUME desk \in [Workers -> Step], \A v \in Workers : Agrees(desk[v]), DecisionsStay,
           NEW w \in Workers, Leave(w)
    PROVE  desk' \in [Workers -> Step] /\ \A v \in Workers : Agrees(desk[v])'
  <1>1. Away \in Step /\ Away.pc = "away"
    BY DEF Step, Away
  <1>2. Enter(w, Away)
    BY DEF Leave
  <1> QED BY <1>1, <1>2, DeskStep

\* expire_due adds no evidence.
LEMMA ExpiryHears ==
    ASSUME TypeOK, RowsHeard,
           \A v \in Workers : CopyHeard(calls[v]) /\ WriteHeard(calls[v]),
           requests' = requests, page \subseteq page', NEW w \in Workers, NEW p \in Proposals, ExpireDue(w, p)
    PROVE  RuntimeHears /\ \A v \in Workers : WriteHeard(calls[v])'
  <1>1. RuntimeHears
    BY StartsHear
  <1>2. PICK r : r = proposals[p]
    OBVIOUS
  <1>3. PICK c : c = Write(p, r, Move(r, "expired"), "idle", 0)
    OBVIOUS
  <1>4. r \in StoredProposal /\ Goto(w, c)
    BY <1>2, <1>3 DEF TypeOK, ExpireDue
  <1>5. c.rec = r /\ c.write.evidence = r.evidence
    BY <1>3, <1>4 DEF Write, Move, StoredProposal
  <1>6. calls'[w] = c /\ \A v \in Workers : v # w => calls'[v] = calls[v]
    BY <1>4 DEF Goto, TypeOK
  <1>7. ASSUME NEW v \in Workers
        PROVE  WriteHeard(calls[v])'
    <2>1. \/ calls'[v].write.evidence \subseteq calls'[v].rec.evidence
          \/ calls'[v] = calls[v]
      BY <1>5, <1>6
    <2> QED BY <1>1, <2>1, ModestWrites
  <1> QED BY <1>1, <1>7

\* The parts of the invariant after a step.
LEMMA ChannelParts ==
    ASSUME RuntimeHears, \A v \in Workers : WriteHeard(calls[v])',
           (requests \in [Proposals -> Request])', (desk \in [Workers -> Step])',
           \A v \in Workers : Agrees(desk[v])'
    PROVE  ChannelInvariant'
  BY DEF ChannelInvariant, RuntimeHears

\* create_approval_request before it inserts.
LEMMA CreateStep ==
    ASSUME EffectInvariant, ChannelInvariant, NEW w \in Workers, NEW p \in Proposals,
           NEW authority \in Approvers, CreateApprovalRequest(w, p, authority)
    PROVE  ChannelInvariant'
  <1>1. TypeOK /\ requests' = requests /\ page' = page /\ DecisionsStay
    BY DEF EffectInvariant, CreateApprovalRequest, DecisionsStay
  <1> USE DEF ChannelInvariant
  <1>2. CASE ExpireDue(w, p) /\ UNCHANGED desk
    <2>1. \A v \in Workers : Agrees(desk[v])'
      BY <1>1, <1>2 DEF Agrees
    <2> QED BY <1>1, <1>2, <2>1, ExpiryHears, ChannelParts
  <1>3. CASE ~Expired(proposals[p], now)
    <2>1. PICK row : row = [ authority |-> authority, expires |-> proposals[p].expiresAt,
                             decision |-> NoEvidence ]
      OBVIOUS
    <2>2. proposals[p].expiresAt \in Nat
      BY <1>1 DEF TypeOK, StoredProposal
    <2>3. row \in Request /\ row.decision = NoEvidence
      BY <2>1, <2>2 DEF Request, Asked
    <2>4. PICK d : d = [pc |-> "insert", p |-> p, row |-> row]
      OBVIOUS
    <2>5. d \in Step /\ d.pc = "insert" /\ d.row = row
      BY <2>3, <2>4 DEF Step
    <2>6. Enter(w, d) /\ UNCHANGED vars
      BY <1>3, <2>1, <2>4 DEF CreateApprovalRequest
    <2>7. desk' \in [Workers -> Step] /\ \A v \in Workers : Agrees(desk[v])'
      BY <1>1, <2>3, <2>5, <2>6, DeskStep
    <2>8. UNCHANGED <<proposals, calls>>
      BY <2>6 DEF vars, store
    <2> QED BY <1>1, <2>7, <2>8, TableHears, ChannelParts
  <1> QED BY <1>2, <1>3 DEF CreateApprovalRequest

\* INSERT ... ON CONFLICT DO NOTHING.
LEMMA InsertStep ==
    ASSUME EffectInvariant, ChannelInvariant, NEW w \in Workers, Insert(w)
    PROVE  ChannelInvariant'
  <1> USE DEF ChannelInvariant
  <1>1. PICK d \in Step : d = desk[w] /\ d.pc = "insert"
    BY DEF Insert
  <1>2. d.p \in Proposals /\ d.row \in Request
    BY <1>1, StepKinds
  <1>3. requests' = requests \/ (requests[d.p] = NoRequest /\ requests' = [requests EXCEPT ![d.p] = d.row])
    BY <1>1 DEF Insert, Bound
  <1>4. requests' \in [Proposals -> Request]
    BY <1>2, <1>3
  <1>5. DecisionsStay
    BY <1>2, <1>3 DEF DecisionsStay, NoRequest
  <1>6. Leave(w) /\ UNCHANGED <<proposals, calls, page>>
    BY DEF Insert, vars, store
  <1>7. desk' \in [Workers -> Step] /\ \A v \in Workers : Agrees(desk[v])'
    BY <1>5, <1>6, LeaveStep
  <1> QED BY <1>4, <1>5, <1>6, <1>7, TableHears, ChannelParts

\* decide_approval_request reads the request.
LEMMA GetStep ==
    ASSUME EffectInvariant, ChannelInvariant, NEW w \in Workers, NEW p \in Proposals,
           NEW decision \in Decision, GetRequest(w, p, decision)
    PROVE  ChannelInvariant'
  <1> USE DEF ChannelInvariant
  <1>1. requests' = requests /\ DecisionsStay /\ UNCHANGED <<proposals, calls, page>>
    BY DEF GetRequest, DecisionsStay, vars, store
  <1>2. PICK seen : seen = requests[p].decision
    OBVIOUS
  <1>3. seen \in Slip \union {NoEvidence}
    BY <1>2 DEF Request
  <1>4. PICK d : d = [pc |-> "check", p |-> p, decision |-> decision, seen |-> seen]
    OBVIOUS
  <1>5. d \in Step /\ d.pc = "check" /\ d.p = p /\ d.seen = seen
    BY <1>3, <1>4 DEF Step
  <1>6. Enter(w, d)
    BY <1>2, <1>4 DEF GetRequest
  <1>7. desk' \in [Workers -> Step] /\ \A v \in Workers : Agrees(desk[v])'
    BY <1>1, <1>2, <1>5, <1>6, DeskStep
  <1> QED BY <1>1, <1>7, TableHears, ChannelParts

\* decide_approval_request checks the binding and issues evidence.
LEMMA CheckStep ==
    ASSUME EffectInvariant, ChannelInvariant, NEW w \in Workers, CheckBinding(w)
    PROVE  ChannelInvariant'
  <1> USE DEF ChannelInvariant
  <1>1. requests' = requests /\ DecisionsStay /\ UNCHANGED <<proposals, calls, page>>
    BY DEF CheckBinding, DecisionsStay, vars, store
  <1>2. PICK d \in Step : d = desk[w] /\ d.pc = "check" /\ Agrees(d)
    BY DEF CheckBinding
  <1>3. /\ d.p \in Proposals /\ d.decision \in Decision
        /\ d.seen \in Slip \union {NoEvidence}
    BY <1>2, StepKinds
  <1>4. PICK row \in Request : row = requests[d.p]
    BY <1>3
  <1>5. PICK slip : slip = Issued(d.p, row.authority, d.decision, row.expires)
    OBVIOUS
  <1>6. slip \in Slip
    <2>1. now \in Nat /\ now + Window \in Nat /\ row.expires \in Nat /\ row.authority \in Asked
      BY ChannelAssumption DEF EffectInvariant, TypeOK, Request
    <2>2. Earlier(row.expires, now + Window) \in Nat
      BY <2>1 DEF Earlier
    <2> QED BY <1>3, <1>5, <2>1, <2>2 DEF Issued, Slip
  <1>7. desk' \in [Workers -> Step] /\ \A v \in Workers : Agrees(desk[v])'
    <2>1. CASE Enter(w, [pc |-> "record", p |-> d.p, evidence |-> slip])
      <3>1. PICK k : k = [pc |-> "record", p |-> d.p, evidence |-> slip]
        OBVIOUS
      <3>2. k \in Step /\ k.pc = "record"
        BY <1>3, <1>6, <3>1 DEF Step
      <3> QED BY <1>1, <2>1, <3>1, <3>2, DeskStep
    <2>2. CASE /\ d.seen # NoEvidence
               /\ Enter(w, [pc |-> "deliver", p |-> d.p, evidence |-> d.seen])
      <3>1. PICK k : k = [pc |-> "deliver", p |-> d.p, evidence |-> d.seen]
        OBVIOUS
      <3>2. k \in Step /\ k.pc = "deliver" /\ k.p = d.p /\ k.evidence = d.seen
        BY <1>3, <2>2, <3>1 DEF Step
      <3>3. d.seen = requests'[d.p].decision
        BY <1>1, <1>2, <2>2 DEF Agrees
      <3> QED BY <1>1, <2>2, <3>1, <3>2, <3>3, DeskStep
    <2>3. CASE Leave(w)
      BY <1>1, <2>3, LeaveStep
    <2> QED BY <1>2, <1>4, <1>5, <2>1, <2>2, <2>3 DEF CheckBinding
  <1> QED BY <1>1, <1>7, TableHears, ChannelParts

\* decide_approval_request persists the first decision.
LEMMA RecordStep ==
    ASSUME EffectInvariant, ChannelInvariant, NEW w \in Workers, RecordDecision(w)
    PROVE  ChannelInvariant'
  <1> USE DEF ChannelInvariant
  <1>1. PICK d \in Step : d = desk[w] /\ d.pc = "record"
    BY DEF RecordDecision
  <1>2. d.p \in Proposals /\ d.evidence \in Slip
    BY <1>1, StepKinds
  <1>3. PICK row \in Request : row = requests[d.p]
    BY <1>2
  <1>4. PICK kept : kept = record_decision(row.decision, d.evidence)
    OBVIOUS
  <1>5. /\ kept \in Slip
        /\ kept = row.decision \/ row.decision = NoEvidence
    BY <1>2, <1>4 DEF record_decision, Request
  <1>6. PICK new : new = [row EXCEPT !.decision = kept]
    OBVIOUS
  <1>7. new \in Request /\ new.decision = kept
    BY <1>5, <1>6 DEF Request
  <1>8. requests' = [requests EXCEPT ![d.p] = new]
    BY <1>1, <1>2, <1>3, <1>4, <1>6 DEF RecordDecision
  <1>9. requests' \in [Proposals -> Request] /\ requests'[d.p].decision = kept
    BY <1>2, <1>7, <1>8
  <1>10. DecisionsStay
    BY <1>2, <1>3, <1>5, <1>7, <1>8 DEF DecisionsStay
  <1>11. UNCHANGED <<proposals, calls, page>>
    BY DEF RecordDecision, vars, store
  <1>12. desk' \in [Workers -> Step] /\ \A v \in Workers : Agrees(desk[v])'
    <2>1. CASE Enter(w, [pc |-> "deliver", p |-> d.p, evidence |-> kept])
      <3>1. PICK k : k = [pc |-> "deliver", p |-> d.p, evidence |-> kept]
        OBVIOUS
      <3>2. k \in Step /\ k.pc = "deliver" /\ k.p = d.p /\ k.evidence = kept
        BY <1>2, <1>5, <3>1 DEF Step
      <3> QED BY <1>9, <1>10, <2>1, <3>1, <3>2, DeskStep
    <2>2. CASE Leave(w)
      BY <1>10, <2>2, LeaveStep
    <2> QED BY <1>1, <1>3, <1>4, <2>1, <2>2 DEF RecordDecision
  <1> QED BY <1>9, <1>10, <1>11, <1>12, TableHears, ChannelParts

\* decide_approval_request hands the persisted decision to the runtime.
LEMMA DeliverStep ==
    ASSUME EffectInvariant, ChannelInvariant, NEW w \in Workers, Deliver(w)
    PROVE  ChannelInvariant'
  <1> USE DEF ChannelInvariant
  <1>1. TypeOK /\ requests' = requests /\ page' = page /\ DecisionsStay
    BY DEF EffectInvariant, Deliver, DecisionsStay
  <1>2. PICK d \in Step : d = desk[w] /\ d.pc = "deliver" /\ Agrees(d)
    BY DEF Deliver
  <1>3. d.p \in Proposals /\ d.evidence \in Slip
    BY <1>2, StepKinds
  <1>4. d.evidence = requests[d.p].decision /\ d.evidence # NoEvidence
    BY <1>2, <1>3, SlipsAreEvidence DEF Agrees
  <1>5. Heard(d.p, {d.evidence})'
    BY <1>1, <1>2, <1>4 DEF Heard, Deliver, Leave, Enter
  <1>6. desk' \in [Workers -> Step] /\ \A v \in Workers : Agrees(desk[v])'
    BY <1>1, LeaveStep DEF Deliver
  <1>7. RuntimeHears /\ \A v \in Workers : WriteHeard(calls[v])'
    <2>1. CASE RecordAuthority(w, d.p, d.evidence)
      BY <1>1, <1>3, <1>5, <2>1, AuthorityHears
    <2>2. CASE UNCHANGED vars
      <3>1. UNCHANGED <<proposals, calls>>
        BY <2>2 DEF vars, store
      <3> QED BY <1>1, <3>1, TableHears
    <2> QED BY <1>2, <2>1, <2>2 DEF Deliver
  <1> QED BY <1>1, <1>6, <1>7, ChannelParts

\* A handler is lost.
LEMMA DropStep ==
    ASSUME EffectInvariant, ChannelInvariant, NEW w \in Workers, Drop(w)
    PROVE  ChannelInvariant'
  <1> USE DEF ChannelInvariant
  <1>1. requests' = requests /\ DecisionsStay /\ UNCHANGED <<proposals, calls, page>> /\ Leave(w)
    BY DEF Drop, DecisionsStay, vars, store
  <1>2. desk' \in [Workers -> Step] /\ \A v \in Workers : Agrees(desk[v])'
    BY <1>1, LeaveStep
  <1> QED BY <1>1, <1>2, TableHears, ChannelParts

\* Someone decides on the page.
LEMMA DecideStep ==
    ASSUME EffectInvariant, ChannelInvariant, NEW w \in Workers, NEW p \in Proposals,
           NEW authority \in Approvers, NEW decision \in Decision,
           Decide(w, p, authority, decision)
    PROVE  ChannelInvariant'
  <1> USE DEF ChannelInvariant
  <1>1. TypeOK /\ requests' = requests /\ desk' = desk
    BY DEF EffectInvariant, Decide
  <1>2. PICK e : e = Issued(p, authority, decision, proposals[p].expiresAt)
    OBVIOUS
  <1>3. RecordAuthority(w, p, e) /\ page' = page \union {e}
    BY <1>2 DEF Decide
  <1>4. \A k \in {e} : k \in page'
    BY <1>3
  <1>5. RuntimeHears /\ \A v \in Workers : WriteHeard(calls[v])'
    BY <1>1, <1>3, <1>4, AuthorityHears DEF Heard
  <1>6. \A v \in Workers : Agrees(desk[v])'
    BY <1>1 DEF Agrees
  <1> QED BY <1>1, <1>5, <1>6, ChannelParts

\* The runtime steps without the channel, or nothing happens.
LEMMA ElsewhereStep ==
    ASSUME EffectInvariant, ChannelInvariant, Elsewhere \/ UNCHANGED cvars
    PROVE  ChannelInvariant'
  <1> USE DEF ChannelInvariant
  <1>1. /\ requests' = requests /\ desk' = desk /\ page' = page
        /\ [Next]_vars
        /\ \A v \in Workers :
              \/ calls'[v].write.evidence \subseteq calls'[v].rec.evidence
              \/ calls'[v] = calls[v]
    BY DEF Elsewhere, cvars, vars
  <1>2. RuntimeHears
    BY <1>1, RuntimeStepHears
  <1>3. \A v \in Workers : WriteHeard(calls[v])'
    BY <1>1, <1>2, ModestWrites
  <1>4. \A v \in Workers : Agrees(desk[v])'
    BY <1>1 DEF Agrees
  <1> QED BY <1>1, <1>2, <1>3, <1>4, ChannelParts

\* Every step of the channel preserves its invariant.
LEMMA ChannelInvariantStep ==
    ASSUME EffectInvariant, ChannelInvariant, [ChannelNext]_cvars
    PROVE  ChannelInvariant'
  <1> HIDE DEF ChannelInvariant
  <1> QED BY CreateStep, InsertStep, GetStep, CheckStep, RecordStep, DeliverStep, DropStep,
             DecideStep, ElsewhereStep DEF ChannelNext

\* record_authority is a step of the runtime whatever evidence it is given: what
\* is out of date, misdirected or unknown is refused.
LEMMA AuthorityIsARuntimeStep ==
    ASSUME NEW w \in Workers, NEW p \in Proposals, NEW e, RecordAuthority(w, p, e)
    PROVE  Next
  <1>1. CASE Expired(proposals[p], now)
    <2>1. ExpireDue(w, p)
      BY <1>1 DEF RecordAuthority, ExpireDue
    <2> QED BY <2>1 DEF Next
  <1>2. CASE ~Expired(proposals[p], now)
    <2>1. e \in Evidence
      BY <1>2 DEF RecordAuthority, Valid
    <2> QED BY <2>1 DEF Next
  <1> QED BY <1>1, <1>2

\* What the channel does to the runtime is what the runtime's own operations do.
LEMMA ChannelStepIsARuntimeStep ==
    ASSUME ChannelInvariant, [ChannelNext]_cvars
    PROVE  [Next]_vars
  <1>1. ASSUME NEW w \in Workers, NEW p \in Proposals, NEW authority,
               CreateApprovalRequest(w, p, authority)
        PROVE  [Next]_vars
    <2>1. CASE ExpireDue(w, p)
      BY <2>1 DEF Next
    <2>2. CASE UNCHANGED vars
      BY <2>2
    <2> QED BY <1>1, <2>1, <2>2 DEF CreateApprovalRequest
  <1>2. ASSUME NEW w \in Workers, NEW p \in Proposals, NEW authority, NEW decision,
               Decide(w, p, authority, decision)
        PROVE  [Next]_vars
    BY <1>2, AuthorityIsARuntimeStep DEF Decide
  <1>3. ASSUME NEW w \in Workers, Deliver(w)
        PROVE  [Next]_vars
    <2>1. desk[w].p \in Proposals
      BY <1>3, StepKinds DEF Deliver, ChannelInvariant
    <2> QED BY <1>3, <2>1, AuthorityIsARuntimeStep DEF Deliver
  <1>4. ASSUME NEW w \in Workers,
               \/ \E p \in Proposals, decision \in Decision : GetRequest(w, p, decision)
               \/ Insert(w) \/ CheckBinding(w) \/ RecordDecision(w) \/ Drop(w)
        PROVE  [Next]_vars
    <2>1. UNCHANGED vars
      BY <1>4 DEF GetRequest, Insert, CheckBinding, RecordDecision, Drop
    <2> QED BY <2>1
  <1>5. ASSUME Elsewhere \/ UNCHANGED cvars
        PROVE  [Next]_vars
    BY <1>5 DEF Elsewhere, cvars
  <1> DEFINE Goal == [Next]_vars
  <1> HIDE DEF Goal
  <1>6. Goal
    BY <1>1, <1>2, <1>3, <1>4, <1>5 DEF ChannelNext, Goal
  <1> QED BY <1>6 DEF Goal

\* Nothing is requested, carried or decided at first.
LEMMA InitiallyHeard == ChannelInit => ChannelInvariant
  <1> SUFFICES ASSUME ChannelInit PROVE ChannelInvariant
    OBVIOUS
  <1> USE DEF ChannelInit
  <1>1. NoRequest \in Request
    BY DEF NoRequest, Request, Asked
  <1>2. Away \in Step /\ Agrees(Away)
    BY DEF Step, Away, Agrees
  <1>3. \A p : Heard(p, {})
    BY DEF Heard
  <1>4. AbsentProposal.evidence = {} /\ NoCall.rec.evidence = {} /\ NoCall.write.evidence = {}
    BY DEF AbsentProposal, NoCall, Suspend
  <1>5. RowsHeard
    BY <1>3, <1>4 DEF RowsHeard, Init
  <1>6. \A w \in Workers : CopyHeard(calls[w]) /\ WriteHeard(calls[w])
    BY <1>3, <1>4 DEF CopyHeard, WriteHeard, Init
  <1> QED BY <1>1, <1>2, <1>5, <1>6 DEF ChannelInvariant

-----------------------------------------------------------------------------
(* What follows. *)

\* The runtime's invariant and the channel's hold behind every channel.
THEOREM ChannelInvariantHolds == ChannelSpec => [](EffectInvariant /\ ChannelInvariant)
  <1>1. ChannelInit => EffectInvariant /\ ChannelInvariant
    BY InitiallyEffect, InitiallyHeard DEF ChannelInit
  <1>2. EffectInvariant /\ ChannelInvariant /\ [ChannelNext]_cvars
          => EffectInvariant' /\ ChannelInvariant'
    BY EffectInvariantStep, ChannelStepIsARuntimeStep, ChannelInvariantStep
  <1> QED BY <1>1, <1>2, PTL DEF ChannelSpec

\* Behind an approval channel the runtime is the runtime of ActionRuntime:
\* requests, callbacks and decisions on the page reach it through its own
\* operations only, so every theorem about Spec holds behind the channel.
THEOREM ChannelImplementsRuntime == ChannelSpec => Spec
  <1>1. ChannelInit => Init
    BY DEF ChannelInit
  <1>2. ChannelInvariant /\ [ChannelNext]_cvars => [Next]_vars
    BY ChannelStepIsARuntimeStep
  <1> QED BY <1>1, <1>2, ChannelInvariantHolds, PTL DEF ChannelSpec, Spec

\* Whatever callbacks are repeated, raced, contradicted or lost, and whatever
\* anyone decides on the page besides, evidence that the page did not issue is
\* the decision that decide_approval_request persisted first.
THEOREM DecisionSpeaks == ChannelSpec => []PersistedDecisionSpeaks
  <1>1. ChannelInvariant => PersistedDecisionSpeaks
    BY DEF ChannelInvariant, RowsHeard, Heard, PersistedDecisionSpeaks
  <1> QED BY <1>1, ChannelInvariantHolds, PTL

\* Behind the channel the executor is only called while the proposal is
\* unexpired, leased, and approved by evidence that is valid at that moment.
THEOREM ChannelAuthorityCoversExecutor == ChannelSpec => []ExecutorRunsUnderAuthority
  BY ChannelImplementsRuntime, AuthorityCoversExecutor, PTL
=============================================================================
