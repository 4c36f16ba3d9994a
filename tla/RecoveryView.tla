---------------------------- MODULE RecoveryView ----------------------------
(***************************************************************************)
(* How due work is found and explained: PostgresActionWorkSource's query   *)
(* over the proposal rows, and read_recovery with recovery_condition and   *)
(* recovery_steps.  Both are read-only projections of ActionRuntime's rows *)
(* and claims, written apart from the handlers they direct callers to.     *)
(***************************************************************************)
EXTENDS ActionRuntime

\* Mutant: the query leaves out failed_unknown rows.
DueWorkForgetful(record, cutoff) ==
    IF record.status = "authorized" THEN "execute"
    ELSE IF record.status = "awaiting_authority" THEN "expire"
    ELSE IF record.status = "failed_unknown" THEN "none"
    ELSE "reconcile"

\* discover_due: the operation suggested for a row at a cutoff that is not in
\* the future.  status_changed_at has then passed for every authorized row.
DueWork(record, cutoff) ==
    LET open == record.status \in {"awaiting_authority", "authorized"}
        active == record.status \in ReconciliationAvailable
    IN  IF record.erasure # "none" THEN "none"
        ELSE IF open /\ Expired(record, cutoff) THEN "expire"
        ELSE IF record.status = "authorized" THEN "execute"
        ELSE IF active /\ record.nextAt = NoTime THEN "attention"
        ELSE IF active /\ record.nextAt <= cutoff THEN "reconcile"
        ELSE "none"

LastVerification(record) ==
    LET answers == {i \in DOMAIN record.receipts :
                        record.receipts[i] \in VerificationReport}
    IN  IF answers = {} THEN "none"
        ELSE record.receipts[CHOOSE i \in answers : \A j \in answers : j <= i]

\* recovery_condition
RecoveryCondition(record, at) ==
    LET waits == Leased(record, at)
        last == LastVerification(record)
    IN  CASE record.status \in {"awaiting_authority", "authorized"}
                /\ Expired(record, at)             -> "expiry_due"
          [] record.status = "awaiting_authority" /\ ~Expired(record, at)
                                                   -> "waiting_for_authority"
          [] record.status = "authorized" /\ ~Expired(record, at)
                                                   -> "ready_for_execution"
          [] record.status = "executing" /\ waits  -> "active_execution_lease"
          [] record.status = "verification_pending" /\ waits
                                                   -> "waiting_for_provider"
          [] record.status = "verification_pending" /\ ~waits ->
                IF last = "target_unavailable" THEN "observation_unavailable"
                ELSE IF last = "provisional_absence" THEN "waiting_for_provider"
                ELSE "outcome_unproven"
          [] record.status \in {"executing", "failed_unknown"} /\
                ~(record.status = "executing" /\ waits) -> "outcome_unproven"
          [] record.status \in {"verification_unresolved",
                                "partially_succeeded"} -> "operator_attention"
          [] record.status \in {"verified", "failed_known"} -> "resolved"
          [] record.status \in {"stale", "superseded"} -> "replacement_required"
          [] record.status \in {"denied", "expired", "blocked"} -> "refused"

\* _read_effect_owner with a claim that stays put between its two reads; a
\* claim that moves is reported as uncertain, which is treated as elsewhere.
EffectOwnership(p) ==
    LET owner == claims[EffectOf[p]]
    IN  IF owner = NoProposal THEN "unclaimed"
        ELSE IF owner = p THEN "owned_by_this_proposal"
        ELSE "owned_elsewhere"

\* Mutant: a sibling owner is not looked for.
ReadAlone(p, at) ==
    IF proposals[p].erasure # "none" THEN "erased"
    ELSE RecoveryCondition(proposals[p], at)

\* The condition read_recovery reports for a stored proposal.
ReadRecovery(p, at) ==
    LET record == proposals[p]
    IN  IF record.erasure # "none" THEN "erased"
        ELSE IF record.status = "authorized"
                /\ EffectOwnership(p) = "owned_elsewhere"
        THEN "effect_owned_elsewhere"
        ELSE RecoveryCondition(record, at)

-----------------------------------------------------------------------------
(* What must hold. *)

\* A cutoff after every time a row can carry.
Horizon == MaxTime + Ttl + Lease + Delay

\* No open work is forgotten: a row that automatic processing has not closed is
\* found by discover_due once its time has come, with an operation the worker
\* can run, and never as "recovery_schedule_missing".
OpenWorkIsDiscovered ==
    \A p \in Proposals :
        LET record == proposals[p]
        IN  /\ Stored(p)
            /\ record.erasure = "none"
            /\ record.status \notin AutomaticProcessingClosed
            => DueWork(record, Horizon) \in {"expire", "execute", "reconcile"}

\* "ready_for_execution ... has no observed sibling owner" (docs/reference/
\* recovery.md): execution advised by a view that is still current cannot lose
\* admission to another proposal's claim, nor meet an expired or erased row.
ReadyMeansAdmissible ==
    \A p \in Proposals :
        Stored(p) /\ ReadRecovery(p, now) = "ready_for_execution" =>
            /\ Claimable(p)
            /\ Admissible(p, proposals[p], now, Executing(proposals[p], now))
=============================================================================
