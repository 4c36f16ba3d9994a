----------------------------- MODULE Lifecycle -----------------------------
(***************************************************************************)
(* The closed lifecycle vocabulary of a proposal and the static tables the *)
(* runtime, the stores and the recovery views share: which status may      *)
(* follow which, which statuses may be erased, and what each status still  *)
(* allows (models.py, stores/base.py, runtime.py).                         *)
(***************************************************************************)
EXTENDS Integers

LifecycleStatus ==
    { "awaiting_authority", "denied", "expired", "authorized", "blocked",
      "stale", "superseded", "executing", "failed_known", "failed_unknown",
      "verification_pending", "verification_unresolved",
      "partially_succeeded", "verified" }

\* ALLOWED_LIFECYCLE_TRANSITIONS: the statuses that may follow s.
AllowedNext(s) ==
    CASE s = "awaiting_authority" -> {"authorized", "denied", "expired"}
      [] s = "authorized" -> {"blocked", "expired", "executing", "stale"}
      [] s = "executing" ->
            {"stale", "failed_known", "failed_unknown", "verification_pending"}
      [] s = "failed_unknown" -> {"verification_pending"}
      [] s = "verification_pending" ->
            { "authorized", "executing", "failed_known", "failed_unknown",
              "partially_succeeded", "verification_unresolved", "verified" }
      [] s = "stale" -> {"superseded"}
      [] s = "verification_unresolved" -> {"verification_pending"}
      [] OTHER -> {}

\* ERASABLE_LIFECYCLE_STATUSES: no attempt may be in progress.
Erasable ==
    LifecycleStatus \ {"executing", "failed_unknown", "verification_pending"}

\* Mutant: giving up on verification releases the claim as well.
ReleasesClaimUnresolved == {"failed_known", "stale", "verification_unresolved"}

\* Where a claim may move to another proposal: its owner recorded no effect.
ReleasesClaim == {"failed_known", "stale"}

\* _LIFECYCLE_DISPOSITIONS, its three capability columns.
AutomaticProcessingClosed ==
    { "denied", "expired", "blocked", "stale", "superseded", "failed_known",
      "verification_unresolved", "partially_succeeded", "verified" }

ReconciliationAvailable ==
    {"executing", "failed_unknown", "verification_pending"}

OperatorRecoveryAvailable ==
    {"verification_pending", "verification_unresolved"}

\* ActionOperationResult.is_terminal.
Terminal == AutomaticProcessingClosed \ OperatorRecoveryAvailable
=============================================================================
