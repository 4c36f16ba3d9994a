---------------------------- MODULE ActionStore ----------------------------
(***************************************************************************)
(* The tenant-scoped proposal store (stores/base.py, stores/memory.py and  *)
(* the SQL adapters that implement the same contract).  Every operation is *)
(* one atomic step: the memory store holds its lock, the SQL stores run    *)
(* one transaction on the locked proposal row.                             *)
(*                                                                         *)
(* A stored proposal keeps the fields that steer the lifecycle.  The       *)
(* private payload and the commitment are represented by the availability  *)
(* of their keys in ActionRuntime; preview, result, principals and         *)
(* execution precondition are carried unread by the runtime and left out.  *)
(***************************************************************************)
EXTENDS Lifecycle, FiniteSets, Sequences, SequencesExt

CONSTANTS
    Proposals,          \* proposal references of one tenant and action type
    Effects,            \* semantic effect references
    EffectOf,           \* the effect a proposal was prepared for
    NoProposal,         \* None, for an optional proposal reference
    Evidence,           \* authority evidence that may ever be presented
    UsesDatabaseClock   \* SQL stores compare expiry with their own clock too

VARIABLES
    proposals,   \* _proposals: stored record per proposal reference
    claims,      \* _effect_claims: owner of each semantic effect
    now          \* the clock every participant reads

NoTime == -1

Decision == {"approve", "reject"}

EvidenceRecord ==
    [ proposal : Proposals, authority : STRING, decision : Decision,
      issued : Nat, expires : Nat ]

ReceiptKind ==
    { "prepared", "authority_recorded", "authority_rejected",
      "authority_failed", "started", "accepted", "stale_no_effect",
      "failed_known", "failed_unknown", "partially_succeeded",
      "verified_completion", "verified_terminal_failure",
      "provisional_absence", "authoritative_final_absence",
      "target_unavailable", "verification_resumed" }

\* StoredProposal; "absent" stands for a reference not created yet.
StoredProposal ==
    [ status : LifecycleStatus \cup {"absent"},
      revision : Nat,
      evidence : SUBSET Evidence,
      receipts : Seq(ReceiptKind),
      attempts : Nat,
      nextAt : Int,
      expiresAt : Nat,
      supersededBy : Proposals \cup {NoProposal},
      erasure : {"none", "pending", "erased"} ]

AbsentProposal ==
    [ status |-> "absent", revision |-> 0, evidence |-> {}, receipts |-> <<>>,
      attempts |-> 0, nextAt |-> NoTime, expiresAt |-> 0,
      supersededBy |-> NoProposal, erasure |-> "none" ]

ASSUME StoreAssumption ==
    /\ EffectOf \in [Proposals -> Effects]
    /\ NoProposal \notin Proposals
    /\ Evidence \subseteq EvidenceRecord
    /\ \A e \in Evidence : e.issued < e.expires
    /\ UsesDatabaseClock \in BOOLEAN

-----------------------------------------------------------------------------
(* Store operations. *)

Stored(p) == proposals[p].status # "absent"

\* validate_proposal_update: what every write is checked against.
ValidUpdate(current, updated) ==
    /\ updated.revision = current.revision + 1
    /\ current.erasure = "pending" => updated.erasure # "none"
    /\ updated.erasure # "erased" =>
         /\ current.evidence \subseteq updated.evidence
         /\ IsPrefix(current.receipts, updated.receipts)
    /\ \/ updated.status = current.status
       \/ updated.status \in AllowedNext(current.status)

\* compare_and_set: the revision and status the caller read are still there.
Matches(p, read) ==
    /\ Stored(p)
    /\ proposals[p].revision = read.revision
    /\ proposals[p].status = read.status

\* compare_and_set accepts the write; a match that is not accepted raises
\* StoreInvariantError and leaves the row alone.
Accepts(p, read, updated) ==
    /\ Matches(p, read)
    /\ ValidUpdate(proposals[p], updated)
    /\ (updated.status = "executing" /\ proposals[p].status # "executing")
          => claims[EffectOf[p]] = p

CompareAndSet(p, read, updated) ==
    proposals' = IF Accepts(p, read, updated)
                 THEN [proposals EXCEPT ![p] = updated]
                 ELSE proposals

\* admit_execution: the row may still enter executing, and updated is valid.
Admissible(p, read, admittedAt, updated) ==
    /\ Stored(p)
    /\ proposals[p].revision = read.revision
    /\ proposals[p].status = "authorized"
    /\ proposals[p].erasure = "none"
    /\ proposals[p].expiresAt > admittedAt
    /\ UsesDatabaseClock => proposals[p].expiresAt > now
    /\ ValidUpdate(proposals[p], updated)

\* Mutant: only an owner that is executing keeps the claim.
ClaimableUnlessExecuting(p) ==
    LET owner == claims[EffectOf[p]]
    IN  owner \in Proposals => proposals[owner].status # "executing"

\* _claim_effect_locked: the claim is free, ours, or its owner released it.
Claimable(p) ==
    LET owner == claims[EffectOf[p]]
    IN  \/ owner \in {NoProposal, p}
        \/ owner \in Proposals /\ proposals[owner].status \in ReleasesClaim

\* Mutant: the lifecycle status is not looked at.
MayMarkErasureAnytime(p, read) ==
    /\ Stored(p)
    /\ proposals[p].revision = read.revision
    /\ proposals[p].erasure = "none"

\* mark_erasure_pending on a row that is not pending yet.
MayMarkErasure(p, read) ==
    /\ Stored(p)
    /\ proposals[p].revision = read.revision
    /\ proposals[p].status \in Erasable
    /\ proposals[p].erasure = "none"

\* Mutant: marking keeps the revision.
MarkedInPlace(record) == [record EXCEPT !.erasure = "pending"]

ProposalWithErasurePending(record) ==
    [record EXCEPT !.erasure = "pending", !.revision = @ + 1]

\* complete_erasure: the content-free tombstone keeps status and identity.
MayCompleteErasure(p, read) ==
    /\ Stored(p)
    /\ proposals[p].revision = read.revision
    /\ proposals[p].erasure = "pending"

ErasedProposal(record) ==
    [record EXCEPT !.evidence = {}, !.receipts = <<>>, !.nextAt = NoTime,
                   !.erasure = "erased", !.revision = @ + 1]
=============================================================================
