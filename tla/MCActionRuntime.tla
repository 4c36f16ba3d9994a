-------------------------- MODULE MCActionRuntime --------------------------
(***************************************************************************)
(* Small instances of ActionRuntime for TLC.                               *)
(***************************************************************************)
EXTENDS ActionRuntimeInvariant, EvidenceExport, RecoveryView, TLC

CONSTANTS p1, p2, w1, w2, refund

\* Two proposals for one business effect.
SameEffect == [p \in Proposals |-> refund]

Signed(p, authority, decision, issued, expires) ==
    [ proposal |-> p, authority |-> authority, decision |-> decision,
      issued |-> issued, expires |-> expires ]

\* One authority suffices; it approves either proposal until the end.
OneApproval ==
    {Signed(p, "alice", "approve", 0, MaxTime + 1) : p \in Proposals}

AliceOnly == {"alice"}

WorkerSymmetry == Permutations(Workers)
=============================================================================
