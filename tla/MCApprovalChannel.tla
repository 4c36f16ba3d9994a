------------------------- MODULE MCApprovalChannel -------------------------
(***************************************************************************)
(* Two of two approvers, and a third whose approval does not count; each   *)
(* may be bound to the request and each may decide on the page.            *)
(***************************************************************************)
EXTENDS ApprovalChannel, TLC

CONSTANTS p1, w1, w2, refund

OneEffect == [p \in Proposals |-> refund]
AliceAndBob == {"alice", "bob"}
Everyone == {"alice", "bob", "mallory"}

\* Everything that hosts can issue within the bound of the clock, and an early
\* approval by somebody whose approval does not count.
Issuable ==
  { e \in [ proposal : Proposals, authority : Everyone, decision : Decision,
            issued : 0..MaxTime, expires : 1..(MaxTime + Window) ]
      : /\ e.expires - e.issued \in 1..Window
        /\ e.authority = "mallory" => e.decision = "approve" /\ e.issued = 0 }

WorkerSymmetry == Permutations(Workers)
=============================================================================
