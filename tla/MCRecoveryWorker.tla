-------------------------- MODULE MCRecoveryWorker --------------------------
(***************************************************************************)
(* Two proposals for one effect and two workers for TLC.                   *)
(***************************************************************************)
EXTENDS RecoveryWorker

CONSTANTS p1, p2, w1, w2

\* The second worker runs a package that does not know the second action type.
BothAndFirst == [w \in Workers |-> IF w = w1 THEN Proposals ELSE {p1}]
=============================================================================
