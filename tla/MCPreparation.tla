--------------------------- MODULE MCPreparation ---------------------------
(***************************************************************************)
(* Small instances of Preparation for TLC.                                 *)
(***************************************************************************)
EXTENDS Preparation, TLC

Symmetric == Permutations(Calls) \cup Permutations(References)
=============================================================================
