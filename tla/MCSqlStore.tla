----------------------------- MODULE MCSqlStore -----------------------------
(* Rival proposals of one effect, used by concurrent database clients. *)
EXTENDS SqlStore, TLC

CONSTANTS p1, p2, c1, c2

SqlSymmetry == Permutations(Proposals) \union Permutations(Clients)
=============================================================================
