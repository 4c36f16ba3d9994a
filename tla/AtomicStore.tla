---------------------------- MODULE AtomicStore ----------------------------
(***************************************************************************)
(* What the store contract promises of the proposals that compete for one  *)
(* semantic effect: every operation is one indivisible step (the in-memory *)
(* store under its lock).  SqlStore implements it with transactions.       *)
(***************************************************************************)
EXTENDS Lifecycle

CONSTANTS Proposals, NoProposal

VARIABLES rows, receipts, owner

Init ==
  /\ rows = [p \in Proposals |-> [status |-> "authorized", revision |-> 0, erasure |-> "none"]]
  /\ receipts = [p \in Proposals |-> 0]
  /\ owner = NoProposal

Stores(p, row, count) ==
  /\ rows' = [rows EXCEPT ![p] = row]
  /\ receipts' = [receipts EXCEPT ![p] = count]

\* compare_and_set appends one receipt; entering executing needs the claim.
CompareAndSet(p) ==
  /\ rows[p].erasure # "erased"
  /\ \E s \in AllowedNext(rows[p].status) :
       /\ s = "executing" => owner = p
       /\ Stores(p, [rows[p] EXCEPT !.status = s, !.revision = @ + 1], receipts[p] + 1)
  /\ UNCHANGED owner

\* Proposals that ended without an effect.  A stale owner may be superseded while
\* PostgreSQL moves its claim, whose test does not lock the owner's row.
EndedWithoutEffect == ReleasesClaim \union {"superseded"}

\* _claim_effect_locked
Admit(p) ==
  /\ rows[p].status = "authorized" /\ rows[p].erasure = "none"
  /\ owner \in {NoProposal, p} \/ rows[owner].status \in EndedWithoutEffect
  /\ Stores(p, [rows[p] EXCEPT !.status = "executing", !.revision = @ + 1], receipts[p] + 1)
  /\ owner' = p

MarkErasurePending(p) ==
  /\ rows[p].status \in Erasable /\ rows[p].erasure = "none"
  /\ Stores(p, [rows[p] EXCEPT !.erasure = "pending", !.revision = @ + 1], receipts[p])
  /\ UNCHANGED owner

CompleteErasure(p) ==
  /\ rows[p].erasure = "pending"
  /\ Stores(p, [rows[p] EXCEPT !.erasure = "erased", !.revision = @ + 1], 0)
  /\ UNCHANGED owner

Next == \E p \in Proposals :
          CompareAndSet(p) \/ Admit(p) \/ MarkErasurePending(p) \/ CompleteErasure(p)

Spec == Init /\ [][Next]_<<rows, receipts, owner>>
=============================================================================
