-------------------------- MODULE EffectAdmission --------------------------
(***************************************************************************)
(* What the runtime promises about business effects, without its store,    *)
(* calls, clock or lifecycle.  A proposal is admitted to an effect nobody  *)
(* else may still cause; only then the effect may happen, once; and a      *)
(* verdict on a proposal agrees with what happened.                        *)
(***************************************************************************)
CONSTANTS Proposals, Effects, EffectOf, NoProposal

VARIABLES
    owner,     \* the proposal an effect is reserved for
    verdict,   \* per proposal: "none" (no effect), "open" (unknown), "done"
    happened   \* the effects that happened

Init ==
    /\ owner = [e \in Effects |-> NoProposal]
    /\ verdict = [p \in Proposals |-> "none"]
    /\ happened = {}

\* p is admitted: whoever held the effect before certainly did not cause it.
Admit(p) ==
    LET e == EffectOf[p]
    IN  /\ verdict[p] = "none"
        /\ e \notin happened
        /\ owner[e] \in Proposals => verdict[owner[e]] = "none"
        /\ owner' = [owner EXCEPT ![e] = p]
        /\ verdict' = [verdict EXCEPT ![p] = "open"]
        /\ UNCHANGED happened

\* The effect happens, on behalf of its owner while the verdict is open.
Happen(p) ==
    LET e == EffectOf[p]
    IN  /\ verdict[p] = "open"
        /\ owner[e] = p
        /\ e \notin happened
        /\ happened' = happened \cup {e}
        /\ UNCHANGED <<owner, verdict>>

\* The effect is ruled out; p may be admitted again, or another in its place.
RuleOut(p) ==
    /\ verdict[p] = "open"
    /\ owner[EffectOf[p]] = p
    /\ EffectOf[p] \notin happened
    /\ verdict' = [verdict EXCEPT ![p] = "none"]
    /\ UNCHANGED <<owner, happened>>

Confirm(p) ==
    /\ verdict[p] = "open"
    /\ owner[EffectOf[p]] = p
    /\ EffectOf[p] \in happened
    /\ verdict' = [verdict EXCEPT ![p] = "done"]
    /\ UNCHANGED <<owner, happened>>

Next ==
    \E p \in Proposals : Admit(p) \/ Happen(p) \/ RuleOut(p) \/ Confirm(p)

Spec == Init /\ [][Next]_<<owner, verdict, happened>>
=============================================================================
