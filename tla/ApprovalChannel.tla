-------------------------- MODULE ApprovalChannel --------------------------
(***************************************************************************)
(* Approval requests and their callbacks in front of the runtime: a host   *)
(* binds a request to one proposal and one approver, persists the first    *)
(* decision with its evidence, and only then calls record_authority.       *)
(* Any approver, bound to a request or not, may also decide on the host's  *)
(* page, which calls it directly.                                          *)
(*                                                                         *)
(* The handlers are those of the Stripe refund application; they run on    *)
(* the workers of ActionRuntime and lose their place when they crash.      *)
(***************************************************************************)
EXTENDS ActionRuntime

CONSTANTS
  Approvers,   \* who has the approver's role in the tenant, counted by a policy or not
  Window,      \* lifetime of the evidence that the host issues
  MaxPage      \* bound: pieces of evidence that the page issues

ASSUME ChannelAssumption == Window \in Nat \ {0} /\ MaxPage \in Nat

VARIABLES
  requests,    \* the approval_requests row of each proposal
  desk,        \* the handler that each worker runs in front of a runtime call
  page         \* history: the evidence that the page has issued

cvars == <<vars, requests, desk, page>>

NoEvidence == [proposal |-> NoProposal]
NoRequest == [authority |-> "none", expires |-> 0, decision |-> NoEvidence]
Bound(p) == requests[p] # NoRequest
Away == [pc |-> "away"]

Free(w) == calls[w].pc = "idle" /\ desk[w] = Away
Enter(w, step) == desk' = [desk EXCEPT ![w] = step]
Leave(w) == Enter(w, Away)

Earlier(s, t) == IF s < t THEN s ELSE t
Issued(p, authority, decision, until) ==
  [ proposal |-> p, authority |-> authority, decision |-> decision,
    issued |-> now, expires |-> Earlier(until, now + Window) ]
-----------------------------------------------------------------------------
(* create_approval_request *)

CreateApprovalRequest(w, p, authority) ==
  /\ Free(w)
  /\ proposals[p].status = "awaiting_authority" /\ proposals[p].erasure = "none"
  /\ IF Expired(proposals[p], now)
     THEN ExpireDue(w, p) /\ UNCHANGED desk
     ELSE /\ Enter(w, [pc |-> "insert", p |-> p, row |->
               [ authority |-> authority, expires |-> proposals[p].expiresAt,
                 decision |-> NoEvidence ]])
          /\ UNCHANGED vars
  /\ UNCHANGED <<requests, page>>

\* ON CONFLICT DO NOTHING: a row that is there stays, bound the same way or not.
Insert(w) ==
  /\ desk[w].pc = "insert"
  /\ requests' = IF Bound(desk[w].p) THEN requests ELSE [requests EXCEPT ![desk[w].p] = desk[w].row]
  /\ Leave(w)
  /\ UNCHANGED <<vars, page>>
-----------------------------------------------------------------------------
(* decide_approval_request *)

GetRequest(w, p, decision) ==
  /\ Free(w)
  /\ Bound(p)
  /\ Enter(w, [pc |-> "check", p |-> p, decision |-> decision, seen |-> requests[p].decision])
  /\ UNCHANGED <<vars, requests, page>>

\* The proposal is reloaded and compared; evidence is issued only for a request
\* that was read without a decision.
CheckBinding(w) ==
  LET d == desk[w]
      row == requests[d.p]
  IN  /\ d.pc = "check"
      /\ \/ /\ d.seen = NoEvidence /\ proposals[d.p].erasure # "erased" /\ now < row.expires
            /\ Enter(w, [pc |-> "record", p |-> d.p,
                         evidence |-> Issued(d.p, row.authority, d.decision, row.expires)])
         \/ /\ d.seen # NoEvidence /\ proposals[d.p].erasure # "erased" /\ d.seen.decision = d.decision
            /\ Enter(w, [pc |-> "deliver", p |-> d.p, evidence |-> d.seen])
         \/ /\ \/ proposals[d.p].erasure = "erased"
               \/ d.seen = NoEvidence /\ now >= row.expires
               \/ d.seen # NoEvidence /\ d.seen.decision # d.decision
            /\ Leave(w)
      /\ UNCHANGED <<vars, requests, page>>

LastWriteWins(current, evidence) ==
  IF current = NoEvidence \/ current.decision = evidence.decision THEN evidence ELSE current

\* The decision kept by a row that is locked: the first one.
record_decision(current, evidence) == IF current = NoEvidence THEN evidence ELSE current

\* A contradiction is refused; otherwise what is delivered is what is kept.
RecordDecision(w) ==
  LET p == desk[w].p
      kept == record_decision(requests[p].decision, desk[w].evidence)
  IN  /\ desk[w].pc = "record"
      /\ requests' = [requests EXCEPT ![p].decision = kept]
      /\ IF kept.decision = desk[w].evidence.decision
         THEN Enter(w, [pc |-> "deliver", p |-> p, evidence |-> kept])
         ELSE Leave(w)
      /\ UNCHANGED <<vars, page>>

\* record_authority refuses what is decided, bound or timed otherwise.
Deliver(w) ==
  LET p == desk[w].p
      e == desk[w].evidence
  IN  /\ desk[w].pc = "deliver"
      /\ \/ RecordAuthority(w, p, e)
         \/ /\ \/ proposals[p].status # "awaiting_authority"
               \/ proposals[p].erasure # "none"
               \/ e \in proposals[p].evidence
               \/ ~Expired(proposals[p], now) /\ e \notin Valid(Evidence, p, now)
            /\ UNCHANGED vars
      /\ Leave(w)
      /\ UNCHANGED <<requests, page>>

Drop(w) ==
  /\ desk[w] # Away
  /\ Leave(w)
  /\ UNCHANGED <<vars, requests, page>>
-----------------------------------------------------------------------------
\* decide: evidence issued now for an approver, whatever requests say.
Decide(w, p, authority, decision) ==
  LET evidence == Issued(p, authority, decision, proposals[p].expiresAt)
  IN  /\ Free(w)
      /\ Cardinality(page) < MaxPage
      /\ RecordAuthority(w, p, evidence)
      /\ page' = page \cup {evidence}
      /\ UNCHANGED <<requests, desk>>

\* Any other step of the runtime; a worker at the desk takes none.
Elsewhere ==
  /\ Next
  /\ \A w \in Workers :
       /\ desk[w] # Away => calls'[w] = calls[w]
       /\ calls'[w].write.evidence \subseteq calls'[w].rec.evidence \/ calls'[w] = calls[w]
  /\ UNCHANGED <<requests, desk, page>>

ChannelInit ==
  /\ Init
  /\ requests = [p \in Proposals |-> NoRequest]
  /\ desk = [w \in Workers |-> Away]
  /\ page = {}

ChannelNext ==
  \/ \E w \in Workers, p \in Proposals :
       \/ \E authority \in Approvers : CreateApprovalRequest(w, p, authority)
       \/ \E decision \in Decision :
            \/ GetRequest(w, p, decision)
            \/ \E authority \in Approvers : Decide(w, p, authority, decision)
  \/ \E w \in Workers : Insert(w) \/ CheckBinding(w) \/ RecordDecision(w) \/ Deliver(w) \/ Drop(w)
  \/ Elsewhere

ChannelSpec == ChannelInit /\ [][ChannelNext]_cvars
-----------------------------------------------------------------------------
(* Whatever callbacks are repeated, raced, contradicted or lost, and whatever *)
(* the same approver decides on the page besides, evidence in the runtime    *)
(* that the page did not issue is the one decision that the request keeps,   *)
(* to the second it was issued: a contradicted or abandoned callback never   *)
(* reaches record_authority.                                                 *)
PersistedDecisionSpeaks ==
  \A p \in Proposals :
    proposals[p].evidence \ page \subseteq {requests[p].decision} \ {NoEvidence}
=============================================================================
