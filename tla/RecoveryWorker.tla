--------------------------- MODULE RecoveryWorker ---------------------------
(***************************************************************************)
(* Recovery workers that scan for due proposals, lease each item in the    *)
(* host's durable schedule, run the advised operation and acknowledge it,  *)
(* on proposals for one business effect.  A scan passes its cutoff as the  *)
(* time of every claim and deferral, so a slow scan works with old times.  *)
(*                                                                         *)
(* Every time is kept relative to now: what is left of a lease, and the    *)
(* age of a scan's cutoff.  Runtime calls are cut at the await of executor *)
(* or verifier; ActionRuntime models their other awaits.  A page holds all *)
(* due items, in any order.                                                *)
(***************************************************************************)
EXTENDS Lifecycle, Integers

CONSTANTS
  Proposals, Workers,
  Handles,         \* the proposals whose action type each worker has configured
  LeaseDuration, RetryDelay,
  RuntimeLease,    \* execution and verification lease of the action
  Ttl, MaxAttempts, AllowResend,
  MaxScanAge,      \* bound of the time a scan takes
  MaxFaults        \* bound of raised operations and lost workers

NoOne == "none"
Never == 99                         \* 'infinity'::timestamptz

\* No duration is as long as infinity, and no one is called none.
ASSUME RecoveryAssumption ==
  /\ Handles \in [Workers -> SUBSET Proposals]
  /\ {LeaseDuration, RetryDelay, RuntimeLease, Ttl, MaxAttempts, MaxScanAge} \subseteq Nat \ {0}
  /\ AllowResend \in BOOLEAN /\ MaxFaults \in Nat
  /\ \A duration \in {LeaseDuration, RetryDelay, RuntimeLease, Ttl} : duration < Never
  /\ NoOne \notin Proposals \union Workers

VARIABLES
  prop,      \* status, time to the next verification, to expiry, attempts, last writer
  owner,     \* the proposal that claims the effect
  schedule,  \* the host's recovery_schedule row of each proposal
  worker,    \* each worker's scan
  told,      \* proposals reported to operators as needing attention
  faults

rvars == <<prop, owner, schedule, worker, told, faults>>

NoSchedule == [token |-> NoOne, left |-> 0, next |-> 0]
Asleep == [pc |-> "idle", age |-> 0, items |-> {}, item |-> [on |-> NoOne, op |-> NoOne],
           ends |-> NoOne]

Unfinished == LifecycleStatus \ AutomaticProcessingClosed
-----------------------------------------------------------------------------
(* Discovery *)

Unadvised(p) ==
  CASE prop[p].status \in {"executing", "failed_unknown", "verification_pending"}
         -> IF prop[p].due <= 0 THEN "reconcile" ELSE "nothing"
    [] prop[p].status = "authorized" -> "execute"
    [] OTHER -> "nothing"

\* discover_due with the cutoff now.  Rows without a verification time do not occur.
Due(p) ==
  CASE prop[p].status \in {"awaiting_authority", "authorized"} /\ prop[p].ttl = 0 -> "expire"
    [] prop[p].status = "authorized" /\ prop[p].ttl > 0 -> "execute"
    [] prop[p].status \in {"executing", "failed_unknown", "verification_pending"}
         /\ prop[p].due <= 0 -> "reconcile"
    [] OTHER -> "nothing"

scan(w) ==
  LET items == { i \in [on : Proposals, op : {"expire", "execute", "reconcile"}] :
                   i.op = Due(i.on) }
  IN  /\ worker[w].pc = "idle" /\ items # {}
      /\ worker' = [worker EXCEPT ![w] = [Asleep EXCEPT !.pc = "scan", !.items = items]]
      /\ UNCHANGED <<prop, owner, schedule, told, faults>>
-----------------------------------------------------------------------------
(* The durable schedule *)

IgnoresLease(row, age) == row = NoSchedule \/ row.next <= -age

\* An absent row, or one whose lease and deferral had both passed at the cutoff.
MayClaim(row, age) == row = NoSchedule \/ (row.left <= -age /\ row.next <= -age)

claim(p, w, age) ==
  [token |-> w, left |-> LeaseDuration - age,
   next |-> IF schedule[p] = NoSchedule THEN -age ELSE schedule[p].next]

Overwrites(p, w, age, ends) ==
  CASE ends = "completed" -> NoSchedule
    [] ends = "attention" -> [token |-> w, left |-> Never, next |-> Never]
    [] ends = "deferred" -> [token |-> w, left |-> RetryDelay - age, next |-> RetryDelay - age]

\* The row after complete: only the worker whose token it holds changes it.
complete(p, w, age, ends) ==
  IF schedule[p].token # w THEN schedule[p]
  ELSE CASE ends = "completed" -> NoSchedule
         [] ends = "attention" -> [schedule[p] EXCEPT !.left = Never, !.next = Never]
         [] ends = "deferred" -> [schedule[p] EXCEPT !.left = RetryDelay - age,
                                                     !.next = RetryDelay - age]
-----------------------------------------------------------------------------
(* One item *)

Goto(w, pc) == worker' = [worker EXCEPT ![w].pc = pc]
End(w, ends) == worker' = [worker EXCEPT ![w].pc = "acknowledge", ![w].ends = ends]
Lease(w, item) ==
  LET rest == worker[w].items \ {item}
      leased == MayClaim(schedule[item.on], worker[w].age)
      start == IF item.on \notin Handles[w] THEN "acknowledge"
               ELSE IF item.op = "execute" THEN "read" ELSE "call"
      next == [worker[w] EXCEPT !.items = rest]
  IN  /\ worker[w].pc = "scan" /\ item \in worker[w].items
      /\ schedule' = IF leased
                     THEN [schedule EXCEPT ![item.on] = claim(item.on, w, worker[w].age)]
                     ELSE schedule
      /\ worker' = [worker EXCEPT ![w] =
           IF leased THEN [next EXCEPT !.pc = start, !.item = item,
                                       !.ends = IF start = "acknowledge" THEN "attention"
                                                 ELSE worker[w].ends]
           ELSE IF rest = {} THEN Asleep ELSE next]
      /\ UNCHANGED <<prop, owner, told, faults>>

\* read_recovery advises execution only of an unexpired row that no sibling owns.
ReadAdvice(w) ==
  LET p == worker[w].item.on
      advised == prop[p].status = "authorized" /\ prop[p].ttl > 0 /\ owner \in {NoOne, p}
  IN  /\ worker[w].pc = "read"
      /\ IF advised THEN Goto(w, "call") ELSE End(w, "deferred")
      /\ UNCHANGED <<prop, owner, schedule, told, faults>>

Wrote(p, w, status, due) ==
  prop' = [prop EXCEPT ![p].status = status, ![p].due = due, ![p].by = w]
Claimable(p) == owner \notin {NoOne, p} => prop[owner].status \in ReleasesClaim

CallExecute(w) ==
  LET p == worker[w].item.on
  IN  /\ worker[w].pc = "call" /\ worker[w].item.op = "execute"
      /\ \/ /\ prop[p].status = "authorized" /\ prop[p].ttl > 0 /\ Claimable(p)
            /\ Wrote(p, w, "executing", RuntimeLease)
            /\ owner' = p
            /\ Goto(w, "await")
         \/ /\ prop[p].status = "authorized"
            /\ \E status \in IF prop[p].ttl = 0 THEN {"expired"} ELSE {"blocked", "stale"} :
                 Wrote(p, w, status, 0)
            /\ End(w, "completed")
            /\ UNCHANGED owner
         \/ /\ prop[p].status # "authorized" \/ ~Claimable(p)
            /\ End(w, "completed")
            /\ UNCHANGED <<prop, owner>>
      /\ UNCHANGED <<schedule, told, faults>>

CallExpire(w) ==
  LET p == worker[w].item.on
  IN  /\ worker[w].pc = "call" /\ worker[w].item.op = "expire"
      /\ IF prop[p].status \in {"awaiting_authority", "authorized"} /\ prop[p].ttl = 0
         THEN Wrote(p, w, "expired", 0) ELSE UNCHANGED prop
      /\ End(w, "completed")
      /\ UNCHANGED <<owner, schedule, told, faults>>

\* The outcome becomes pending, is given up, or is leased for one more look.
CallReconcile(w) ==
  LET p == worker[w].item.on
      first == worker[w].pc = "call"
      mine == first \/ prop[p].by = w
      status == prop[p].status
      due == prop[p].due <= 0
      unproven == first /\ (status = "failed_unknown" \/ (status = "executing" /\ due))
      pending == mine /\ status = "verification_pending" /\ due
  IN  /\ worker[w].pc \in {"call", "continue"} /\ worker[w].item.op = "reconcile"
      /\ \/ /\ ~unproven /\ ~pending
            /\ End(w, "completed")
            /\ UNCHANGED prop
         \/ /\ unproven
            /\ Wrote(p, w, "verification_pending", prop[p].due)
            /\ Goto(w, "continue")
         \/ /\ pending /\ prop[p].attempts >= MaxAttempts
            /\ Wrote(p, w, "verification_unresolved", 0)
            /\ End(w, "completed")
         \/ /\ pending /\ prop[p].attempts < MaxAttempts
            /\ prop' = [prop EXCEPT ![p].due = RuntimeLease, ![p].attempts = @ + 1, ![p].by = w]
            /\ Goto(w, "await")
      /\ UNCHANGED <<owner, schedule, told, faults>>

\* The executor answers; a row that another call moved meanwhile is left alone.
SettleExecution(w) ==
  LET p == worker[w].item.on
  IN  /\ worker[w].pc = "await" /\ worker[w].item.op = "execute"
      /\ IF prop[p].by = w
         THEN \E status \in {"stale", "failed_known", "failed_unknown", "verification_pending"} :
                Wrote(p, w, status, 0)
         ELSE UNCHANGED prop
      /\ End(w, "completed")
      /\ UNCHANGED <<owner, schedule, told, faults>>

SettleVerification(w) ==
  LET p == worker[w].item.on
      absent == IF AllowResend THEN "authorized" ELSE "failed_known"
      again == IF prop[p].attempts >= MaxAttempts
               THEN "verification_unresolved" ELSE "verification_pending"
  IN  /\ worker[w].pc = "await" /\ worker[w].item.op = "reconcile"
      /\ IF prop[p].by = w
         THEN \E status \in {"verified", "failed_known", absent, again} :
                prop' = [prop EXCEPT ![p].status = status, ![p].due = 0,
                                     ![p].attempts = IF status = "authorized" THEN 0 ELSE @]
         ELSE UNCHANGED prop
      /\ End(w, "completed")
      /\ UNCHANGED <<owner, schedule, told, faults>>

\* A call that raises is deferred, one that is denied is suspended.
Raises(w) ==
  /\ faults < MaxFaults
  /\ worker[w].pc \in {"read", "call", "continue", "await"}
  /\ \E ends \in {"deferred", "attention"} : End(w, ends)
  /\ faults' = faults + 1
  /\ UNCHANGED <<prop, owner, schedule, told>>

\* A false answer is reported as lease_lost, whatever was attempted.
Acknowledge(w) ==
  LET p == worker[w].item.on
      held == schedule[p].token = w
  IN  /\ worker[w].pc = "acknowledge"
      /\ schedule' = [schedule EXCEPT ![p] = complete(p, w, worker[w].age, worker[w].ends)]
      /\ told' = IF held /\ worker[w].ends = "attention" THEN told \cup {p} ELSE told
      /\ worker' = [worker EXCEPT ![w] =
           IF worker[w].items = {} THEN Asleep
           ELSE [worker[w] EXCEPT !.pc = "scan", !.item = Asleep.item, !.ends = NoOne]]
      /\ UNCHANGED <<prop, owner, faults>>
-----------------------------------------------------------------------------
(* The world *)

Lost(w) ==
  /\ faults < MaxFaults
  /\ worker[w].pc # "idle"
  /\ worker' = [worker EXCEPT ![w] = Asleep]
  /\ faults' = faults + 1
  /\ UNCHANGED <<prop, owner, schedule, told>>

Decide(p) ==
  /\ prop[p].status = "awaiting_authority" /\ prop[p].ttl > 0
  /\ \E status \in {"authorized", "denied"} : prop' = [prop EXCEPT ![p].status = status]
  /\ UNCHANGED <<owner, schedule, worker, told, faults>>

Down(n, least) == IF n = Never \/ n = least THEN n ELSE n - 1
Tick ==
  /\ \A w \in Workers : worker[w].pc = "idle" \/ worker[w].age < MaxScanAge
  /\ prop' = [p \in Proposals |-> [prop[p] EXCEPT !.due = Down(@, 0), !.ttl = Down(@, 0)]]
  /\ schedule' = [p \in Proposals |->
       IF schedule[p] = NoSchedule THEN NoSchedule
       ELSE [schedule[p] EXCEPT !.left = Down(@, -MaxScanAge), !.next = Down(@, -MaxScanAge)]]
  /\ worker' = [w \in Workers |-> IF worker[w].pc = "idle" THEN worker[w]
                                  ELSE [worker[w] EXCEPT !.age = @ + 1]]
  /\ UNCHANGED <<owner, told, faults>>

RecoveryInit ==
  /\ prop \in [Proposals -> [status : {"awaiting_authority", "authorized"}, due : {0},
                             ttl : {Ttl}, attempts : {0}, by : {NoOne}]]
  /\ owner = NoOne
  /\ schedule = [p \in Proposals |-> NoSchedule]
  /\ worker = [w \in Workers |-> Asleep]
  /\ told = {}
  /\ faults = 0

Work(w) ==
  \/ \E item \in worker[w].items : Lease(w, item)
  \/ ReadAdvice(w) \/ CallExecute(w) \/ CallExpire(w) \/ CallReconcile(w)
  \/ SettleExecution(w) \/ SettleVerification(w) \/ Acknowledge(w)

RecoveryNext ==
  \/ \E w \in Workers : scan(w) \/ Work(w) \/ Raises(w) \/ Lost(w)
  \/ \E p \in Proposals : Decide(p)
  \/ Tick

(* Fairness: hosts run scan again and again, a scan that is neither lost nor *)
(* raised goes on, and time passes.  No one has to decide anything.          *)
RecoverySpec ==
  /\ RecoveryInit /\ [][RecoveryNext]_rvars
  /\ \A w \in Workers : WF_rvars(scan(w)) /\ WF_rvars(Work(w))
  /\ WF_rvars(Tick)
-----------------------------------------------------------------------------
Suspended(p) == schedule[p].left = Never /\ schedule[p].next = Never
WorksOn(w, p) == worker[w].item.on = p

(* Two workers run operations on one proposal only when one of them has      *)
(* outlived its lease, although leases start at the cutoff of the scan and   *)
(* not at the time of the claim.                                             *)
LeasesExclude ==
  \A w, v \in Workers : \A p \in Proposals :
    w # v /\ WorksOn(w, p) /\ WorksOn(v, p) =>
      worker[w].age >= LeaseDuration \/ worker[v].age >= LeaseDuration

(* What was reported for operator attention stays suspended: no late worker, *)
(* whatever it meant to acknowledge, puts the item back into circulation.    *)
AttentionIsSuspended == \A p \in told : Suspended(p)

(* Every unfinished proposal ends in a status that automatic processing has  *)
(* closed or is suspended for an operator: also one whose effect a failed or *)
(* expired sibling keeps, one that is resent again and again, and one whose  *)
(* worker was lost at any await.                                             *)
UnfinishedWorkEnds ==
  \A p \in Proposals : (prop[p].status \in Unfinished) ~> (prop[p].status \notin Unfinished \/ Suspended(p))
=============================================================================
