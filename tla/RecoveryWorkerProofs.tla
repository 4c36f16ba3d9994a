------------------------ MODULE RecoveryWorkerProofs ------------------------
(***************************************************************************)
(* Proofs about RecoveryWorker for any number of workers, proposals and    *)
(* faults and any durations.                                               *)
(*                                                                         *)
(* Leases start at the cutoff of a scan, so a worker's lease and the age   *)
(* of its scan always add up to the lease's duration: the invariant says   *)
(* so of every worker that has not outlived its lease, and that the row    *)
(* still carries its token.                                                *)
(***************************************************************************)
EXTENDS RecoveryWorker, TLAPS

Slot == [token : Workers \union {NoOne}, left : Int, next : Int]

Item == [on : Proposals, op : {"expire", "execute", "reconcile"}]

Ends == {"completed", "attention", "deferred"}

Scan ==
  [ pc : {"idle", "scan", "read", "call", "continue", "await", "acknowledge"},
    age : Nat, items : SUBSET Item, item : Item \union {Asleep.item}, ends : Ends \union {NoOne} ]

Types ==
  /\ schedule \in [Proposals -> Slot]
  /\ worker \in [Workers -> Scan]
  /\ told \subseteq Proposals

\* Only a worker that holds an item has one to acknowledge.
ScanAgrees(w) ==
  /\ worker[w].pc \in {"idle", "scan"} <=> worker[w].item.on = NoOne
  /\ worker[w].pc = "acknowledge" => worker[w].ends \in Ends

\* A worker has outlived its lease, or has it, and for as long as is left.
LeaseAgrees(w) ==
  \A p \in Proposals : WorksOn(w, p) =>
    \/ worker[w].age >= LeaseDuration
    \/ schedule[p].token = w /\ schedule[p].left = LeaseDuration - worker[w].age

\* Nobody who may still change the row works on what operators were told of.
ToldAgrees(p) ==
  Suspended(p) /\ \A w \in Workers : WorksOn(w, p) => schedule[p].token # w

RecoveryInvariant ==
  /\ Types
  /\ \A w \in Workers : ScanAgrees(w) /\ LeaseAgrees(w)
  /\ \A p \in told : ToldAgrees(p)

-----------------------------------------------------------------------------
(* Steps of one worker *)

\* The worker that does nothing.
LEMMA AsleepFields ==
  /\ Asleep \in Scan /\ Asleep.pc = "idle" /\ Asleep.item.on = NoOne
  /\ Asleep.items = {} /\ Asleep.age = 0 /\ Asleep.ends = NoOne
  /\ NoOne \notin Proposals /\ NoOne \notin Workers
  BY RecoveryAssumption DEF Asleep, Scan

\* A step of a worker on its own scan that takes no item.
LEMMA WorkerStep ==
  ASSUME RecoveryInvariant, NEW w \in Workers, NEW n \in Scan,
         worker' = [worker EXCEPT ![w] = n], UNCHANGED <<schedule, told>>,
         n.item.on = NoOne \/ (n.item = worker[w].item /\ n.age = worker[w].age),
         ScanAgrees(w)'
  PROVE  RecoveryInvariant'
  <1>1. /\ worker' \in [Workers -> Scan] /\ worker'[w] = n
        /\ \A v \in Workers : v # w => worker'[v] = worker[v]
    BY DEF RecoveryInvariant, Types
  <1>2. Types'
    BY <1>1 DEF RecoveryInvariant, Types
  <1>3. \A v \in Workers, p \in Proposals : WorksOn(v, p)' => WorksOn(v, p) /\ worker'[v].age = worker[v].age
    BY <1>1, AsleepFields DEF WorksOn
  <1>4. ASSUME NEW v \in Workers
        PROVE  ScanAgrees(v)' /\ LeaseAgrees(v)'
    <2>1. ScanAgrees(v)'
      BY <1>1 DEF RecoveryInvariant, ScanAgrees
    <2>2. LeaseAgrees(v)'
      BY <1>3 DEF RecoveryInvariant, LeaseAgrees
    <2> QED BY <2>1, <2>2
  <1>5. ASSUME NEW p \in told'
        PROVE  ToldAgrees(p)'
    <2>1. p \in Proposals /\ ToldAgrees(p)
      BY DEF RecoveryInvariant, Types
    <2> QED BY <1>3, <2>1 DEF ToldAgrees, Suspended
  <1> QED BY <1>2, <1>4, <1>5 DEF RecoveryInvariant

\* An operation that goes on, raises or ends.
LEMMA OperationStep ==
  ASSUME RecoveryInvariant, NEW w \in Workers, UNCHANGED <<schedule, told>>,
         worker[w].pc \notin {"idle", "scan"},
         \/ \E pc \in {"call", "continue", "await"} : Goto(w, pc)
         \/ \E ends \in Ends : End(w, ends)
  PROVE  RecoveryInvariant'
  <1> DEFINE o == worker[w]
  <1>1. worker \in [Workers -> Scan] /\ o \in Scan /\ ScanAgrees(w)
    BY DEF RecoveryInvariant, Types
  <1>2. ASSUME NEW pc \in {"call", "continue", "await"}, Goto(w, pc)
        PROVE  RecoveryInvariant'
    <2>1. PICK n : n = [o EXCEPT !.pc = pc]
      OBVIOUS
    <2>2. n \in Scan /\ n.pc = pc /\ n.item = o.item /\ n.age = o.age
      BY <1>1, <2>1 DEF Scan
    <2>3. worker' = [worker EXCEPT ![w] = n]
      BY <1>1, <1>2, <2>1 DEF Goto
    <2>4. worker'[w] = n
      BY <1>1, <2>3
    <2>5. ScanAgrees(w)'
      BY <1>1, <2>2, <2>4 DEF ScanAgrees
    <2> QED BY <2>2, <2>3, <2>5, WorkerStep
  <1>3. ASSUME NEW ends \in Ends, End(w, ends)
        PROVE  RecoveryInvariant'
    <2>1. PICK n : n = [o EXCEPT !.pc = "acknowledge", !.ends = ends]
      OBVIOUS
    <2>2. /\ n \in Scan /\ n.pc = "acknowledge" /\ n.ends = ends
          /\ n.item = o.item /\ n.age = o.age
      BY <1>1, <2>1 DEF Scan
    <2>3. worker' = [worker EXCEPT ![w] = n]
      BY <1>1, <1>3, <2>1 DEF End
    <2>4. worker'[w] = n
      BY <1>1, <2>3
    <2>5. ScanAgrees(w)'
      BY <1>1, <2>2, <2>4 DEF ScanAgrees
    <2> QED BY <2>2, <2>3, <2>5, WorkerStep
  <1> QED BY <1>2, <1>3

\* Operations, and what may cut them short.
LEMMA OperationsKeep ==
  ASSUME RecoveryInvariant, NEW w \in Workers,
         \/ ReadAdvice(w) \/ CallExecute(w) \/ CallExpire(w) \/ CallReconcile(w)
         \/ SettleExecution(w) \/ SettleVerification(w) \/ Raises(w)
  PROVE  RecoveryInvariant'
  <1>1. "deferred" \in Ends /\ "completed" \in Ends /\ "attention" \in Ends
    BY DEF Ends
  <1>2. CASE ReadAdvice(w)
    BY <1>1, <1>2, OperationStep DEF ReadAdvice
  <1>3. CASE CallExecute(w)
    BY <1>1, <1>3, OperationStep DEF CallExecute
  <1>4. CASE CallExpire(w)
    BY <1>1, <1>4, OperationStep DEF CallExpire
  <1>5. CASE CallReconcile(w)
    BY <1>1, <1>5, OperationStep DEF CallReconcile
  <1>6. CASE SettleExecution(w)
    BY <1>1, <1>6, OperationStep DEF SettleExecution
  <1>7. CASE SettleVerification(w)
    BY <1>1, <1>7, OperationStep DEF SettleVerification
  <1>8. CASE Raises(w)
    BY <1>1, <1>8, OperationStep DEF Raises
  <1> QED BY <1>2, <1>3, <1>4, <1>5, <1>6, <1>7, <1>8

\* A scan begins; a worker is lost.
LEMMA ScanAndLostKeep ==
  ASSUME RecoveryInvariant, NEW w \in Workers, scan(w) \/ Lost(w)
  PROVE  RecoveryInvariant'
  <1>1. worker \in [Workers -> Scan]
    BY DEF RecoveryInvariant, Types
  <1>2. CASE scan(w)
    <2> DEFINE found == { i \in [on : Proposals, op : {"expire", "execute", "reconcile"}] :
                            i.op = Due(i.on) }
    <2>1. found \subseteq Item
      BY DEF Item
    <2>2. PICK n : n = [Asleep EXCEPT !.pc = "scan", !.items = found]
      OBVIOUS
    <2>3. worker' = [worker EXCEPT ![w] = n] /\ UNCHANGED <<schedule, told>>
      BY <1>2, <2>2 DEF scan
    <2> HIDE DEF found
    <2>4. n \in Scan /\ n.pc = "scan" /\ n.item.on = NoOne
      BY <2>1, <2>2, AsleepFields DEF Scan
    <2>5. worker'[w] = n
      BY <1>1, <2>3
    <2>6. ScanAgrees(w)'
      BY <2>4, <2>5 DEF ScanAgrees
    <2> QED BY <2>3, <2>4, <2>6, WorkerStep
  <1>3. CASE Lost(w)
    <2>1. worker' = [worker EXCEPT ![w] = Asleep] /\ UNCHANGED <<schedule, told>>
      BY <1>3 DEF Lost
    <2>2. worker'[w] = Asleep
      BY <1>1, <2>1
    <2>3. ScanAgrees(w)'
      BY <2>2, AsleepFields DEF ScanAgrees
    <2> HIDE DEF Asleep
    <2> QED BY <2>1, <2>3, AsleepFields, WorkerStep
  <1> QED BY <1>2, <1>3

-----------------------------------------------------------------------------
(* Steps on the schedule *)

\* A row of the schedule, as a claim writes it.
LEMMA ClaimedSlot ==
  ASSUME NEW w \in Workers, NEW x \in Int, NEW y \in Int
  PROVE  [token |-> w, left |-> x, next |-> y] \in Slot
  BY DEF Slot

\* A row that someone else still has cannot be claimed, nor one that operators
\* were told of.
LEMMA ClaimIsLate ==
  ASSUME RecoveryInvariant, NEW w \in Workers, NEW p \in Proposals,
         MayClaim(schedule[p], worker[w].age)
  PROVE  /\ p \notin told
         /\ \A v \in Workers : WorksOn(v, p) => worker[v].age >= LeaseDuration
  <1>1. /\ worker[w].age \in Nat /\ schedule[p] \in Slot
        /\ schedule[p].left \in Int /\ schedule[p].next \in Int
        /\ LeaseDuration \in Nat
    BY RecoveryAssumption DEF RecoveryInvariant, Types, Scan, Slot
  <1>2. NoSchedule.left = 0 /\ NoSchedule.token = NoOne
    BY DEF NoSchedule
  <1>3. schedule[p].left <= 0
    BY <1>1, <1>2 DEF MayClaim
  <1>4. p \notin told
    BY <1>3 DEF RecoveryInvariant, ToldAgrees, Suspended, Never
  <1>5. ASSUME NEW v \in Workers, WorksOn(v, p), ~(worker[v].age >= LeaseDuration)
        PROVE  FALSE
    <2>1. schedule[p].left = LeaseDuration - worker[v].age
      BY <1>5 DEF RecoveryInvariant, LeaseAgrees
    <2>2. worker[v].age \in Nat
      BY DEF RecoveryInvariant, Types, Scan
    <2> QED BY <1>1, <1>3, <1>5, <2>1, <2>2
  <1> QED BY <1>4, <1>5

\* An item is leased, or left for another time.
LEMMA LeaseKeeps ==
  ASSUME RecoveryInvariant, NEW w \in Workers, NEW item \in worker[w].items, Lease(w, item)
  PROVE  RecoveryInvariant'
  <1> DEFINE o == worker[w]
             rest == o.items \ {item}
             next == [o EXCEPT !.items = rest]
             start == IF item.on \notin Handles[w] THEN "acknowledge"
                      ELSE IF item.op = "execute" THEN "read" ELSE "call"
  <1>1. /\ worker \in [Workers -> Scan] /\ o \in Scan /\ ScanAgrees(w)
        /\ schedule \in [Proposals -> Slot] /\ o.pc = "scan" /\ told' = told
    BY DEF RecoveryInvariant, Types, Lease
  <1>2. item \in Item /\ item.on \in Proposals /\ rest \subseteq Item
    BY <1>1 DEF Scan, Item
  <1>3. /\ next \in Scan /\ next.pc = "scan" /\ next.item = o.item /\ next.age = o.age /\ next.ends = o.ends
        /\ o.item.on = NoOne
    BY <1>1, <1>2 DEF Scan, ScanAgrees
  <1>4. CASE ~MayClaim(schedule[item.on], o.age)
    <2>1. PICK n : n = IF rest = {} THEN Asleep ELSE next
      OBVIOUS
    <2>2. schedule' = schedule /\ worker' = [worker EXCEPT ![w] = n]
      BY <1>4, <2>1 DEF Lease
    <2>3. n \in Scan /\ n.pc \in {"idle", "scan"} /\ n.item.on = NoOne
      BY <1>3, <2>1, AsleepFields
    <2>4. worker'[w] = n
      BY <1>1, <2>2
    <2>5. ScanAgrees(w)'
      BY <2>3, <2>4 DEF ScanAgrees
    <2> HIDE DEF o, rest, next
    <2> QED BY <1>1, <2>2, <2>3, <2>5, WorkerStep
  <1>5. CASE MayClaim(schedule[item.on], o.age)
    <2>1. PICK p \in Proposals : p = item.on
      BY <1>2
    <2>2. PICK n : n = [next EXCEPT !.pc = start, !.item = item,
                                    !.ends = IF start = "acknowledge" THEN "attention" ELSE o.ends]
      OBVIOUS
    <2>3. worker' = [worker EXCEPT ![w] = n]
      BY <1>5, <2>2 DEF Lease
    <2>4. schedule' = [schedule EXCEPT ![p] = claim(p, w, o.age)]
      BY <1>5, <2>1 DEF Lease
    <2>5. start \in {"acknowledge", "read", "call"}
      OBVIOUS
    <2>6. "attention" \in Ends
      BY DEF Ends
    <2> HIDE DEF next, start
    <2>7. /\ n \in Scan /\ n.pc = start /\ n.item = item /\ n.age = o.age
          /\ start = "acknowledge" => n.ends \in Ends
      BY <1>1, <1>2, <1>3, <2>2, <2>5, <2>6 DEF Scan
    <2>8. /\ o.age \in Nat /\ LeaseDuration \in Nat /\ schedule[p] \in Slot
      BY <1>1, RecoveryAssumption DEF Scan
    <2>9. PICK s \in Slot : s = claim(p, w, o.age)
      <3>1. PICK y : y = IF schedule[p] = NoSchedule THEN -o.age ELSE schedule[p].next
        OBVIOUS
      <3>2. PICK x \in Int : x = LeaseDuration - o.age
        BY <2>8
      <3>3. y \in Int
        <4>1. schedule[p].next \in Int
          BY <2>8 DEF Slot
        <4>2. -o.age \in Int
          BY <2>8
        <4> HIDE DEF o
        <4> QED BY <3>1, <4>1, <4>2
      <3>4. claim(p, w, o.age) = [token |-> w, left |-> x, next |-> y]
        BY <3>1, <3>2 DEF claim
      <3>5. claim(p, w, o.age) \in Slot
        BY <3>3, <3>4, ClaimedSlot
      <3> QED BY <3>5
    <2>10. s.token = w /\ s.left = LeaseDuration - o.age
      BY <2>9 DEF claim
    <2>11. /\ worker' \in [Workers -> Scan] /\ worker'[w] = n
           /\ \A v \in Workers : v # w => worker'[v] = worker[v]
           /\ schedule' \in [Proposals -> Slot] /\ schedule'[p] = s
           /\ \A q \in Proposals : q # p => schedule'[q] = schedule[q]
      BY <1>1, <2>3, <2>4, <2>7, <2>9
    <2>12. p \notin told /\ \A v \in Workers : WorksOn(v, p) => worker[v].age >= LeaseDuration
      BY <1>5, <2>1, ClaimIsLate
    <2>13. Types'
      BY <1>1, <2>11 DEF RecoveryInvariant, Types
    <2>14. \A q \in Proposals : WorksOn(w, q)' <=> q = p
      BY <2>1, <2>7, <2>11 DEF WorksOn
    <2>15. ASSUME NEW v \in Workers
           PROVE  ScanAgrees(v)' /\ LeaseAgrees(v)'
      <3>1. CASE v = w
        <4>1. ScanAgrees(v)'
          BY <1>2, <2>5, <2>7, <2>11, <3>1, AsleepFields DEF ScanAgrees
        <4>2. LeaseAgrees(v)'
          BY <2>7, <2>10, <2>11, <2>14, <3>1 DEF LeaseAgrees
        <4> QED BY <4>1, <4>2
      <3>2. CASE v # w
        <4>1. ScanAgrees(v)'
          BY <2>11, <3>2 DEF RecoveryInvariant, ScanAgrees
        <4>2. LeaseAgrees(v)'
          <5> SUFFICES ASSUME NEW q \in Proposals, WorksOn(v, q)'
                       PROVE  \/ worker'[v].age >= LeaseDuration
                              \/ schedule'[q].token = v /\ schedule'[q].left = LeaseDuration - worker'[v].age
            BY DEF LeaseAgrees
          <5>1. WorksOn(v, q)
            BY <2>11, <3>2 DEF WorksOn
          <5>2. CASE q = p
            BY <2>11, <2>12, <3>2, <5>1, <5>2
          <5>3. CASE q # p
            BY <2>11, <3>2, <5>1, <5>3 DEF RecoveryInvariant, LeaseAgrees
          <5> QED BY <5>2, <5>3
        <4> QED BY <4>1, <4>2
      <3> QED BY <3>1, <3>2
    <2>16. ASSUME NEW q \in told'
           PROVE  ToldAgrees(q)'
      <3>1. q \in Proposals /\ q # p /\ ToldAgrees(q)
        BY <1>1, <2>12 DEF RecoveryInvariant, Types
      <3>2. \A v \in Workers : WorksOn(v, q)' => WorksOn(v, q)
        BY <2>11, <2>14, <3>1 DEF WorksOn
      <3> QED BY <2>11, <3>1, <3>2 DEF ToldAgrees, Suspended
    <2> QED BY <2>13, <2>15, <2>16 DEF RecoveryInvariant
  <1> QED BY <1>4, <1>5

\* The row after complete.
LEMMA CompletedRow ==
  ASSUME RecoveryInvariant, NEW w \in Workers, NEW p \in Proposals, NEW ends \in Ends,
         NEW s, s = complete(p, w, worker[w].age, ends)
  PROVE  /\ s \in Slot
         /\ schedule[p].token # w => s = schedule[p]
         /\ schedule[p].token = w /\ ends = "attention" => s.left = Never /\ s.next = Never
  <1>1. schedule[p] \in Slot /\ worker[w].age \in Int /\ RetryDelay \in Int
    BY RecoveryAssumption DEF RecoveryInvariant, Types, Scan
  <1>2. CASE schedule[p].token # w
    BY <1>1, <1>2 DEF complete
  <1>3. CASE schedule[p].token = w /\ ends = "completed"
    BY <1>1, <1>3 DEF complete, NoSchedule, Slot
  <1>4. CASE schedule[p].token = w /\ ends = "attention"
    <2>1. s = [schedule[p] EXCEPT !.left = Never, !.next = Never]
      BY <1>4 DEF complete
    <2>2. PICK x \in Int : x = Never
      BY DEF Never
    <2>3. s = [schedule[p] EXCEPT !.left = x, !.next = x]
      BY <2>1, <2>2
    <2>4. s \in Slot /\ s.left = x /\ s.next = x
      <3>1. PICK row \in Slot : row = schedule[p]
        BY <1>1
      <3>2. s = [row EXCEPT !.left = x, !.next = x]
        BY <2>3, <3>1
      <3> QED BY ONLY <3>2, row \in Slot, x \in Int DEF Slot
    <2> QED BY <1>4, <2>2, <2>4
  <1>5. CASE schedule[p].token = w /\ ends = "deferred"
    <2>1. PICK x \in Int : x = RetryDelay - worker[w].age
      BY <1>1
    <2>2. s = [schedule[p] EXCEPT !.left = x, !.next = x]
      BY <1>5, <2>1 DEF complete
    <2>3. s \in Slot
      <3>1. PICK row \in Slot : row = schedule[p]
        BY <1>1
      <3>2. s = [row EXCEPT !.left = x, !.next = x]
        BY <2>2, <3>1
      <3> QED BY ONLY <3>2, row \in Slot, x \in Int DEF Slot
    <2> QED BY <1>5, <2>3
  <1> QED BY <1>2, <1>3, <1>4, <1>5 DEF Ends

\* complete, from the worker that holds the row's token or from a late one.
LEMMA AcknowledgeKeeps ==
  ASSUME RecoveryInvariant, NEW w \in Workers, Acknowledge(w)
  PROVE  RecoveryInvariant'
  <1> DEFINE o == worker[w]
  <1>1. /\ worker \in [Workers -> Scan] /\ o \in Scan /\ ScanAgrees(w)
        /\ schedule \in [Proposals -> Slot] /\ o.pc = "acknowledge" /\ told \subseteq Proposals
    BY DEF RecoveryInvariant, Types, Acknowledge
  <1>2. o.item.on \in Proposals /\ o.ends \in Ends
    BY <1>1, AsleepFields DEF Scan, Item, ScanAgrees
  <1>3. PICK p \in Proposals : p = o.item.on
    BY <1>2
  <1>4. PICK n : n = IF o.items = {} THEN Asleep
                     ELSE [o EXCEPT !.pc = "scan", !.item = Asleep.item, !.ends = NoOne]
    OBVIOUS
  <1>5. worker' = [worker EXCEPT ![w] = n]
    BY <1>4 DEF Acknowledge
  <1>6. n \in Scan /\ n.pc \in {"idle", "scan"} /\ n.item.on = NoOne
    <2>1. CASE o.items = {}
      BY <1>4, <2>1, AsleepFields
    <2>2. CASE o.items # {}
      BY <1>1, <1>4, <2>2, AsleepFields DEF Scan
    <2> QED BY <2>1, <2>2
  <1>7. PICK s : s = complete(p, w, o.age, o.ends)
    OBVIOUS
  <1>8. schedule' = [schedule EXCEPT ![p] = s]
    BY <1>3, <1>7 DEF Acknowledge
  <1>9. /\ s \in Slot /\ (schedule[p].token # w => s = schedule[p])
        /\ schedule[p].token = w /\ o.ends = "attention" => s.left = Never /\ s.next = Never
    BY <1>2, <1>7, CompletedRow
  <1>10. told' = IF schedule[p].token = w /\ o.ends = "attention" THEN told \union {p} ELSE told
    BY <1>3 DEF Acknowledge
  <1>11. /\ worker' \in [Workers -> Scan] /\ worker'[w] = n
         /\ \A v \in Workers : v # w => worker'[v] = worker[v]
         /\ schedule' \in [Proposals -> Slot] /\ schedule'[p] = s
         /\ \A q \in Proposals : q # p => schedule'[q] = schedule[q]
    BY <1>1, <1>5, <1>6, <1>8, <1>9
  <1>12. Types'
    BY <1>1, <1>10, <1>11 DEF Types
  <1>13. \A q \in Proposals : ~WorksOn(w, q)'
    BY <1>6, <1>11, AsleepFields DEF WorksOn
  <1>14. WorksOn(w, p)
    BY <1>3 DEF WorksOn
  <1>15. ASSUME NEW v \in Workers
         PROVE  ScanAgrees(v)' /\ LeaseAgrees(v)'
    <2>1. CASE v = w
      BY <1>6, <1>11, <1>13, <2>1 DEF ScanAgrees, LeaseAgrees
    <2>2. CASE v # w
      <3>1. ScanAgrees(v)'
        BY <1>11, <2>2 DEF RecoveryInvariant, ScanAgrees
      <3>2. LeaseAgrees(v)'
        <4> SUFFICES ASSUME NEW q \in Proposals, WorksOn(v, q)'
                     PROVE  \/ worker'[v].age >= LeaseDuration
                            \/ schedule'[q].token = v /\ schedule'[q].left = LeaseDuration - worker'[v].age
          BY DEF LeaseAgrees
        <4>1. /\ WorksOn(v, q) /\ worker'[v] = worker[v]
              /\ \/ worker[v].age >= LeaseDuration
                 \/ schedule[q].token = v /\ schedule[q].left = LeaseDuration - worker[v].age
          BY <1>11, <2>2 DEF WorksOn, RecoveryInvariant, LeaseAgrees
        <4>2. CASE schedule[q].token = v
          BY <1>9, <1>11, <2>2, <4>1, <4>2
        <4>3. CASE schedule[q].token # v
          BY <4>1, <4>3
        <4> QED BY <4>2, <4>3
      <3> QED BY <3>1, <3>2
    <2> QED BY <2>1, <2>2
  <1>16. ASSUME NEW q \in told'
         PROVE  ToldAgrees(q)'
    <2>1. \A v \in Workers : WorksOn(v, q)' => v # w /\ WorksOn(v, q)
      <3>1. q \in Proposals
        BY <1>1, <1>10, <1>16
      <3> QED BY <1>11, <1>13, <3>1 DEF WorksOn
    <2>2. CASE q \in told
      <3>1. q \in Proposals /\ ToldAgrees(q)
        BY <1>1, <2>2 DEF RecoveryInvariant
      <3>2. schedule'[q] = schedule[q]
        BY <1>9, <1>11, <1>14, <3>1 DEF ToldAgrees
      <3> QED BY <2>1, <3>1, <3>2 DEF ToldAgrees, Suspended
    <2>3. CASE q \notin told
      <3>1. q = p /\ schedule[p].token = w /\ o.ends = "attention"
        BY <1>10, <1>16, <2>3
      <3>2. s.token = w
        <4>1. complete(p, w, o.age, "attention").token = schedule[p].token
          BY <1>1, <3>1 DEF complete, Slot
        <4> QED BY <1>7, <3>1, <4>1
      <3> QED BY <1>9, <1>11, <2>1, <3>1, <3>2 DEF ToldAgrees, Suspended
    <2> QED BY <2>2, <2>3
  <1> QED BY <1>12, <1>15, <1>16 DEF RecoveryInvariant

-----------------------------------------------------------------------------
(* Time *)

\* What a tick leaves of a lease.
LEMMA DownIs ==
  ASSUME NEW n \in Int, NEW least \in Int
  PROVE  /\ Down(n, least) \in Int
         /\ n = Never => Down(n, least) = n
         /\ n # Never /\ n > least => Down(n, least) = n - 1
  BY DEF Down, Never

\* Time passes for every row and every scan at once.
LEMMA TickKeeps ==
  ASSUME RecoveryInvariant, Tick
  PROVE  RecoveryInvariant'
  <1>1. /\ worker \in [Workers -> Scan] /\ schedule \in [Proposals -> Slot]
        /\ told \subseteq Proposals /\ told' = told
    BY DEF RecoveryInvariant, Types, Tick
  <1>2. /\ MaxScanAge \in Nat \ {0} /\ LeaseDuration \in Nat \ {0} /\ LeaseDuration < Never
        /\ -MaxScanAge \in Int /\ -MaxScanAge < 0 /\ Never \in Int
    BY RecoveryAssumption DEF Never
  <1>3. ASSUME NEW p \in Proposals
        PROVE  /\ schedule'[p] \in Slot /\ schedule'[p].token = schedule[p].token
               /\ Suspended(p) => Suspended(p)'
               /\ schedule[p].left # Never /\ schedule[p].left > 0 =>
                    schedule'[p].left = schedule[p].left - 1
    <2>1. schedule[p] \in Slot
      BY <1>1
    <2>2. CASE schedule[p] = NoSchedule
      <3>1. schedule'[p] = NoSchedule
        BY <2>2 DEF Tick
      <3>2. NoSchedule.left = 0
        BY DEF NoSchedule
      <3> QED BY <2>1, <2>2, <3>1, <3>2 DEF Suspended, Never
    <2>3. CASE schedule[p] # NoSchedule
      <3>1. PICK x : x = Down(schedule[p].left, -MaxScanAge)
        OBVIOUS
      <3>2. PICK y : y = Down(schedule[p].next, -MaxScanAge)
        OBVIOUS
      <3>3. schedule'[p] = [schedule[p] EXCEPT !.left = x, !.next = y]
        BY <2>1, <2>3, <3>1, <3>2 DEF Tick, Slot
      <3>4. schedule[p].left \in Int /\ schedule[p].next \in Int
        BY <2>1 DEF Slot
      <3>5. /\ x \in Int /\ (schedule[p].left = Never => x = Never)
            /\ schedule[p].left # Never /\ schedule[p].left > -MaxScanAge => x = schedule[p].left - 1
        BY <1>2, <3>1, <3>4, DownIs
      <3>6. y \in Int /\ (schedule[p].next = Never => y = Never)
        BY <1>2, <3>2, <3>4, DownIs
      <3>7. /\ schedule'[p] \in Slot /\ schedule'[p].token = schedule[p].token
            /\ schedule'[p].left = x /\ schedule'[p].next = y
        BY <2>1, <3>3, <3>5, <3>6 DEF Slot
      <3> QED BY <1>2, <3>4, <3>5, <3>6, <3>7 DEF Suspended
    <2> QED BY <2>2, <2>3
  <1>4. ASSUME NEW w \in Workers
        PROVE  /\ worker'[w] \in Scan
               /\ worker'[w].pc = worker[w].pc /\ worker'[w].item = worker[w].item
               /\ worker'[w].ends = worker[w].ends
               /\ worker[w].pc # "idle" => worker'[w].age = worker[w].age + 1
    <2>1. worker[w] \in Scan
      BY <1>1
    <2>2. CASE worker[w].pc = "idle"
      BY <2>1, <2>2 DEF Tick
    <2>3. CASE worker[w].pc # "idle"
      <3>1. worker'[w] = [worker[w] EXCEPT !.age = worker[w].age + 1]
        BY <2>1, <2>3 DEF Tick, Scan
      <3>2. worker[w].age + 1 \in Nat
        BY <2>1 DEF Scan
      <3> QED BY <2>1, <3>1, <3>2 DEF Scan
    <2> QED BY <2>2, <2>3
  <1>5. Types'
    <2>1. schedule' = [p \in Proposals |-> schedule'[p]] /\ worker' = [w \in Workers |-> worker'[w]]
      BY DEF Tick
    <2> QED BY <1>1, <1>3, <1>4, <2>1 DEF Types
  <1>6. \A w \in Workers, p \in Proposals : WorksOn(w, p)' <=> WorksOn(w, p)
    BY <1>4 DEF WorksOn
  <1>7. ASSUME NEW w \in Workers
        PROVE  ScanAgrees(w)' /\ LeaseAgrees(w)'
    <2>1. ScanAgrees(w)'
      BY <1>4 DEF RecoveryInvariant, ScanAgrees
    <2>2. LeaseAgrees(w)'
      <3> SUFFICES ASSUME NEW p \in Proposals, WorksOn(w, p)'
                   PROVE  \/ worker'[w].age >= LeaseDuration
                          \/ schedule'[p].token = w /\ schedule'[p].left = LeaseDuration - worker'[w].age
        BY DEF LeaseAgrees
      <3>1. /\ WorksOn(w, p) /\ ScanAgrees(w)
            /\ \/ worker[w].age >= LeaseDuration
               \/ schedule[p].token = w /\ schedule[p].left = LeaseDuration - worker[w].age
        BY <1>6 DEF RecoveryInvariant, LeaseAgrees
      <3>2. worker[w].pc # "idle"
        BY <3>1, AsleepFields DEF ScanAgrees, WorksOn
      <3>3. worker'[w].age = worker[w].age + 1 /\ worker[w].age \in Nat
        BY <1>1, <1>4, <3>2 DEF Scan
      <3>4. CASE worker[w].age >= LeaseDuration
        BY <1>2, <3>3, <3>4
      <3>5. CASE ~(worker[w].age >= LeaseDuration)
        <4>1. schedule[p].token = w /\ schedule[p].left = LeaseDuration - worker[w].age
          BY <3>1, <3>5
        <4>2. schedule[p].left > 0 /\ schedule[p].left # Never
          BY <1>2, <3>3, <3>5, <4>1
        <4> QED BY <1>2, <1>3, <3>3, <4>1, <4>2
      <3> QED BY <3>4, <3>5
    <2> QED BY <2>1, <2>2
  <1>8. ASSUME NEW p \in told'
        PROVE  ToldAgrees(p)'
    <2>1. p \in Proposals /\ ToldAgrees(p)
      BY <1>1 DEF RecoveryInvariant
    <2> QED BY <1>3, <1>6, <2>1 DEF ToldAgrees
  <1> QED BY <1>5, <1>7, <1>8 DEF RecoveryInvariant

-----------------------------------------------------------------------------
(* The theorems *)

\* Every step keeps the invariant.
LEMMA NextKeeps ==
  ASSUME RecoveryInvariant, [RecoveryNext]_rvars
  PROVE  RecoveryInvariant'
  <1>1. CASE UNCHANGED <<schedule, worker, told>>
    BY <1>1 DEF RecoveryInvariant, Types, ScanAgrees, LeaseAgrees, ToldAgrees, Suspended, WorksOn
  <1>2. CASE UNCHANGED rvars
    BY <1>1, <1>2 DEF rvars
  <1>3. ASSUME NEW w \in Workers, scan(w) \/ Work(w) \/ Raises(w) \/ Lost(w)
        PROVE  RecoveryInvariant'
    <2>1. CASE scan(w) \/ Lost(w)
      BY <2>1, ScanAndLostKeep
    <2>2. CASE Raises(w)
      BY <2>2, OperationsKeep
    <2>3. CASE Work(w)
      BY <2>3, LeaseKeeps, OperationsKeep, AcknowledgeKeeps DEF Work
    <2> QED BY <1>3, <2>1, <2>2, <2>3
  <1>4. ASSUME NEW p \in Proposals, Decide(p)
        PROVE  RecoveryInvariant'
    BY <1>1, <1>4 DEF Decide
  <1>5. CASE Tick
    BY <1>5, TickKeeps
  <1> QED BY <1>2, <1>3, <1>4, <1>5 DEF RecoveryNext

(* The leases, the workers and what operators were told agree in every       *)
(* reachable state, also of workers that outlived their leases.              *)
THEOREM RecoveryInvariantHolds == RecoverySpec => []RecoveryInvariant
  <1>1. ASSUME RecoveryInit
        PROVE  RecoveryInvariant
    <2>1. NoSchedule \in Slot
      BY DEF NoSchedule, Slot
    <2>2. \A w \in Workers : worker[w] = Asleep
      BY <1>1 DEF RecoveryInit
    <2>3. worker \in [Workers -> Scan] /\ schedule \in [Proposals -> Slot] /\ told = {}
      BY <1>1, <2>1, AsleepFields DEF RecoveryInit
    <2>4. \A w \in Workers : ScanAgrees(w) /\ LeaseAgrees(w)
      BY <2>2, AsleepFields DEF ScanAgrees, LeaseAgrees, WorksOn
    <2> QED BY <2>3, <2>4 DEF RecoveryInvariant, Types
  <1>2. RecoveryInvariant /\ [RecoveryNext]_rvars => RecoveryInvariant'
    BY NextKeeps
  <1> QED BY <1>1, <1>2, PTL DEF RecoverySpec

(* Two workers run operations on one proposal only when one of them has      *)
(* outlived its lease: both would otherwise have to hold the row's token.    *)
THEOREM LeasesAreExclusive == RecoverySpec => []LeasesExclude
  <1>1. RecoveryInvariant => LeasesExclude
    BY DEF RecoveryInvariant, LeaseAgrees, LeasesExclude
  <1> QED BY <1>1, RecoveryInvariantHolds, PTL

(* What was reported for operator attention stays suspended, whatever a late *)
(* worker acknowledges.                                                      *)
THEOREM AttentionStaysSuspended == RecoverySpec => []AttentionIsSuspended
  <1>1. RecoveryInvariant => AttentionIsSuspended
    BY DEF RecoveryInvariant, ToldAgrees, AttentionIsSuspended
  <1> QED BY <1>1, RecoveryInvariantHolds, PTL
=============================================================================
