------------------------- MODULE PreparationProofs -------------------------
(***************************************************************************)
(* Proofs about Preparation for any number of concurrent calls, proposal   *)
(* references and rotations of the wrapping key.                           *)
(*                                                                         *)
(* The properties speak of calls that ended and of rows that exist.  The   *)
(* invariant says, for every await of _persist_prepared, which of the two  *)
(* keys are stored, and that a row still has both keys unless its creator  *)
(* found it changed when it read it back.                                  *)
(***************************************************************************)
EXTENDS Preparation, TLAPS

\* The values every variable may take.
Types ==
    /\ provider \in {"local_kek", "aws_kms"}
    /\ keys \in [Handle -> Envelope \cup {NoEnvelope}]
    /\ current \in Versions
    /\ retired \subseteq Versions
    /\ preparations \in [Calls -> Preparing]
    /\ rows \in [References -> Row]

\* A key of a call is stored or it is not, and nothing else is under its handle.
Gone(c, purpose) == keys[KeyOf(c, purpose)] = NoEnvelope
Kept(c, purpose) == keys[KeyOf(c, purpose)] = EnvelopeOf(c, purpose)

Created(c) == rows[preparations[c].ref].by = c

KeysAgree(c) ==
    \A purpose \in Purpose :
        \/ Gone(c, purpose)
        \/ Kept(c, purpose) /\ preparations[c].made[purpose] \in Versions

\* Which keys a call has stored at each of its awaits.
CallAgrees(c) ==
    LET p == preparations[c]
    IN  /\ p.pc \in {"new", "put"} => Gone(c, p.purpose)
        /\ p.pc \in {"put", "read"} => p.made[p.purpose] \in Versions
        /\ p.pc \in {"new", "put", "read"} =>
              /\ ~Created(c)
              /\ p.purpose = "commitment" => Gone(c, "payload")
              /\ p.purpose = "payload" => Kept(c, "commitment")
        /\ p.pc \in {"read", "reconcile"} => p.ending \in {"failed", "cancelled"}
        /\ p.pc = "create" => ~Created(c) /\ Kept(c, "commitment") /\ Kept(c, "payload")
        /\ p.pc = "clean" => p.ending # "returned"
        /\ p.pc = "clean" /\ p.purpose = "commitment" /\ p.ending \in {"failed", "cancelled"}
             /\ ~p.cleanupFailed => Gone(c, "payload")
        /\ p.pc = "done" /\ p.ending = "returned" => Created(c)
        /\ p.pc = "done" /\ p.ending \in {"failed", "cancelled"} /\ ~p.cleanupFailed =>
              Gone(c, "commitment") /\ Gone(c, "payload")

\* A row of c has both keys, or is being erased, or was changed before c, whose
\* acknowledgement was lost, read it back.
RowAgrees(ref) ==
    LET c == rows[ref].by
        p == preparations[c]
    IN  c # NoCall =>
            /\ p.ref = ref
            /\ p.pc \in {"reconcile", "clean", "done"}
            /\ p.pc = "clean" => /\ p.ending \in {"failed", "cancelled"}
                                 /\ rows[ref].moved \/ rows[ref].erasing
            /\ \/ rows[ref].erasing
               \/ Kept(c, "commitment") /\ Kept(c, "payload")
               \/ /\ rows[ref].moved
                  /\ p.pc \in {"clean", "done"}
                  /\ p.ending \in {"failed", "cancelled", "crashed"}

PreparationInvariant ==
    /\ Types
    /\ \A c \in Calls : KeysAgree(c) /\ CallAgrees(c)
    /\ \A ref \in References : RowAgrees(ref)

-----------------------------------------------------------------------------
(* Handles, and steps of one call. *)

\* Handles of different calls and purposes differ.
LEMMA HandleFields ==
    ASSUME NEW c \in Calls, NEW purpose \in Purpose
    PROVE  /\ KeyOf(c, purpose) \in Handle
           /\ KeyOf(c, purpose).call = c /\ KeyOf(c, purpose).purpose = purpose
    BY DEF KeyOf, Handle

\* A stored key of a call is not an absent one.
LEMMA KeptIsStored ==
    ASSUME NEW c, NEW purpose, preparations[c].made[purpose] \in Versions
    PROVE  EnvelopeOf(c, purpose) # NoEnvelope
  <1>1. EnvelopeOf(c, purpose).version # 0
    BY VersionAssumption DEF EnvelopeOf, Versions
  <1>2. NoEnvelope.version = 0
    BY DEF NoEnvelope
  <1> QED BY <1>1, <1>2

\* A step of call c, on its own state and keys, that keeps the row of c if it
\* has one.
LEMMA OwnStep ==
    ASSUME PreparationInvariant, NEW c \in Calls, NEW p \in Preparing,
           preparations' = [preparations EXCEPT ![c] = p],
           p.ref = preparations[c].ref,
           UNCHANGED <<provider, current, retired, rows>>,
           keys' \in [Handle -> Envelope \cup {NoEnvelope}],
           \A handle \in Handle : handle.call # c => keys'[handle] = keys[handle],
           KeysAgree(c)', CallAgrees(c)',
           Created(c) => RowAgrees(p.ref)'
    PROVE  PreparationInvariant'
  <1>1. /\ preparations' \in [Calls -> Preparing] /\ preparations'[c] = p
        /\ \A d \in Calls : d # c => preparations'[d] = preparations[d]
    BY DEF PreparationInvariant, Types
  <1>2. Types'
    BY <1>1 DEF PreparationInvariant, Types
  <1>3. ASSUME NEW d \in Calls, d # c, NEW purpose \in Purpose
        PROVE  /\ Gone(d, purpose)' <=> Gone(d, purpose)
               /\ Kept(d, purpose)' <=> Kept(d, purpose)
    BY <1>1, <1>3, HandleFields DEF Gone, Kept, EnvelopeOf
  <1>4. ASSUME NEW d \in Calls, d # c
        PROVE  KeysAgree(d)' /\ CallAgrees(d)'
    <2>1. KeysAgree(d) /\ CallAgrees(d) /\ preparations[d] \in Preparing
      BY DEF PreparationInvariant, Types
    <2>2. Created(d)' <=> Created(d)
      BY <1>1, <1>4 DEF Created
    <2>3. KeysAgree(d)'
      BY <1>1, <1>3, <1>4, <2>1 DEF KeysAgree
    <2>4. CallAgrees(d)'
      BY <1>1, <1>3, <1>4, <2>1, <2>2 DEF CallAgrees, Preparing, Purpose
    <2> QED BY <2>3, <2>4
  <1>5. ASSUME NEW ref \in References
        PROVE  RowAgrees(ref)'
    <2>1. RowAgrees(ref) /\ rows[ref].by \in Calls \cup {NoCall}
      BY DEF PreparationInvariant, Types, Row
    <2>2. CASE rows[ref].by = NoCall
      BY <2>2 DEF RowAgrees
    <2>3. CASE rows[ref].by \in Calls /\ rows[ref].by # c
      BY <1>1, <1>3, <2>1, <2>3, PreparationAssumption DEF RowAgrees, Purpose
    <2>4. CASE rows[ref].by = c
      <3>1. ref = p.ref /\ Created(c)
        BY <2>1, <2>4, PreparationAssumption DEF RowAgrees, Created
      <3> QED BY <3>1
    <2> QED BY <2>1, <2>2, <2>3, <2>4
  <1> QED BY <1>2, <1>4, <1>5 DEF PreparationInvariant

\* What a call that has not created its row owes: nothing to any row.
LEMMA OwnStepWithoutRow ==
    ASSUME PreparationInvariant, NEW c \in Calls, NEW p \in Preparing,
           preparations' = [preparations EXCEPT ![c] = p],
           p.ref = preparations[c].ref, ~Created(c),
           UNCHANGED <<provider, current, retired, rows>>,
           keys' \in [Handle -> Envelope \cup {NoEnvelope}],
           \A handle \in Handle : handle.call # c => keys'[handle] = keys[handle],
           KeysAgree(c)', CallAgrees(c)'
    PROVE  PreparationInvariant'
  BY OwnStep

\* The state of a call and its keys, and what KeyMade makes of them.
LEMMA KeyMadeFields ==
    ASSUME preparations \in [Calls -> Preparing], NEW c \in Calls,
           NEW reply \in {"returned", "failed", "cancelled", "kept", "unknown"}, KeyMade(c, reply)
    PROVE  \E p \in Preparing :
             LET o == preparations[c] IN
             /\ preparations' = [preparations EXCEPT ![c] = p]
             /\ p.ref = o.ref /\ p.made = o.made
             /\ p.cleanupFailed = o.cleanupFailed
             /\ o.purpose = "commitment" /\ reply = "returned" =>
                  p.pc = "new" /\ p.purpose = "payload" /\ p.ending = "none"
             /\ o.purpose = "payload" /\ reply = "returned" =>
                  p.pc = "create" /\ p.purpose = "payload" /\ p.ending = "none"
             /\ o.purpose = "commitment" /\ reply # "returned" =>
                  p.pc = "done" /\ p.purpose = "commitment" /\ p.ending = reply
             /\ o.purpose = "payload" /\ reply # "returned" =>
                  p.pc = "clean" /\ p.purpose = "commitment" /\ p.ending = reply
  <1> DEFINE o == preparations[c]
  <1>1. o \in Preparing /\ o.purpose \in Purpose
    BY DEF Preparing
  <1>2. CASE o.purpose = "commitment" /\ reply = "returned"
    <2> DEFINE p == [o EXCEPT !.pc = "new", !.purpose = "payload", !.ending = "none"]
    <2>1. preparations' = [preparations EXCEPT ![c] = p]
      BY <1>2 DEF KeyMade
    <2>2. p \in Preparing
      BY <1>1 DEF Preparing, Purpose, Ending
    <2> QED BY <1>1, <1>2, <2>1, <2>2 DEF Preparing
  <1>3. CASE o.purpose = "payload" /\ reply = "returned"
    <2> DEFINE p == [o EXCEPT !.pc = "create", !.ending = "none"]
    <2>1. preparations' = [preparations EXCEPT ![c] = p]
      BY <1>3 DEF KeyMade
    <2>2. p \in Preparing
      BY <1>1 DEF Preparing, Purpose, Ending
    <2> QED BY <1>1, <1>3, <2>1, <2>2 DEF Preparing
  <1>4. CASE o.purpose = "commitment" /\ reply # "returned"
    <2> DEFINE p == [o EXCEPT !.pc = "done", !.ending = reply]
    <2>1. preparations' = [preparations EXCEPT ![c] = p]
      BY <1>4 DEF KeyMade
    <2>2. p \in Preparing
      BY <1>1 DEF Preparing, Purpose, Ending
    <2> QED BY <1>1, <1>4, <2>1, <2>2 DEF Preparing
  <1>5. CASE o.purpose = "payload" /\ reply # "returned"
    <2> DEFINE p == [o EXCEPT !.pc = "clean", !.purpose = "commitment", !.ending = reply]
    <2>1. preparations' = [preparations EXCEPT ![c] = p]
      BY <1>5 DEF KeyMade
    <2>2. p \in Preparing
      BY <1>1 DEF Preparing, Purpose, Ending
    <2> QED BY <1>1, <1>5, <2>1, <2>2 DEF Preparing
  <1> QED BY <1>1, <1>2, <1>3, <1>4, <1>5 DEF Purpose

\* create_for or protect_for is over: a returned key is stored, a failure that
\* says nothing about kept or unknown state left none.
LEMMA KeyMadeKeeps ==
    ASSUME PreparationInvariant, NEW c \in Calls,
           preparations[c].pc \in {"new", "put", "read"},
           NEW reply \in {"returned", "failed", "cancelled", "kept", "unknown"}, KeyMade(c, reply),
           UNCHANGED <<provider, current, retired, rows>>,
           keys' \in [Handle -> Envelope \cup {NoEnvelope}],
           NEW purpose \in Purpose, preparations[c].purpose = purpose,
           \A handle \in Handle : handle # KeyOf(c, purpose) => keys'[handle] = keys[handle],
           LET key == keys'[KeyOf(c, purpose)]
               own == EnvelopeOf(c, purpose)
           IN  /\ key = NoEnvelope \/ (key = own /\ preparations[c].made[purpose] \in Versions)
               /\ reply = "returned" => key = own
               /\ reply \in {"failed", "cancelled"} => key = NoEnvelope
    PROVE  PreparationInvariant'
  <1> DEFINE o == preparations[c]
  <1>1. /\ preparations \in [Calls -> Preparing] /\ o \in Preparing /\ o.purpose \in Purpose
        /\ KeysAgree(c) /\ CallAgrees(c)
    BY DEF PreparationInvariant, Types, Preparing
  <1>2. PICK p \in Preparing :
             /\ preparations' = [preparations EXCEPT ![c] = p]
             /\ p.ref = o.ref /\ p.made = o.made
             /\ p.cleanupFailed = o.cleanupFailed
             /\ o.purpose = "commitment" /\ reply = "returned" =>
                  p.pc = "new" /\ p.purpose = "payload" /\ p.ending = "none"
             /\ o.purpose = "payload" /\ reply = "returned" =>
                  p.pc = "create" /\ p.purpose = "payload" /\ p.ending = "none"
             /\ o.purpose = "commitment" /\ reply # "returned" =>
                  p.pc = "done" /\ p.purpose = "commitment" /\ p.ending = reply
             /\ o.purpose = "payload" /\ reply # "returned" =>
                  p.pc = "clean" /\ p.purpose = "commitment" /\ p.ending = reply
    BY <1>1, KeyMadeFields
  <1>3. preparations'[c] = p /\ ~Created(c) /\ (Created(c)' <=> Created(c))
    BY <1>1, <1>2 DEF CallAgrees, Created
  <1>4. \A any \in Purpose : EnvelopeOf(c, any)' = EnvelopeOf(c, any)
    BY <1>2, <1>3 DEF EnvelopeOf
  <1>5. \A handle \in Handle : handle.call # c => keys'[handle] = keys[handle]
    BY <1>1, HandleFields
  <1>6. \A other \in Purpose : other # purpose =>
            /\ Gone(c, other)' <=> Gone(c, other)
            /\ Kept(c, other)' <=> Kept(c, other)
    BY <1>1, <1>4, HandleFields DEF Gone, Kept
  <1>7. /\ Gone(c, purpose)' <=> keys'[KeyOf(c, purpose)] = NoEnvelope
        /\ Kept(c, purpose)' <=> keys'[KeyOf(c, purpose)] = EnvelopeOf(c, purpose)
    BY <1>4 DEF Gone, Kept
  <1>8. KeysAgree(c)'
    <2>1. \A any \in Purpose : preparations'[c].made[any] = o.made[any]
      BY <1>2, <1>3
    <2> QED BY <1>1, <1>6, <1>7, <2>1 DEF KeysAgree
  <1>9. CallAgrees(c)'
    <2>1. CASE purpose = "commitment"
      <3>1. Gone(c, "payload")
        BY <1>1, <2>1 DEF CallAgrees
      <3>2. Gone(c, "payload")'
        BY <1>6, <2>1, <3>1 DEF Purpose
      <3>3. CASE reply = "returned"
        BY <1>2, <1>3, <1>7, <2>1, <3>2, <3>3 DEF CallAgrees
      <3>4. CASE reply # "returned"
        BY <1>2, <1>3, <1>7, <2>1, <3>2, <3>4 DEF CallAgrees
      <3> QED BY <3>3, <3>4
    <2>2. CASE purpose = "payload"
      <3>1. Kept(c, "commitment")
        BY <1>1, <2>2 DEF CallAgrees
      <3>2. Kept(c, "commitment")'
        BY <1>6, <2>2, <3>1 DEF Purpose
      <3>3. CASE reply = "returned"
        BY <1>2, <1>3, <1>7, <2>2, <3>2, <3>3 DEF CallAgrees
      <3>4. CASE reply # "returned"
        BY <1>2, <1>3, <1>7, <2>2, <3>2, <3>4 DEF CallAgrees
      <3> QED BY <3>3, <3>4
    <2> QED BY <2>1, <2>2 DEF Purpose
  <1> HIDE DEF o
  <1> QED BY <1>2, <1>3, <1>5, <1>8, <1>9, OwnStepWithoutRow DEF o

\* Every reply that get and the failed put can have is one that KeyMade takes.
LEMMA InterpretedReplies ==
    ASSUME NEW failure \in {"failed", "cancelled"}, NEW handle, NEW envelope,
           NEW reply \in Interpreted(failure, handle, envelope)
    PROVE  /\ reply \in {"returned", "failed", "cancelled", "kept", "unknown"}
           /\ reply = "returned" => keys[handle] = envelope
           /\ reply \in {"failed", "cancelled"} => keys[handle] # envelope
  BY DEF Interpreted

\* _new_key draws a handle and stores nothing.
LEMMA NewKeyKeeps ==
    ASSUME PreparationInvariant, NEW c \in Calls, NewKey(c)
    PROVE  PreparationInvariant'
  <1>1. /\ preparations \in [Calls -> Preparing] /\ preparations[c] \in Preparing
        /\ preparations[c].purpose \in Purpose /\ current \in Versions
        /\ keys \in [Handle -> Envelope \cup {NoEnvelope}]
        /\ KeysAgree(c) /\ CallAgrees(c) /\ preparations[c].pc = "new"
        /\ UNCHANGED <<provider, keys, current, retired, rows>>
    BY DEF PreparationInvariant, Types, Preparing, NewKey, envelopeVars
  <1>2. PICK purpose \in Purpose : preparations[c].purpose = purpose
    BY <1>1
  <1>3. Gone(c, purpose)
    BY <1>1, <1>2 DEF CallAgrees
  <1>4. ASSUME NEW raised \in {"failed", "cancelled"}, KeyMade(c, raised)
        PROVE  PreparationInvariant'
    BY <1>1, <1>2, <1>3, <1>4, KeyMadeKeeps DEF Gone
  <1>5. CASE preparations' = [preparations EXCEPT ![c].pc = "put", ![c].made[purpose] = current]
    <2> DEFINE o == preparations[c]
               p == [o EXCEPT !.pc = "put", !.made = [o.made EXCEPT ![purpose] = current]]
    <2>1. preparations' = [preparations EXCEPT ![c] = p]
      BY <1>1, <1>5
    <2>2. o.made \in [Purpose -> Versions \cup {0}] /\ [o.made EXCEPT ![purpose] = current] \in [Purpose -> Versions \cup {0}]
      BY <1>1 DEF Preparing
    <2>3. /\ p \in Preparing /\ p.ref = o.ref /\ p.pc = "put" /\ p.purpose = purpose
          /\ p.ending = o.ending /\ p.cleanupFailed = o.cleanupFailed
          /\ p.made = [o.made EXCEPT ![purpose] = current]
      BY <1>1, <1>2, <2>2 DEF Preparing
    <2>4. p.made[purpose] = current /\ \A other \in Purpose : other # purpose => p.made[other] = o.made[other]
      BY <2>2, <2>3
    <2> HIDE DEF p
    <2>5. preparations'[c] = p
      BY <1>1, <2>1
    <2>6. /\ ~Created(c) /\ ~Created(c)'
      BY <1>1, <2>3, <2>5 DEF Created, CallAgrees
    <2>7. /\ \A any \in Purpose : Gone(c, any)' <=> Gone(c, any)
          /\ \A other \in Purpose : other # purpose => (Kept(c, other)' <=> Kept(c, other))
      BY <1>1, <2>3, <2>4, <2>5 DEF Gone, Kept, EnvelopeOf
    <2>8. KeysAgree(c)'
      BY <1>1, <1>3, <2>4, <2>5, <2>7 DEF KeysAgree
    <2>9. CallAgrees(c)'
      <3>1. purpose = "payload" => Kept(c, "commitment")'
        BY <1>1, <1>2, <2>7 DEF CallAgrees, Purpose
      <3>2. purpose = "commitment" => Gone(c, "payload")'
        BY <1>1, <1>2, <2>7 DEF CallAgrees, Purpose
      <3> QED BY <1>1, <1>3, <2>3, <2>4, <2>5, <2>6, <2>7, <3>1, <3>2 DEF CallAgrees
    <2>10. \A handle \in Handle : handle.call # c => keys'[handle] = keys[handle]
      BY <1>1
    <2> HIDE DEF o
    <2> QED BY <1>1, <2>1, <2>3, <2>6, <2>8, <2>9, <2>10, OwnStepWithoutRow DEF o
  <1> QED BY <1>1, <1>2, <1>4, <1>5 DEF NewKey

\* A call that waits for put or get while the key of its purpose is as put left
\* it.
LEMMA PutKeyKeeps ==
    ASSUME PreparationInvariant, NEW c \in Calls, PutKey(c)
    PROVE  PreparationInvariant'
  <1>1. /\ preparations \in [Calls -> Preparing] /\ preparations[c] \in Preparing
        /\ preparations[c].purpose \in Purpose
        /\ keys \in [Handle -> Envelope \cup {NoEnvelope}]
        /\ KeysAgree(c) /\ CallAgrees(c) /\ preparations[c].pc = "put"
        /\ UNCHANGED <<provider, current, retired, rows>>
    BY DEF PreparationInvariant, Types, Preparing, PutKey
  <1>2. PICK purpose \in Purpose : preparations[c].purpose = purpose
    BY <1>1
  <1> DEFINE own == EnvelopeOf(c, purpose)
  <1>3. Gone(c, purpose) /\ preparations[c].made[purpose] \in Versions /\ ~Created(c)
    BY <1>1, <1>2 DEF CallAgrees
  <1>4. own \in Envelope /\ own # NoEnvelope /\ KeyOf(c, purpose) \in Handle
    BY <1>1, <1>2, <1>3, KeptIsStored, HandleFields DEF EnvelopeOf, Envelope, Preparing
  <1>5. PICK result \in PutReplies :
              /\ IF result.persisted THEN Put(KeyOf(c, purpose), own) ELSE UNCHANGED keys
              /\ CASE result.reply = "returned" -> KeyMade(c, "returned")
                   [] result.reply = "rejected" -> KeyMade(c, "failed")
                   [] OTHER -> Finish(c, "read", result.reply)
    BY <1>2 DEF PutKey
  <1>6. /\ result.reply \in {"returned", "rejected", "failed", "cancelled"}
        /\ result.reply = "returned" => result.persisted
        /\ result.reply = "rejected" => ~result.persisted
    <2>1. \/ result = [reply |-> "returned", persisted |-> TRUE]
          \/ result = [reply |-> "rejected", persisted |-> FALSE]
          \/ result \in [reply : {"failed", "cancelled"}, persisted : BOOLEAN]
      BY DEF PutReplies, LocalPut, KmsPut
    <2>2. CASE result = [reply |-> "returned", persisted |-> TRUE]
      BY <2>2
    <2>3. CASE result = [reply |-> "rejected", persisted |-> FALSE]
      BY <2>3
    <2>4. CASE result \in [reply : {"failed", "cancelled"}, persisted : BOOLEAN]
      <3>1. result.reply \in {"failed", "cancelled"}
        BY <2>4
      <3> QED BY <3>1
    <2> QED BY <2>1, <2>2, <2>3, <2>4
  <1>7. /\ keys' \in [Handle -> Envelope \cup {NoEnvelope}]
        /\ \A handle \in Handle : handle # KeyOf(c, purpose) => keys'[handle] = keys[handle]
        /\ keys'[KeyOf(c, purpose)] = IF result.persisted THEN own ELSE NoEnvelope
    <2> HIDE DEF own
    <2>1. CASE result.persisted
      BY <1>1, <1>4, <1>5, <2>1 DEF Put
    <2>2. CASE ~result.persisted
      BY <1>1, <1>3, <1>5, <2>2 DEF Gone
    <2> QED BY <2>1, <2>2
  <1>8. CASE result.reply = "returned"
    <2>1. KeyMade(c, "returned") /\ keys'[KeyOf(c, purpose)] = EnvelopeOf(c, purpose)
      BY <1>5, <1>6, <1>7, <1>8
    <2> QED BY <1>1, <1>2, <1>3, <1>7, <2>1, KeyMadeKeeps
  <1>9. CASE result.reply = "rejected"
    <2>1. KeyMade(c, "failed") /\ keys'[KeyOf(c, purpose)] = NoEnvelope
      BY <1>5, <1>6, <1>7, <1>9
    <2> QED BY <1>1, <1>2, <1>3, <1>7, <2>1, KeyMadeKeeps
  <1>10. CASE result.reply \in {"failed", "cancelled"}
    <2>1. Finish(c, "read", result.reply)
      BY <1>5, <1>10
    <2> DEFINE o == preparations[c]
               p == [o EXCEPT !.pc = "read", !.ending = result.reply]
    <2>2. preparations' = [preparations EXCEPT ![c] = p]
      BY <1>1, <2>1 DEF Finish
    <2>3. /\ p \in Preparing /\ p.ref = o.ref /\ p.pc = "read" /\ p.purpose = purpose
          /\ p.ending = result.reply /\ p.cleanupFailed = o.cleanupFailed
          /\ p.made = o.made
      BY <1>1, <1>2, <1>10 DEF Preparing, Ending
    <2> HIDE DEF p
    <2>4. preparations'[c] = p
      BY <1>1, <2>2
    <2>5. ~Created(c)'
      BY <1>1, <1>3, <2>3, <2>4 DEF Created
    <2>6. \A any \in Purpose : EnvelopeOf(c, any)' = EnvelopeOf(c, any)
      BY <2>3, <2>4 DEF EnvelopeOf
    <2>7. \A other \in Purpose : other # purpose =>
            /\ Gone(c, other)' <=> Gone(c, other)
            /\ Kept(c, other)' <=> Kept(c, other)
      BY <1>7, <2>6, HandleFields DEF Gone, Kept
    <2>8. Gone(c, purpose)' \/ Kept(c, purpose)'
      BY <1>7, <2>6 DEF Gone, Kept
    <2>9. KeysAgree(c)'
      <3>1. \A any \in Purpose : preparations'[c].made[any] = o.made[any]
        BY <2>3, <2>4
      <3> QED BY <1>1, <1>3, <2>7, <2>8, <3>1 DEF KeysAgree
    <2>10. CallAgrees(c)'
      <3>1. purpose = "payload" => Kept(c, "commitment")'
        BY <1>1, <1>2, <2>7 DEF CallAgrees, Purpose
      <3>2. purpose = "commitment" => Gone(c, "payload")'
        BY <1>1, <1>2, <2>7 DEF CallAgrees, Purpose
      <3>3. p.made[p.purpose] \in Versions
        BY <1>3, <2>3
      <3> QED BY <1>10, <2>3, <2>4, <2>5, <3>1, <3>2, <3>3 DEF CallAgrees
    <2>11. \A handle \in Handle : handle.call # c => keys'[handle] = keys[handle]
      BY <1>7, HandleFields
    <2> HIDE DEF o
    <2> QED BY <1>1, <1>3, <1>7, <2>2, <2>3, <2>9, <2>10, <2>11, OwnStepWithoutRow DEF o
  <1> QED BY <1>6, <1>8, <1>9, <1>10

\* What _store_key makes of a failed put and of the key it reads back.
LEMMA ReadKeyBackKeeps ==
    ASSUME PreparationInvariant, NEW c \in Calls, ReadKeyBack(c)
    PROVE  PreparationInvariant'
  <1>1. /\ preparations[c].purpose \in Purpose /\ preparations[c].ending \in {"failed", "cancelled"}
        /\ keys \in [Handle -> Envelope \cup {NoEnvelope}]
        /\ KeysAgree(c) /\ CallAgrees(c) /\ preparations[c].pc = "read"
        /\ UNCHANGED <<provider, keys, current, retired, rows>>
    BY DEF PreparationInvariant, Types, Preparing, ReadKeyBack, envelopeVars, CallAgrees
  <1>2. PICK purpose \in Purpose : preparations[c].purpose = purpose
    BY <1>1
  <1>3. PICK reply \in Interpreted(preparations[c].ending, KeyOf(c, purpose), EnvelopeOf(c, purpose)) :
            KeyMade(c, reply)
    BY <1>2 DEF ReadKeyBack
  <1>4. /\ reply \in {"returned", "failed", "cancelled", "kept", "unknown"}
        /\ reply = "returned" => Kept(c, purpose)
        /\ reply \in {"failed", "cancelled"} => ~Kept(c, purpose)
    BY <1>1, InterpretedReplies DEF Kept
  <1>5. \/ Gone(c, purpose)
        \/ Kept(c, purpose) /\ preparations[c].made[purpose] \in Versions
    BY <1>1 DEF KeysAgree
  <1> QED BY <1>1, <1>2, <1>3, <1>4, <1>5, KeyMadeKeeps DEF Gone, Kept

-----------------------------------------------------------------------------
(* The row, and what comes after a create that raised. *)

\* The record a call ends or goes on with when only its pc and ending change.
LEMMA FinishFields ==
    ASSUME preparations \in [Calls -> Preparing], NEW c \in Calls,
           NEW pc \in {"new", "put", "read", "create", "reconcile", "clean", "done"},
           NEW ending \in Ending, Finish(c, pc, ending)
    PROVE  \E p \in Preparing :
             LET o == preparations[c] IN
             /\ preparations' = [preparations EXCEPT ![c] = p]
             /\ p.ref = o.ref /\ p.made = o.made /\ p.purpose = o.purpose
             /\ p.cleanupFailed = o.cleanupFailed
             /\ p.pc = pc /\ p.ending = ending
  <1> DEFINE o == preparations[c]
             p == [o EXCEPT !.pc = pc, !.ending = ending]
  <1>1. o \in Preparing
    OBVIOUS
  <1>2. preparations' = [preparations EXCEPT ![c] = p]
    BY DEF Finish
  <1>3. /\ p \in Preparing /\ p.ref = o.ref /\ p.made = o.made /\ p.purpose = o.purpose
        /\ p.cleanupFailed = o.cleanupFailed /\ p.pc = pc /\ p.ending = ending
    BY <1>1 DEF Preparing
  <1> QED BY <1>2, <1>3

\* A step of call c that leaves its keys and what they are known by alone.
LEMMA SameKeys ==
    ASSUME NEW c \in Calls, keys' = keys,
           preparations'[c].ref = preparations[c].ref,
           preparations'[c].made = preparations[c].made
    PROVE  /\ \A purpose \in Purpose : Gone(c, purpose)' <=> Gone(c, purpose)
           /\ \A purpose \in Purpose : Kept(c, purpose)' <=> Kept(c, purpose)
           /\ KeysAgree(c)' <=> KeysAgree(c)
  <1>1. \A purpose \in Purpose : EnvelopeOf(c, purpose)' = EnvelopeOf(c, purpose)
    BY DEF EnvelopeOf
  <1>2. /\ \A purpose \in Purpose : Gone(c, purpose)' <=> Gone(c, purpose)
        /\ \A purpose \in Purpose : Kept(c, purpose)' <=> Kept(c, purpose)
    BY <1>1 DEF Gone, Kept
  <1>3. \A purpose \in Purpose :
            (preparations'[c].made[purpose] \in Versions) <=> (preparations[c].made[purpose] \in Versions)
    OBVIOUS
  <1>4. KeysAgree(c)' <=> KeysAgree(c)
    BY <1>2, <1>3 DEF KeysAgree
  <1> QED BY <1>2, <1>4

\* store.create inserts the row of c, which has both keys, where none was.
LEMMA RowInserted ==
    ASSUME PreparationInvariant, NEW c \in Calls, NEW p \in Preparing,
           NEW row \in References, row = preparations[c].ref, Missing(row),
           preparations[c].pc = "create",
           preparations' = [preparations EXCEPT ![c] = p],
           p.ref = row, p.made = preparations[c].made,
           \/ p.pc = "done" /\ p.ending = "returned"
           \/ p.pc = "reconcile" /\ p.ending \in {"failed", "cancelled"},
           rows' = [rows EXCEPT ![row] = [NoRow EXCEPT !.by = c]],
           UNCHANGED <<provider, keys, current, retired>>
    PROVE  PreparationInvariant'
  <1> DEFINE inserted == [NoRow EXCEPT !.by = c]
  <1>1. /\ preparations \in [Calls -> Preparing] /\ rows \in [References -> Row]
        /\ KeysAgree(c) /\ CallAgrees(c)
    BY DEF PreparationInvariant, Types
  <1>2. /\ inserted \in Row /\ inserted.by = c /\ inserted.moved = FALSE /\ inserted.erasing = FALSE
    BY DEF NoRow, Row
  <1> HIDE DEF inserted
  <1>3. /\ preparations' \in [Calls -> Preparing] /\ preparations'[c] = p
        /\ \A d \in Calls : d # c => preparations'[d] = preparations[d]
        /\ rows' \in [References -> Row] /\ rows'[row] = inserted
        /\ \A ref \in References : ref # row => rows'[ref] = rows[ref]
    BY <1>1, <1>2 DEF inserted
  <1>4. Types'
    BY <1>3 DEF PreparationInvariant, Types
  <1>5. /\ \A purpose \in Purpose : Gone(c, purpose)' <=> Gone(c, purpose)
        /\ \A purpose \in Purpose : Kept(c, purpose)' <=> Kept(c, purpose)
        /\ KeysAgree(c)' <=> KeysAgree(c)
    BY <1>3, SameKeys
  <1>6. Kept(c, "commitment")' /\ Kept(c, "payload")'
    BY <1>1, <1>5 DEF CallAgrees, Purpose
  <1>7. Created(c)'
    BY <1>2, <1>3 DEF Created
  <1>8. CallAgrees(c)'
    BY <1>3, <1>7 DEF CallAgrees
  <1>9. ASSUME NEW d \in Calls, d # c
        PROVE  KeysAgree(d)' /\ CallAgrees(d)'
    <2>1. KeysAgree(d) /\ CallAgrees(d) /\ preparations[d] \in Preparing
      BY DEF PreparationInvariant, Types
    <2>2. /\ \A purpose \in Purpose : Gone(d, purpose)' <=> Gone(d, purpose)
          /\ \A purpose \in Purpose : Kept(d, purpose)' <=> Kept(d, purpose)
          /\ KeysAgree(d)' <=> KeysAgree(d)
      BY <1>3, <1>9, SameKeys
    <2>3. Created(d)' <=> Created(d)
      <3>1. preparations[d].ref \in References /\ preparations'[d] = preparations[d]
        BY <1>3, <1>9, <2>1 DEF Preparing
      <3>2. CASE preparations[d].ref = row
        BY <1>2, <1>3, <1>9, <3>1, <3>2, PreparationAssumption DEF Created, Missing
      <3>3. CASE preparations[d].ref # row
        BY <1>3, <3>1, <3>3 DEF Created
      <3> QED BY <3>2, <3>3
    <2>4. CallAgrees(d)'
      BY <1>3, <1>9, <2>1, <2>2, <2>3 DEF CallAgrees, Preparing, Purpose
    <2> QED BY <2>1, <2>2, <2>4
  <1>10. ASSUME NEW ref \in References
         PROVE  RowAgrees(ref)'
    <2>1. CASE ref = row
      BY <1>2, <1>3, <1>6, <2>1 DEF RowAgrees
    <2>2. CASE ref # row
      <3>1. RowAgrees(ref) /\ rows[ref].by \in Calls \cup {NoCall} /\ rows'[ref] = rows[ref]
        BY <1>3, <2>2 DEF PreparationInvariant, Types, Row
      <3>2. CASE rows[ref].by = NoCall
        BY <3>1, <3>2 DEF RowAgrees
      <3>3. CASE rows[ref].by # NoCall
        <4>1. PICK d \in Calls : rows[ref].by = d
          BY <3>1, <3>3
        <4>2. d # c
          BY <2>2, <3>1, <3>3, <4>1 DEF RowAgrees
        <4>3. \A purpose \in Purpose : Kept(d, purpose)' <=> Kept(d, purpose)
          BY <1>3, <4>2, SameKeys
        <4> QED BY <1>3, <3>1, <3>3, <4>1, <4>2, <4>3 DEF RowAgrees, Purpose
      <3> QED BY <3>2, <3>3
    <2> QED BY <2>1, <2>2
  <1> QED BY <1>1, <1>4, <1>5, <1>8, <1>9, <1>10 DEF PreparationInvariant

\* store.create: it inserts the row or refuses, and answers or raises.
LEMMA CreateRowKeeps ==
    ASSUME PreparationInvariant, NEW c \in Calls, CreateRow(c)
    PROVE  PreparationInvariant'
  <1>1. /\ preparations \in [Calls -> Preparing] /\ preparations[c].ref \in References
        /\ keys \in [Handle -> Envelope \cup {NoEnvelope}]
        /\ KeysAgree(c) /\ CallAgrees(c) /\ preparations[c].pc = "create" /\ ~Created(c)
        /\ UNCHANGED <<provider, keys, current, retired>>
    BY DEF PreparationInvariant, Types, Preparing, CreateRow, envelopeVars, CallAgrees
  <1>2. PICK row \in References : row = preparations[c].ref
    BY <1>1
  <1>3. PICK pc \in {"done", "reconcile"}, ending \in {"returned", "failed", "cancelled"} :
           /\ Finish(c, pc, ending)
           /\ pc = "done" <=> ending = "returned"
           /\ \/ Missing(row) /\ rows' = [rows EXCEPT ![row] = [NoRow EXCEPT !.by = c]]
              \/ pc = "reconcile" /\ UNCHANGED rows
    <2>1. CASE /\ Missing(row) /\ rows' = [rows EXCEPT ![row] = [NoRow EXCEPT !.by = c]]
               /\ Finish(c, "done", "returned")
      BY <2>1
    <2>2. ASSUME NEW raised \in {"failed", "cancelled"}, Finish(c, "reconcile", raised),
                 \/ Missing(row) /\ rows' = [rows EXCEPT ![row] = [NoRow EXCEPT !.by = c]]
                 \/ UNCHANGED rows
          PROVE  \E pc \in {"done", "reconcile"}, ending \in {"returned", "failed", "cancelled"} :
                   /\ Finish(c, pc, ending)
                   /\ pc = "done" <=> ending = "returned"
                   /\ \/ Missing(row) /\ rows' = [rows EXCEPT ![row] = [NoRow EXCEPT !.by = c]]
                      \/ pc = "reconcile" /\ UNCHANGED rows
      <3>1. raised \in {"returned", "failed", "cancelled"} /\ raised # "returned"
        OBVIOUS
      <3> QED BY <2>2, <3>1
    <2> QED BY <1>2, <2>1, <2>2 DEF CreateRow
  <1>4. PICK p \in Preparing :
             /\ preparations' = [preparations EXCEPT ![c] = p]
             /\ p.ref = preparations[c].ref /\ p.made = preparations[c].made
             /\ p.purpose = preparations[c].purpose
             /\ p.cleanupFailed = preparations[c].cleanupFailed
             /\ p.pc = pc /\ p.ending = ending
    <2>1. /\ pc \in {"new", "put", "read", "create", "reconcile", "clean", "done"}
          /\ ending \in Ending
      BY DEF Ending
    <2> QED BY <1>1, <1>3, <2>1, FinishFields
  <1>5. CASE Missing(row) /\ rows' = [rows EXCEPT ![row] = [NoRow EXCEPT !.by = c]]
    <2>1. \/ p.pc = "done" /\ p.ending = "returned"
          \/ p.pc = "reconcile" /\ p.ending \in {"failed", "cancelled"}
      BY <1>3, <1>4
    <2> QED BY <1>1, <1>2, <1>4, <1>5, <2>1, RowInserted
  <1>6. CASE pc = "reconcile" /\ UNCHANGED rows
    <2>1. preparations'[c] = p
      BY <1>1, <1>4
    <2>2. KeysAgree(c)'
      BY <1>1, <1>4, <2>1, SameKeys
    <2>3. CallAgrees(c)'
      BY <1>3, <1>4, <1>6, <2>1 DEF CallAgrees
    <2>4. \A handle \in Handle : handle.call # c => keys'[handle] = keys[handle]
      BY <1>1
    <2> QED BY <1>1, <1>4, <1>6, <2>2, <2>3, <2>4, OwnStepWithoutRow
  <1> QED BY <1>3, <1>5, <1>6

\* A step of a call that leaves every key and every row alone.
LEMMA QuietStep ==
    ASSUME PreparationInvariant, NEW c \in Calls, NEW p \in Preparing,
           preparations' = [preparations EXCEPT ![c] = p],
           p.ref = preparations[c].ref, p.made = preparations[c].made,
           UNCHANGED <<provider, keys, current, retired, rows>>,
           CallAgrees(c)',
           Created(c) => RowAgrees(p.ref)'
    PROVE  PreparationInvariant'
  <1>1. /\ preparations'[c] = p /\ KeysAgree(c)
        /\ keys \in [Handle -> Envelope \cup {NoEnvelope}]
    BY DEF PreparationInvariant, Types
  <1>2. KeysAgree(c)'
    BY <1>1, SameKeys
  <1>3. \A handle \in Handle : handle.call # c => keys'[handle] = keys[handle]
    OBVIOUS
  <1> QED BY <1>1, <1>2, <1>3, OwnStep

\* A call that created a row which is as it created it reads its record back.
LEMMA UnchangedRowReadsBack ==
    ASSUME rows \in [References -> Row], NEW c \in Calls, preparations[c].ref \in References,
           Created(c), ~ReadsBackItsRecord(c)
    PROVE  rows[preparations[c].ref].moved \/ rows[preparations[c].ref].erasing
  <1> DEFINE row == rows[preparations[c].ref]
  <1>1. row \in Row /\ row.by = c
    BY DEF Created
  <1>2. row = [by |-> row.by, moved |-> row.moved, erasing |-> row.erasing]
    BY <1>1 DEF Row
  <1>3. row.moved \in BOOLEAN /\ row.erasing \in BOOLEAN
    BY <1>1 DEF Row
  <1>4. [NoRow EXCEPT !.by = c] = [by |-> c, moved |-> FALSE, erasing |-> FALSE]
    <2>1. \A none, flag : [[by |-> none, moved |-> flag, erasing |-> flag] EXCEPT !.by = c]
                             = [by |-> c, moved |-> flag, erasing |-> flag]
      OBVIOUS
    <2> QED BY <2>1, Zenon DEF NoRow
  <1>5. row # [by |-> c, moved |-> FALSE, erasing |-> FALSE]
    BY <1>4 DEF ReadsBackItsRecord
  <1> HIDE DEF row
  <1>6. row.moved = TRUE \/ row.erasing = TRUE
    <2>1. CASE row.moved = FALSE /\ row.erasing = FALSE
      BY <1>1, <1>2, <1>5, <2>1
    <2> QED BY <1>3, <2>1
  <1> QED BY <1>6 DEF row

\* The read-back after create raised.
LEMMA ReconcileKeeps ==
    ASSUME PreparationInvariant, NEW c \in Calls, Reconcile(c)
    PROVE  PreparationInvariant'
  <1> DEFINE o == preparations[c]
  <1>1. /\ preparations \in [Calls -> Preparing] /\ o \in Preparing /\ o.ref \in References
        /\ rows \in [References -> Row]
        /\ CallAgrees(c) /\ o.pc = "reconcile" /\ o.ending \in {"failed", "cancelled"}
        /\ UNCHANGED <<provider, keys, current, retired, rows>>
    BY DEF PreparationInvariant, Types, Preparing, Reconcile, envelopeVars, CallAgrees
  <1>2. Created(c) => RowAgrees(o.ref) /\ rows[o.ref].by = c /\ c # NoCall
    BY <1>1, PreparationAssumption DEF PreparationInvariant, Created
  <1>3. ASSUME NEW ending \in {"kept", "unknown", "returned"}, Finish(c, "done", ending),
               ending = "returned" => ReadsBackItsRecord(c)
        PROVE  PreparationInvariant'
    <2>1. PICK p \in Preparing :
             /\ preparations' = [preparations EXCEPT ![c] = p]
             /\ p.ref = o.ref /\ p.made = o.made /\ p.purpose = o.purpose
             /\ p.cleanupFailed = o.cleanupFailed
             /\ p.pc = "done" /\ p.ending = ending
      BY <1>1, <1>3, FinishFields DEF Ending
    <2>2. preparations'[c] = p
      BY <1>1, <2>1
    <2>3. \A purpose \in Purpose : Kept(c, purpose)' <=> Kept(c, purpose)
      BY <1>1, <2>1, <2>2, SameKeys
    <2>4. ending = "returned" => Created(c)'
      <3>1. [NoRow EXCEPT !.by = c].by = c
        BY DEF NoRow
      <3> QED BY <1>1, <1>3, <2>1, <2>2, <3>1 DEF ReadsBackItsRecord, Created
    <2>5. CallAgrees(c)'
      BY <1>3, <2>1, <2>2, <2>4 DEF CallAgrees
    <2>6. Created(c) => RowAgrees(p.ref)'
      BY <1>1, <1>2, <2>1, <2>2, <2>3 DEF RowAgrees, Purpose
    <2> HIDE DEF o
    <2> QED BY <1>1, <2>1, <2>5, <2>6, QuietStep DEF o
  <1>4. CASE ~ReadsBackItsRecord(c) /\ Goto(c, "clean", "payload")
    <2>1. PICK p \in Preparing : p = [o EXCEPT !.pc = "clean", !.purpose = "payload"]
      BY <1>1 DEF Preparing, Purpose
    <2>2. /\ preparations' = [preparations EXCEPT ![c] = p]
          /\ p.ref = o.ref /\ p.made = o.made /\ p.purpose = "payload"
          /\ p.cleanupFailed = o.cleanupFailed /\ p.pc = "clean" /\ p.ending = o.ending
      BY <1>1, <1>4, <2>1 DEF Goto, Preparing
    <2>3. preparations'[c] = p
      BY <1>1, <2>2
    <2>4. \A purpose \in Purpose : Kept(c, purpose)' <=> Kept(c, purpose)
      BY <1>1, <2>2, <2>3, SameKeys
    <2>5. Created(c) => rows[o.ref].moved \/ rows[o.ref].erasing
      BY <1>1, <1>4, UnchangedRowReadsBack
    <2>6. CallAgrees(c)'
      BY <1>1, <2>2, <2>3 DEF CallAgrees
    <2>7. Created(c) => RowAgrees(p.ref)'
      BY <1>1, <1>2, <2>2, <2>3, <2>4, <2>5 DEF RowAgrees, Purpose
    <2> HIDE DEF o
    <2> QED BY <1>1, <2>2, <2>6, <2>7, QuietStep DEF o
  <1> QED BY <1>3, <1>4 DEF Reconcile

\* The process dies between two awaits.
LEMMA CrashKeeps ==
    ASSUME PreparationInvariant, NEW c \in Calls, Crash(c)
    PROVE  PreparationInvariant'
  <1> DEFINE o == preparations[c]
  <1>1. /\ preparations \in [Calls -> Preparing] /\ o \in Preparing /\ o.ref \in References
        /\ UNCHANGED <<provider, keys, current, retired, rows>>
    BY DEF PreparationInvariant, Types, Preparing, Crash, envelopeVars
  <1>2. Created(c) => RowAgrees(o.ref) /\ rows[o.ref].by = c /\ c # NoCall
    BY <1>1, PreparationAssumption DEF PreparationInvariant, Created
  <1>3. PICK p \in Preparing :
             /\ preparations' = [preparations EXCEPT ![c] = p]
             /\ p.ref = o.ref /\ p.made = o.made /\ p.purpose = o.purpose
             /\ p.cleanupFailed = o.cleanupFailed
             /\ p.pc = "done" /\ p.ending = "crashed"
    BY <1>1, FinishFields DEF Crash, Ending
  <1>4. preparations'[c] = p
    BY <1>1, <1>3
  <1>5. \A purpose \in Purpose : Kept(c, purpose)' <=> Kept(c, purpose)
    BY <1>1, <1>3, <1>4, SameKeys
  <1>6. CallAgrees(c)'
    BY <1>3, <1>4 DEF CallAgrees
  <1>7. Created(c) => RowAgrees(p.ref)'
    BY <1>1, <1>2, <1>3, <1>4, <1>5 DEF RowAgrees, Purpose
  <1> HIDE DEF o
  <1> QED BY <1>1, <1>3, <1>6, <1>7, QuietStep DEF o

\* A key of a call is taken away by its own compensation or by an erasure.
LEMMA KeyDestroyed ==
    ASSUME keys \in [Handle -> Envelope \cup {NoEnvelope}], NEW c \in Calls, NEW purpose \in Purpose,
           Put(KeyOf(c, purpose), NoEnvelope),
           preparations'[c].ref = preparations[c].ref,
           preparations'[c].made = preparations[c].made,
           KeysAgree(c)
    PROVE  /\ keys' \in [Handle -> Envelope \cup {NoEnvelope}]
           /\ \A handle \in Handle : handle.call # c => keys'[handle] = keys[handle]
           /\ Gone(c, purpose)'
           /\ \A other \in Purpose : Gone(c, other) => Gone(c, other)'
           /\ KeysAgree(c)'
  <1>1. KeyOf(c, purpose) \in Handle /\ KeyOf(c, purpose).call = c
    BY HandleFields
  <1>2. /\ keys' \in [Handle -> Envelope \cup {NoEnvelope}]
        /\ keys'[KeyOf(c, purpose)] = NoEnvelope
        /\ \A handle \in Handle : handle # KeyOf(c, purpose) => keys'[handle] = keys[handle]
    BY <1>1 DEF Put
  <1>3. /\ \A handle \in Handle : handle.call # c => keys'[handle] = keys[handle]
    BY <1>1, <1>2
  <1>4. Gone(c, purpose)'
    BY <1>2 DEF Gone
  <1>5. ASSUME NEW other \in Purpose, other # purpose
        PROVE  /\ Gone(c, other)' <=> Gone(c, other)
               /\ Kept(c, other)' <=> Kept(c, other)
               /\ (preparations'[c].made[other] \in Versions) <=> (preparations[c].made[other] \in Versions)
    <2>1. keys'[KeyOf(c, other)] = keys[KeyOf(c, other)]
      BY <1>2, <1>5, HandleFields
    <2> QED BY <2>1 DEF Gone, Kept, EnvelopeOf
  <1>6. KeysAgree(c)'
    BY <1>4, <1>5 DEF KeysAgree
  <1>7. \A other \in Purpose : Gone(c, other) => Gone(c, other)'
    BY <1>4, <1>5
  <1> QED BY <1>2, <1>3, <1>4, <1>6, <1>7

\* One compensation step, whether its delete succeeds or not.
LEMMA CleanKeeps ==
    ASSUME PreparationInvariant, NEW c \in Calls, NEW purpose \in Purpose, Clean(c, purpose)
    PROVE  PreparationInvariant'
  <1> DEFINE o == preparations[c]
             after(failed) ==
                 [o EXCEPT !.pc = IF purpose = "payload" THEN "clean" ELSE "done",
                           !.purpose = "commitment",
                           !.cleanupFailed = @ \/ failed]
  <1>1. /\ preparations \in [Calls -> Preparing] /\ o \in Preparing /\ o.ref \in References
        /\ keys \in [Handle -> Envelope \cup {NoEnvelope}]
        /\ KeysAgree(c) /\ CallAgrees(c) /\ o.pc = "clean" /\ o.purpose = purpose
        /\ o.ending # "returned"
        /\ UNCHANGED <<provider, current, retired, rows>>
    BY DEF PreparationInvariant, Types, Preparing, Clean, CallAgrees
  <1>2. Created(c) => RowAgrees(o.ref) /\ rows[o.ref].by = c /\ c # NoCall
    BY <1>1, PreparationAssumption DEF PreparationInvariant, Created
  <1>3. PICK failed \in BOOLEAN :
            /\ preparations' = [preparations EXCEPT ![c] = after(failed)]
            /\ \/ ~failed /\ Put(KeyOf(c, purpose), NoEnvelope)
               \/ failed /\ UNCHANGED keys
    BY DEF Clean, Destroy
  <1>4. after(failed) \in Preparing
    BY <1>1 DEF Preparing, Purpose
  <1>5. PICK p \in Preparing : p = after(failed)
    BY <1>4
  <1>6. /\ preparations' = [preparations EXCEPT ![c] = p]
        /\ p.ref = o.ref /\ p.made = o.made /\ p.purpose = "commitment"
        /\ p.pc = IF purpose = "payload" THEN "clean" ELSE "done"
        /\ p.ending = o.ending
        /\ p.cleanupFailed <=> (o.cleanupFailed \/ failed)
    BY <1>1, <1>3, <1>5 DEF Preparing
  <1>7. preparations'[c] = p
    BY <1>1, <1>6
  <1>8. /\ keys' \in [Handle -> Envelope \cup {NoEnvelope}]
        /\ \A handle \in Handle : handle.call # c => keys'[handle] = keys[handle]
        /\ ~failed => Gone(c, purpose)'
        /\ \A other \in Purpose : Gone(c, other) => Gone(c, other)'
        /\ KeysAgree(c)'
    <2>1. CASE ~failed
      BY <1>1, <1>3, <1>6, <1>7, <2>1, KeyDestroyed
    <2>2. CASE failed
      <3>1. UNCHANGED keys
        BY <1>3, <2>2
      <3> QED BY <1>1, <1>6, <1>7, <2>2, <3>1, SameKeys
    <2> QED BY <2>1, <2>2
  <1>9. CallAgrees(c)'
    <2>1. CASE purpose = "payload"
      BY <1>1, <1>6, <1>7, <1>8, <2>1 DEF CallAgrees
    <2>2. CASE purpose = "commitment"
      <3>1. o.ending \in {"failed", "cancelled"} /\ ~o.cleanupFailed => Gone(c, "payload")'
        BY <1>1, <1>8, <2>2 DEF CallAgrees, Purpose
      <3> QED BY <1>1, <1>6, <1>7, <1>8, <2>2, <3>1 DEF CallAgrees
    <2> QED BY <2>1, <2>2 DEF Purpose
  <1>10. Created(c) => RowAgrees(p.ref)'
    BY <1>1, <1>2, <1>6, <1>7 DEF RowAgrees
  <1> HIDE DEF o, after
  <1> QED BY <1>1, <1>6, <1>8, <1>9, <1>10, OwnStep DEF o

-----------------------------------------------------------------------------
(* The other actors. *)

\* A handler or an erasure that changes a row in place.
LEMMA RowChanged ==
    ASSUME PreparationInvariant, NEW row \in References, NEW r \in Row, ~Missing(row),
           rows' = [rows EXCEPT ![row] = r],
           r.by = rows[row].by,
           rows[row].moved => r.moved, rows[row].erasing => r.erasing,
           UNCHANGED <<provider, keys, current, retired, preparations>>
    PROVE  PreparationInvariant'
  <1>1. /\ rows \in [References -> Row] /\ rows' \in [References -> Row] /\ rows'[row] = r
        /\ \A ref \in References : ref # row => rows'[ref] = rows[ref]
        /\ \A ref \in References : rows'[ref].by = rows[ref].by
    BY DEF PreparationInvariant, Types
  <1>2. Types'
    BY <1>1 DEF PreparationInvariant, Types
  <1>3. ASSUME NEW c \in Calls
        PROVE  /\ Created(c)' <=> Created(c)
               /\ \A purpose \in Purpose : Gone(c, purpose)' <=> Gone(c, purpose)
               /\ \A purpose \in Purpose : Kept(c, purpose)' <=> Kept(c, purpose)
               /\ KeysAgree(c)' <=> KeysAgree(c)
    <2>1. preparations[c].ref \in References
      BY DEF PreparationInvariant, Types, Preparing
    <2> QED BY <1>1, <2>1, SameKeys DEF Created
  <1>4. ASSUME NEW c \in Calls
        PROVE  KeysAgree(c)' /\ CallAgrees(c)'
    <2>1. KeysAgree(c) /\ CallAgrees(c) /\ preparations[c].purpose \in Purpose
      BY DEF PreparationInvariant, Types, Preparing
    <2> QED BY <1>3, <2>1 DEF CallAgrees, Purpose
  <1>5. ASSUME NEW ref \in References
        PROVE  RowAgrees(ref)'
    <2>1. RowAgrees(ref) /\ rows[ref].by \in Calls \cup {NoCall}
      BY <1>1 DEF PreparationInvariant, Row
    <2>2. CASE ref = row
      BY <1>1, <1>3, <2>1, <2>2 DEF RowAgrees, Purpose
    <2>3. CASE ref # row
      BY <1>1, <1>3, <2>1, <2>3 DEF RowAgrees, Purpose
    <2> QED BY <2>2, <2>3
  <1> QED BY <1>2, <1>4, <1>5 DEF PreparationInvariant

\* Authority, expiry or execution writes the row.
LEMMA AdvanceKeeps ==
    ASSUME PreparationInvariant, NEW ref \in References, Advance(ref)
    PROVE  PreparationInvariant'
  <1>1. rows[ref] \in Row
    BY DEF PreparationInvariant, Types
  <1>2. PICK r \in Row : r = [rows[ref] EXCEPT !.moved = TRUE]
    BY <1>1 DEF Row
  <1>3. /\ rows' = [rows EXCEPT ![ref] = r] /\ r.by = rows[ref].by
        /\ rows[ref].moved => r.moved
        /\ rows[ref].erasing => r.erasing
        /\ ~Missing(ref) /\ UNCHANGED <<provider, keys, current, retired, preparations>>
    BY <1>1, <1>2 DEF Advance, Row, envelopeVars
  <1> QED BY <1>3, RowChanged

\* erase records its intent.
LEMMA MarkErasureKeeps ==
    ASSUME PreparationInvariant, NEW ref \in References, MarkErasure(ref)
    PROVE  PreparationInvariant'
  <1>1. rows[ref] \in Row
    BY DEF PreparationInvariant, Types
  <1>2. PICK r \in Row : r = [rows[ref] EXCEPT !.erasing = TRUE]
    BY <1>1 DEF Row
  <1>3. /\ rows' = [rows EXCEPT ![ref] = r] /\ r.by = rows[ref].by
        /\ rows[ref].moved => r.moved
        /\ rows[ref].erasing => r.erasing
        /\ ~Missing(ref) /\ UNCHANGED <<provider, keys, current, retired, preparations>>
    BY <1>1, <1>2 DEF MarkErasure, Row, envelopeVars
  <1> QED BY <1>3, RowChanged

\* erase destroys a key that a row under erasure names.
LEMMA DestroyErasedKeeps ==
    ASSUME PreparationInvariant, NEW ref \in References, NEW purpose \in Purpose,
           DestroyErased(ref, purpose)
    PROVE  PreparationInvariant'
  <1>1. /\ preparations \in [Calls -> Preparing] /\ rows[ref] \in Row
        /\ keys \in [Handle -> Envelope \cup {NoEnvelope}]
        /\ rows[ref].by # NoCall /\ rows[ref].erasing /\ RowAgrees(ref)
        /\ UNCHANGED <<provider, current, retired, preparations, rows>>
    BY DEF PreparationInvariant, Types, DestroyErased, Missing
  <1>2. PICK c \in Calls : rows[ref].by = c
    BY <1>1 DEF Row
  <1>3. PICK p \in Preparing : p = preparations[c]
    BY <1>1
  <1>4. /\ KeysAgree(c) /\ CallAgrees(c) /\ p.ref = ref /\ p.pc \in {"reconcile", "clean", "done"}
    BY <1>1, <1>2, <1>3 DEF PreparationInvariant, RowAgrees
  <1>5. /\ preparations' = [preparations EXCEPT ![c] = p] /\ preparations'[c] = p
        /\ Put(KeyOf(c, purpose), NoEnvelope)
    BY <1>1, <1>2, <1>3 DEF DestroyErased, Destroy
  <1>6. /\ keys' \in [Handle -> Envelope \cup {NoEnvelope}]
        /\ \A handle \in Handle : handle.call # c => keys'[handle] = keys[handle]
        /\ \A other \in Purpose : Gone(c, other) => Gone(c, other)'
        /\ KeysAgree(c)'
    BY <1>1, <1>3, <1>4, <1>5, KeyDestroyed
  <1>7. CallAgrees(c)'
    <2>1. Created(c)' <=> Created(c)
      BY <1>1 DEF Created
    <2> QED BY <1>1, <1>3, <1>4, <1>5, <1>6, <2>1 DEF CallAgrees, Purpose
  <1>8. RowAgrees(p.ref)'
    BY <1>1, <1>2, <1>3, <1>4, <1>5 DEF RowAgrees
  <1> QED BY <1>1, <1>3, <1>5, <1>6, <1>7, <1>8, OwnStep

\* The host rotates or retires a key encryption key, or nothing happens.
LEMMA HostKeeps ==
    ASSUME PreparationInvariant, current' \in Versions, retired' \subseteq Versions,
           UNCHANGED <<provider, keys, preparations, rows>>
    PROVE  PreparationInvariant'
  <1>1. Types'
    BY DEF PreparationInvariant, Types
  <1>2. ASSUME NEW c \in Calls
        PROVE  KeysAgree(c)' /\ CallAgrees(c)'
    BY DEF PreparationInvariant, KeysAgree, CallAgrees, Created, Gone, Kept, EnvelopeOf
  <1>3. ASSUME NEW ref \in References
        PROVE  RowAgrees(ref)'
    BY DEF PreparationInvariant, RowAgrees, Kept, EnvelopeOf
  <1> QED BY <1>1, <1>2, <1>3 DEF PreparationInvariant

-----------------------------------------------------------------------------
(* Theorems *)

\* Before any call has drawn a handle.
LEMMA InitEstablishes == Init => PreparationInvariant
  <1> SUFFICES ASSUME Init PROVE PreparationInvariant
    OBVIOUS
  <1> DEFINE start(ref) == [ pc |-> "new", purpose |-> "commitment", made |-> [p \in Purpose |-> 0],
                             ref |-> ref, ending |-> "none", cleanupFailed |-> FALSE ]
  <1>1. ASSUME NEW ref \in References
        PROVE  start(ref) \in Preparing
    <2>1. [p \in Purpose |-> 0] \in [Purpose -> Versions \cup {0}]
      OBVIOUS
    <2> QED BY <2>1 DEF Preparing, Purpose, Ending
  <1>2. ASSUME NEW c \in Calls
        PROVE  \E ref \in References : preparations[c] = start(ref)
    BY DEF Init
  <1>3. preparations \in [Calls -> Preparing]
    <2>1. preparations \in [Calls -> {start(ref) : ref \in References}]
      BY DEF Init
    <2>2. {start(ref) : ref \in References} \subseteq Preparing
      BY <1>1
    <2> HIDE DEF start
    <2> QED BY <2>1, <2>2
  <1>4. NoRow \in Row /\ NoRow.by = NoCall
    BY DEF NoRow, Row
  <1>5. rows \in [References -> Row] /\ \A ref \in References : rows[ref].by = NoCall
    BY <1>4 DEF Init
  <1>6. Types
    BY <1>3, <1>5, VersionAssumption DEF Init, EnvelopeInit, Types, Versions
  <1>7. ASSUME NEW c \in Calls
        PROVE  KeysAgree(c) /\ CallAgrees(c)
    <2>1. \A purpose \in Purpose : Gone(c, purpose)
      BY HandleFields DEF Init, EnvelopeInit, Gone
    <2>2. PICK ref \in References : preparations[c] = start(ref)
      BY <1>2
    <2>3. /\ preparations[c].pc = "new" /\ preparations[c].purpose = "commitment"
          /\ preparations[c].ref = ref
      BY <2>2
    <2>4. ~Created(c)
      BY <1>5, <2>3, PreparationAssumption DEF Created
    <2>5. KeysAgree(c)
      BY <2>1 DEF KeysAgree
    <2>6. CallAgrees(c)
      BY <2>1, <2>3, <2>4 DEF CallAgrees, Purpose
    <2> QED BY <2>5, <2>6
  <1>8. ASSUME NEW ref \in References
        PROVE  RowAgrees(ref)
    BY <1>5 DEF RowAgrees
  <1> QED BY <1>6, <1>7, <1>8 DEF PreparationInvariant

\* One case per action.
LEMMA NextKeeps == PreparationInvariant /\ [Next]_vars => PreparationInvariant'
  <1> SUFFICES ASSUME PreparationInvariant, [Next]_vars PROVE PreparationInvariant'
    OBVIOUS
  <1>1. current \in Versions /\ retired \subseteq Versions
    BY DEF PreparationInvariant, Types
  <1>2. ASSUME NEW c \in Calls, NEW purpose \in Purpose, MakesKey(c, purpose)
        PROVE  PreparationInvariant'
    BY <1>2, NewKeyKeeps, PutKeyKeeps, ReadKeyBackKeeps DEF MakesKey
  <1>3. ASSUME NEW c \in Calls,
               LocalCreateFor(c) \/ LocalProtectFor(c) \/ KmsCreateFor(c) \/ KmsProtectFor(c)
        PROVE  PreparationInvariant'
    BY <1>2, <1>3 DEF LocalCreateFor, LocalProtectFor, KmsCreateFor, KmsProtectFor, Purpose
  <1>4. ASSUME NEW c \in Calls, CreateRow(c)
        PROVE  PreparationInvariant'
    BY <1>4, CreateRowKeeps
  <1>5. ASSUME NEW c \in Calls, Reconcile(c)
        PROVE  PreparationInvariant'
    BY <1>5, ReconcileKeeps
  <1>6. ASSUME NEW c \in Calls, CleanPayload(c) \/ CleanCommitment(c)
        PROVE  PreparationInvariant'
    BY <1>6, CleanKeeps DEF CleanPayload, CleanCommitment, Purpose
  <1>7. ASSUME NEW c \in Calls, Crash(c)
        PROVE  PreparationInvariant'
    BY <1>7, CrashKeeps
  <1>8. ASSUME NEW ref \in References, Advance(ref)
        PROVE  PreparationInvariant'
    BY <1>8, AdvanceKeeps
  <1>9. ASSUME NEW ref \in References, MarkErasure(ref)
        PROVE  PreparationInvariant'
    BY <1>9, MarkErasureKeeps
  <1>10. ASSUME NEW ref \in References, NEW purpose \in Purpose, DestroyErased(ref, purpose)
         PROVE  PreparationInvariant'
    BY <1>10, DestroyErasedKeeps
  <1>11. CASE Rotate /\ UNCHANGED <<preparations, rows>>
    <2>1. current' \in Versions
      BY <1>1, <1>11, VersionAssumption DEF Rotate, Versions
    <2> QED BY <1>1, <1>11, <2>1, HostKeeps DEF Rotate
  <1>12. ASSUME NEW version \in Versions, Retire(version), UNCHANGED <<preparations, rows>>
         PROVE  PreparationInvariant'
    <2>1. /\ retired' \subseteq Versions /\ current' \in Versions
          /\ UNCHANGED <<provider, keys, preparations, rows>>
      BY <1>1, <1>12 DEF Retire
    <2> QED BY <2>1, HostKeeps
  <1>13. CASE UNCHANGED vars
    BY <1>1, <1>13, HostKeeps DEF vars, envelopeVars
  <1> QED BY <1>3, <1>4, <1>5, <1>6, <1>7, <1>8, <1>9, <1>10, <1>11, <1>12, <1>13 DEF Next

\* At every await of every call the keys that are stored are the ones the code
\* believes to be, whichever acknowledgements were lost.
THEOREM PreparationInvariantHolds == Spec => []PreparationInvariant
  BY InitEstablishes, NextKeeps, PTL DEF Spec

\* _persist_prepared takes the keys of no row but one that another actor changed
\* before its creator, whose acknowledgement was lost, read it back.
THEOREM UntouchedRowsKeepKeys == Spec => []OnlyAdvancedRowsLoseKeys
  <1>1. PreparationInvariant => OnlyAdvancedRowsLoseKeys
    <2> SUFFICES ASSUME PreparationInvariant, NEW ref \in References,
                        ~Missing(ref), ~rows[ref].erasing, ~(KeysOf(rows[ref].by) \subseteq StoredKeys)
                 PROVE  /\ rows[ref].moved
                        /\ preparations[rows[ref].by].pc \in {"clean", "done"}
                        /\ preparations[rows[ref].by].ending \in {"failed", "cancelled", "crashed"}
      BY DEF OnlyAdvancedRowsLoseKeys
    <2>1. RowAgrees(ref) /\ rows[ref].by # NoCall /\ rows[ref].by \in Calls
      BY DEF PreparationInvariant, Types, Row, Missing
    <2>2. PICK c \in Calls : rows[ref].by = c
      BY <2>1
    <2>3. ~(Kept(c, "commitment") /\ Kept(c, "payload"))
      <3>1. SUFFICES ASSUME Kept(c, "commitment"), Kept(c, "payload")
                     PROVE  FALSE
        OBVIOUS
      <3>2. \A purpose \in Purpose : Kept(c, purpose)
        BY <3>1 DEF Purpose
      <3>3. KeysAgree(c)
        BY DEF PreparationInvariant
      <3>4. ASSUME NEW purpose \in Purpose
            PROVE  KeyOf(c, purpose) \in StoredKeys
        <4>1. KeyOf(c, purpose) \in Handle
          BY HandleFields
        <4>2. keys[KeyOf(c, purpose)] # NoEnvelope
          <5>1. CASE Gone(c, purpose)
            <6>1. DOMAIN EnvelopeOf(c, purpose) # DOMAIN NoEnvelope
              BY DEF EnvelopeOf, NoEnvelope
            <6> QED BY <3>2, <5>1, <6>1 DEF Gone, Kept
          <5>2. CASE Kept(c, purpose) /\ preparations[c].made[purpose] \in Versions
            BY <5>2, KeptIsStored DEF Kept
          <5> QED BY <3>3, <5>1, <5>2 DEF KeysAgree
        <4> QED BY <4>1, <4>2 DEF StoredKeys
      <3> QED BY <2>2, <3>4 DEF KeysOf
    <2> QED BY <2>1, <2>2, <2>3 DEF RowAgrees
  <1> QED BY <1>1, PreparationInvariantHolds, PTL

\* A prepare that returned has its own row, whose content opens until it is
\* erased or a wrapping key was retired while the call had it in hand.
THEOREM ReturnedIsUsable == Spec => []ReturnedProposalIsUsable
  <1>1. PreparationInvariant => ReturnedProposalIsUsable
    <2> SUFFICES ASSUME PreparationInvariant, NEW c \in Calls, Ended(c, {"returned"})
                 PROVE  LET ref == preparations[c].ref
                        IN  /\ rows[ref].by = c
                            /\ \/ rows[ref].erasing
                               \/ LoadPrivate(ref) = "opened"
                               \/ \E purpose \in Purpose : preparations[c].made[purpose] \in retired
      BY DEF ReturnedProposalIsUsable
    <2>1. PICK ref \in References : ref = preparations[c].ref
      BY DEF PreparationInvariant, Types, Preparing
    <2>2. preparations[c].pc = "done" /\ preparations[c].ending = "returned"
      BY DEF Ended
    <2>3. CallAgrees(c) /\ RowAgrees(ref)
      BY DEF PreparationInvariant
    <2>4. rows[ref].by = c /\ c # NoCall
      BY <2>1, <2>2, <2>3, PreparationAssumption DEF CallAgrees, Created
    <2>5. rows[ref].erasing \/ (Kept(c, "commitment") /\ Kept(c, "payload"))
      BY <2>2, <2>3, <2>4 DEF RowAgrees
    <2>6. ASSUME Kept(c, "commitment"), Kept(c, "payload"),
                 ~ \E purpose \in Purpose : preparations[c].made[purpose] \in retired
          PROVE  LoadPrivate(ref) = "opened"
      <3> DEFINE made == preparations[c].made
      <3>1. \A purpose \in Purpose : made[purpose] \notin retired
        BY <2>6
      <3>2. \A purpose \in Purpose : keys[KeyOf(c, purpose)] =
                [ref |-> ref, purpose |-> purpose, version |-> made[purpose]]
        BY <2>1, <2>6 DEF Kept, EnvelopeOf, Purpose
      <3>3. \A purpose \in Purpose :
               /\ Matches(keys[KeyOf(c, purpose)], ref, purpose, made[purpose])
               /\ Unwraps(keys[KeyOf(c, purpose)])
        BY <3>1, <3>2 DEF Matches, Unwraps
      <3> HIDE DEF made
      <3>4. /\ UnprotectFor(KeyOf(c, "payload"), ref, made["payload"]) = "opened"
            /\ VerifyFor(KeyOf(c, "commitment"), ref, made["commitment"]) = "opened"
        BY <3>3 DEF Purpose, UnprotectFor, VerifyFor, LocalUnprotectFor, KmsUnprotectFor,
                    LocalVerifyFor, KmsVerifyFor
      <3> QED BY <2>4, <3>4 DEF LoadPrivate, made
    <2> QED BY <2>1, <2>4, <2>5, <2>6
  <1> QED BY <1>1, PreparationInvariantHolds, PTL

\* A failure that says nothing of kept or unknown state, and whose compensation
\* reported no error, has left no data key behind.
THEOREM QuietFailureIsClean == Spec => []QuietFailureLeavesNoKeys
  <1>1. PreparationInvariant => QuietFailureLeavesNoKeys
    <2> SUFFICES ASSUME PreparationInvariant, NEW c \in Calls, Ended(c, {"failed", "cancelled"}),
                        ~preparations[c].cleanupFailed
                 PROVE  KeysOf(c) \cap StoredKeys = {}
      BY DEF QuietFailureLeavesNoKeys
    <2>1. \A purpose \in Purpose : Gone(c, purpose)
      BY DEF PreparationInvariant, CallAgrees, Ended, Purpose
    <2> QED BY <2>1 DEF Gone, KeysOf, StoredKeys
  <1> QED BY <1>1, PreparationInvariantHolds, PTL
=============================================================================
