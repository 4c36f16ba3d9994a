---------------------------- MODULE Preparation ----------------------------
(***************************************************************************)
(* prepare's persistence protocol: _persist_prepared in runtime.py over    *)
(* the envelope protection of local_kek.py and aws_kms.py.  Two data keys  *)
(* are stored, then the proposal row; an acknowledgement of any of these   *)
(* writes can be lost, the call can be cancelled at any await, and other   *)
(* actors use the row as soon as it is there.  On failure the call         *)
(* destroys the keys it made, unless its row may have been stored.         *)
(*                                                                         *)
(* Key handles are random, so keys belong to a call, not to a reference;   *)
(* several calls may be made for one caller-supplied proposal reference.   *)
(***************************************************************************)
EXTENDS EnvelopeProtection

CONSTANT NoCall   \* no row was created for a reference

VARIABLES
    preparations,   \* local state of each call
    rows            \* per reference: who created the row, what happened to it

vars == <<envelopeVars, preparations, rows>>

ASSUME PreparationAssumption == NoCall \notin Calls

KeysOf(c) == {KeyOf(c, purpose) : purpose \in Purpose}

StoredKeys == {handle \in Handle : keys[handle] # NoEnvelope}

\* How a call ends or is about to end.
Ending ==
    {"none", "returned", "failed", "cancelled", "kept", "unknown", "crashed"}

\* made is the version under which each data key of the call was wrapped.
Preparing ==
    [ pc : {"new", "put", "read", "create", "reconcile", "clean", "done"},
      purpose : Purpose,
      made : [Purpose -> Versions \cup {0}],
      ref : References,
      ending : Ending,
      cleanupFailed : BOOLEAN ]

\* Only what the creator's read-back tells apart is kept of the row.
Row == [by : Calls \cup {NoCall}, moved : BOOLEAN, erasing : BOOLEAN]

NoRow == [by |-> NoCall, moved |-> FALSE, erasing |-> FALSE]

EnvelopeOf(c, purpose) ==
    [ref |-> preparations[c].ref, purpose |-> purpose, version |-> preparations[c].made[purpose]]

-----------------------------------------------------------------------------
(* Steps of one call. *)

Goto(c, pc, purpose) ==
    preparations' = [preparations EXCEPT ![c].pc = pc, ![c].purpose = purpose]

Finish(c, pc, ending) ==
    preparations' = [preparations EXCEPT ![c].pc = pc, ![c].ending = ending]

\* create_for or protect_for is over.  A commitment that failed leaves nothing
\* to compensate, a payload that failed only the commitment.
KeyMade(c, reply) ==
    LET call == preparations[c]
        next == CASE call.purpose = "commitment" /\ reply = "returned" ->
                        [call EXCEPT !.pc = "new", !.purpose = "payload", !.ending = "none"]
                  [] call.purpose = "payload" /\ reply = "returned" ->
                        [call EXCEPT !.pc = "create", !.ending = "none"]
                  [] call.purpose = "commitment" /\ reply # "returned" ->
                        [call EXCEPT !.pc = "done", !.ending = reply]
                  [] call.purpose = "payload" /\ reply # "returned" ->
                        [call EXCEPT !.pc = "clean", !.purpose = "commitment", !.ending = reply]
    IN  preparations' = [preparations EXCEPT ![c] = next]

\* _new_key: the wrapping key is fetched and may change from here on.
NewKey(c) ==
    LET purpose == preparations[c].purpose
    IN  /\ preparations[c].pc = "new"
        /\ \/ preparations' = [preparations EXCEPT ![c].pc = "put", ![c].made[purpose] = current]
           \/ \E raised \in {"failed", "cancelled"} : KeyMade(c, raised)
        /\ UNCHANGED <<envelopeVars, rows>>

\* put, with an acknowledgement that may be lost.
PutKey(c) ==
    LET purpose == preparations[c].purpose
    IN  /\ preparations[c].pc = "put"
        /\ \E result \in PutReplies :
              /\ IF result.persisted THEN Put(KeyOf(c, purpose), EnvelopeOf(c, purpose))
                                     ELSE UNCHANGED keys
              /\ CASE result.reply = "returned" -> KeyMade(c, "returned")
                   [] result.reply = "rejected" -> KeyMade(c, "failed")
                   [] OTHER -> Finish(c, "read", result.reply)
        /\ UNCHANGED <<provider, current, retired, rows>>

\* get, and what _store_key makes of the failed put.
ReadKeyBack(c) ==
    LET purpose == preparations[c].purpose
    IN  /\ preparations[c].pc = "read"
        /\ \E reply \in Interpreted(preparations[c].ending, KeyOf(c, purpose), EnvelopeOf(c, purpose)) :
              KeyMade(c, reply)
        /\ UNCHANGED <<envelopeVars, rows>>

MakesKey(c, purpose) ==
    /\ preparations[c].purpose = purpose
    /\ NewKey(c) \/ PutKey(c) \/ ReadKeyBack(c)

LocalCreateFor(c) == provider = "local_kek" /\ MakesKey(c, "commitment")
LocalProtectFor(c) == provider = "local_kek" /\ MakesKey(c, "payload")
KmsCreateFor(c) == provider = "aws_kms" /\ MakesKey(c, "commitment")
KmsProtectFor(c) == provider = "aws_kms" /\ MakesKey(c, "payload")

Missing(ref) == rows[ref].by = NoCall

\* store.create: it inserts the row and answers, or raises after inserting it
\* or without doing so.  An existing row is always refused.
CreateRow(c) ==
    LET ref == preparations[c].ref
        insert == rows' = [rows EXCEPT ![ref] = [NoRow EXCEPT !.by = c]]
    IN  /\ preparations[c].pc = "create"
        /\ \/ Missing(ref) /\ insert /\ Finish(c, "done", "returned")
           \/ \E raised \in {"failed", "cancelled"} :
                 /\ Finish(c, "reconcile", raised)
                 /\ \/ Missing(ref) /\ insert
                    \/ UNCHANGED rows
        /\ UNCHANGED envelopeVars

\* Mutant: a create that raised is taken for one that stored nothing.
NeverPersisted(c) == FALSE

\* persisted == record
ReadsBackItsRecord(c) ==
    rows[preparations[c].ref] = [NoRow EXCEPT !.by = c]

\* The read-back after create raised: unavailable, this call's own record, or
\* something else, and then the keys of the call are compensated.
Reconcile(c) ==
    LET cancelled == preparations[c].ending = "cancelled"
    IN  /\ preparations[c].pc = "reconcile"
        /\ \/ Finish(c, "done", IF cancelled THEN "kept" ELSE "unknown")
           \/ /\ ReadsBackItsRecord(c)
              /\ Finish(c, "done", IF cancelled THEN "kept" ELSE "returned")
           \/ ~ReadsBackItsRecord(c) /\ Goto(c, "clean", "payload")
        /\ UNCHANGED <<envelopeVars, rows>>

\* One compensation step; a failure is noted on the raised exception.
Clean(c, purpose) ==
    LET call == preparations[c]
        after(failed) ==
            [call EXCEPT !.pc = IF purpose = "payload" THEN "clean" ELSE "done",
                         !.purpose = "commitment",
                         !.cleanupFailed = @ \/ failed]
    IN  /\ call.pc = "clean" /\ call.purpose = purpose
        /\ \/ /\ Destroy(KeyOf(c, purpose), call.ref, purpose, call.made[purpose])
              /\ preparations' = [preparations EXCEPT ![c] = after(FALSE)]
           \/ /\ preparations' = [preparations EXCEPT ![c] = after(TRUE)]
              /\ UNCHANGED keys
        /\ UNCHANGED <<provider, current, retired, rows>>

CleanPayload(c) == Clean(c, "payload")
CleanCommitment(c) == Clean(c, "commitment")

\* The process dies.
Crash(c) ==
    /\ preparations[c].pc # "done"
    /\ Finish(c, "done", "crashed")
    /\ UNCHANGED <<envelopeVars, rows>>

-----------------------------------------------------------------------------
(* Other actors on a stored row. *)

\* Any handler that writes the row: authority, expiry, execution.
Advance(ref) ==
    /\ ~Missing(ref)
    /\ ~rows[ref].erasing
    /\ rows' = [rows EXCEPT ![ref].moved = TRUE]
    /\ UNCHANGED <<envelopeVars, preparations>>

\* erase records its intent, then destroys the keys the row names.
MarkErasure(ref) ==
    /\ ~Missing(ref)
    /\ rows' = [rows EXCEPT ![ref].erasing = TRUE]
    /\ UNCHANGED <<envelopeVars, preparations>>

\* The payload's key first, then the commitment's.
DestroyErased(ref, purpose) ==
    LET by == rows[ref].by
    IN  /\ ~Missing(ref)
        /\ rows[ref].erasing
        /\ purpose = "commitment" => keys[KeyOf(by, "payload")] = NoEnvelope
        /\ Destroy(KeyOf(by, purpose), ref, purpose, preparations[by].made[purpose])
        /\ UNCHANGED <<provider, current, retired, preparations, rows>>

\* _load_private: what a handler that needs the content of a row gets.
LoadPrivate(ref) ==
    LET by == rows[ref].by
        made == preparations[by].made
        opened == UnprotectFor(KeyOf(by, "payload"), ref, made["payload"])
    IN  IF opened = "opened" THEN VerifyFor(KeyOf(by, "commitment"), ref, made["commitment"])
                             ELSE opened

-----------------------------------------------------------------------------

Init ==
    /\ EnvelopeInit
    /\ preparations \in
          [Calls -> {[ pc |-> "new", purpose |-> "commitment", made |-> [p \in Purpose |-> 0],
                       ref |-> ref, ending |-> "none", cleanupFailed |-> FALSE ] : ref \in References}]
    /\ rows = [ref \in References |-> NoRow]

Next ==
    \/ \E c \in Calls :
          \/ LocalCreateFor(c) \/ LocalProtectFor(c) \/ KmsCreateFor(c) \/ KmsProtectFor(c)
          \/ CreateRow(c)
          \/ Reconcile(c)
          \/ CleanPayload(c)
          \/ CleanCommitment(c)
          \/ Crash(c)
    \/ \E ref \in References :
          \/ Advance(ref) \/ MarkErasure(ref)
          \/ \E purpose \in Purpose : DestroyErased(ref, purpose)
    \/ /\ Rotate \/ \E version \in Versions : Retire(version)
       /\ UNCHANGED <<preparations, rows>>

Spec == Init /\ [][Next]_vars

-----------------------------------------------------------------------------
(* What must hold. *)

Ended(c, endings) ==
    preparations[c].pc = "done" /\ preparations[c].ending \in endings

\* Compensation never destroys "keys that may belong to a persisted proposal"
\* (docs/features/private-state.md): a row not under erasure has its keys.
RowsKeepTheirKeys ==
    \A ref \in References :
        ~Missing(ref) /\ ~rows[ref].erasing => KeysOf(rows[ref].by) \subseteq StoredKeys

\* The only rows _persist_prepared can rob of their keys are rows another actor
\* advanced before the creator, whose acknowledgement was lost, read them back;
\* that creator then reports a plain failure.
OnlyAdvancedRowsLoseKeys ==
    \A ref \in References :
        LET creator == rows[ref].by
        IN  (~Missing(ref) /\ ~rows[ref].erasing
                /\ ~(KeysOf(creator) \subseteq StoredKeys)) =>
              /\ rows[ref].moved
              /\ preparations[creator].pc \in {"clean", "done"}
              /\ preparations[creator].ending \in {"failed", "cancelled", "crashed"}

\* A prepare that returns has created its own row, and until someone erases the
\* proposal its content can be loaded, whatever was rotated in between and since.
\* The one exception is a wrapping key that was retired while the call had it in
\* hand: no stored key named it yet.
ReturnedProposalIsUsable ==
    \A c \in Calls :
        Ended(c, {"returned"}) =>
            LET ref == preparations[c].ref
            IN  /\ rows[ref].by = c
                /\ \/ rows[ref].erasing
                   \/ LoadPrivate(ref) = "opened"
                   \/ \E purpose \in Purpose : preparations[c].made[purpose] \in retired

\* A failure that says nothing about kept or unknown state leaves no data key
\* behind, whichever write failed and however its acknowledgement was lost.
QuietFailureLeavesNoKeys ==
    \A c \in Calls :
        Ended(c, {"failed", "cancelled"}) /\ ~preparations[c].cleanupFailed =>
            KeysOf(c) \cap StoredKeys = {}
=============================================================================
