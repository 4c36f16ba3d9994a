------------------------- MODULE EnvelopeProtection -------------------------
(***************************************************************************)
(* Envelope protection of local_kek.py and aws_kms.py: every commitment    *)
(* and every payload has a data key of its own, stored under a random      *)
(* handle and wrapped by the host's current key encryption key (a KMS key  *)
(* plays the same part).  The host rotates that key and retires old ones.  *)
(*                                                                         *)
(* A key's plaintext and the cipher are abstracted to the metadata they    *)
(* authenticate: proposal, purpose, handle and version.                    *)
(***************************************************************************)
EXTENDS Integers

CONSTANTS
    Calls,        \* calls of prepare; a handle belongs to the call that drew it
    References,   \* proposal references
    MaxVersion    \* bound of rotations

ASSUME VersionAssumption == MaxVersion \in Nat \ {0}

VARIABLES
    provider,   \* which of the two adapters runs, fixed for each behaviour
    keys,       \* the wrapped-key store
    current,    \* version of the key encryption key that wraps now
    retired     \* versions that can no longer be resolved

envelopeVars == <<provider, keys, current, retired>>

Purpose == {"commitment", "payload"}
Versions == 1..MaxVersion

Handle == [call : Calls, purpose : Purpose]
KeyOf(c, purpose) == [call |-> c, purpose |-> purpose]

Envelope == [ref : References, purpose : Purpose, version : Versions]
NoEnvelope == [version |-> 0]

EnvelopeInit ==
    /\ provider \in {"local_kek", "aws_kms"}
    /\ keys = [handle \in Handle |-> NoEnvelope]
    /\ current = 1
    /\ retired = {}

-----------------------------------------------------------------------------
(* Storing a key *)

Put(handle, envelope) == keys' = [keys EXCEPT ![handle] = envelope]

\* What put does, and whether the envelope is stored then.  Only the local
\* adapter knows an error that proves it is not.
LocalPut ==
    { [reply |-> "returned", persisted |-> TRUE],
      [reply |-> "rejected", persisted |-> FALSE] }
    \cup [reply : {"failed", "cancelled"}, persisted : BOOLEAN]

KmsPut ==
    { [reply |-> "returned", persisted |-> TRUE] }
    \cup [reply : {"failed", "cancelled"}, persisted : BOOLEAN]

PutReplies == IF provider = "local_kek" THEN LocalPut ELSE KmsPut

\* Mutant: the failure of put is passed on without reading back.
InterpretedBlindly(failure, handle, envelope) == {failure}

\* _store_key after put raised: what reading the handle back makes of it, or of
\* a read that raises too.  "kept" is a cancellation noted with "do not
\* compensate", "unknown" the outcome-unknown error.  A handle that is bound to
\* another envelope does not occur: handles are random.
Interpreted(failure, handle, envelope) ==
    IF failure = "cancelled"
    THEN {"kept", IF keys[handle] = envelope THEN "kept" ELSE "cancelled"}
    ELSE {"unknown", IF keys[handle] = envelope THEN "returned" ELSE "failed"}

-----------------------------------------------------------------------------
(* Using a key *)

Matches(envelope, ref, purpose, version) ==
    envelope = [ref |-> ref, purpose |-> purpose, version |-> version]

\* Mutant: the data key is unwrapped with the key that is current now.
UnwrapsWithCurrent(envelope) == envelope.version = current

\* The version that the envelope names is resolved, not the current one.
Unwraps(envelope) == envelope.version \notin retired

\* "refused" is a KeyError, a ValueError or False, which the runtime takes for
\* missing content; a KMS error is raised through it.
LocalUnprotectFor(handle, ref, version) ==
    IF Matches(keys[handle], ref, "payload", version) /\ Unwraps(keys[handle])
    THEN "opened" ELSE "refused"

LocalVerifyFor(handle, ref, version) ==
    IF Matches(keys[handle], ref, "commitment", version) /\ Unwraps(keys[handle])
    THEN "opened" ELSE "refused"

KmsUnprotectFor(handle, ref, version) ==
    IF ~Matches(keys[handle], ref, "payload", version) THEN "refused"
    ELSE IF Unwraps(keys[handle]) THEN "opened" ELSE "raised"

KmsVerifyFor(handle, ref, version) ==
    IF ~Matches(keys[handle], ref, "commitment", version) THEN "refused"
    ELSE IF Unwraps(keys[handle]) THEN "opened" ELSE "raised"

UnprotectFor(handle, ref, version) ==
    IF provider = "local_kek" THEN LocalUnprotectFor(handle, ref, version)
                              ELSE KmsUnprotectFor(handle, ref, version)

VerifyFor(handle, ref, version) ==
    IF provider = "local_kek" THEN LocalVerifyFor(handle, ref, version)
                              ELSE KmsVerifyFor(handle, ref, version)

-----------------------------------------------------------------------------
(* Destroying a key *)

\* delete_if_matches
Deletes(handle, ref, purpose, version) ==
    IF keys[handle] = NoEnvelope THEN "already_absent"
    ELSE IF Matches(keys[handle], ref, purpose, version) THEN "deleted"
    ELSE "mismatch"

\* Deleting a key twice succeeds; a key of something else is left alone.
Destroy(handle, ref, purpose, version) ==
    /\ Deletes(handle, ref, purpose, version) # "mismatch"
    /\ Put(handle, NoEnvelope)

-----------------------------------------------------------------------------
(* The host's key encryption keys *)

Rotate ==
    /\ current < MaxVersion
    /\ current' = current + 1
    /\ UNCHANGED <<provider, keys, retired>>

\* "Retire an old KEK only after no retained wrapped key names it"
\* (docs/integrations/local-kek.md).
Retire(version) ==
    /\ version < current
    /\ version \notin retired
    /\ \A handle \in Handle : keys[handle].version # version
    /\ retired' = retired \cup {version}
    /\ UNCHANGED <<provider, keys, current>>
=============================================================================
