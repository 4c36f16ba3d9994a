---------------------------- MODULE StripeLedger ----------------------------
(***************************************************************************)
(* PostgresStripeLedger: the durable intent ledger every Stripe action     *)
(* group shares.  An entry binds an intent to a customer resource, to its  *)
(* requester and to its snapshot, and passes ready -> reserved -> closed.  *)
(* Each operator is the decision one transaction takes under its row locks.*)
(***************************************************************************)
EXTENDS Naturals, FiniteSets, Functions

CONSTANTS Intents, Customer

\* StripeLedgerPhase, and "absent" for a row that was never inserted.
Phases == {"absent", "ready", "reserved", "closed"}

\* close_kind with the outcome it stores: an outcome is what the verifier read.
Closings == {"none", "no_submission", "done", "failed"}

Entry(phase, close, snapshot) == [phase |-> phase, close |-> close, snapshot |-> snapshot]

\* remember: INSERT ... ON CONFLICT DO NOTHING, then compare the stored binding.
Remembered(entry, snapshot) ==
  IF entry.phase = "absent" THEN "created"
  ELSE IF entry.snapshot = snapshot THEN "matched" ELSE "conflict"

ReopensClosed(ledger, i, snapshot, now, notAfter) ==
  IF ledger[i].phase = "absent" \/ ledger[i].snapshot # snapshot THEN "stale"
  ELSE IF ledger[i].phase = "reserved" THEN "already_submitted"
  ELSE IF now >= notAfter THEN "stale"
  ELSE IF \E j \in Intents \ {i} : ledger[j].phase = "reserved" /\ Customer[j] = Customer[i]
       THEN "unavailable" ELSE "acquired"

\* reserve_in: the advisory lock on the customer makes the conflict test atomic
\* with the update of the row.
ReserveIn(ledger, i, snapshot, now, notAfter) ==
  IF ledger[i].phase = "absent" \/ ledger[i].snapshot # snapshot THEN "stale"
  ELSE IF ledger[i].phase # "ready" THEN "already_submitted"
  ELSE IF now >= notAfter THEN "stale"
  ELSE IF \E j \in Intents \ {i} : ledger[j].phase = "reserved" /\ Customer[j] = Customer[i]
       THEN "unavailable"
       ELSE "acquired"

OverwritesClosed(entry, close) ==
  IF entry.phase = "absent" \/ (entry.phase = "ready" /\ close # "no_submission")
  THEN "error" ELSE "recorded"

\* _close_in: a repeated closing must match; an outcome needs a reservation.
CloseIn(entry, close) ==
  CASE entry.phase = "absent" -> "error"
    [] entry.phase = "closed" -> IF entry.close = close THEN "matched" ELSE "conflict"
    [] entry.phase = "ready" /\ close # "no_submission" -> "error"
    [] OTHER -> "recorded"
=============================================================================
