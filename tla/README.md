# A TLA+ model of threvo-actions

threvo-actions governs side effects that an agent proposes: a proposal is
prepared, approved by bound authority evidence, executed once against an
authoritative target, and verified until its outcome is known.  This directory
holds TLA+ modules of that lifecycle, of the SQL stores and their migrations,
of the recovery worker, the approval channel and the Stripe integration, TLC
configurations for small instances, and TLAPS proofs of the central guarantee,
that a business effect happens at most once and that the recorded status never
contradicts it, and of what the stores, preparation, the recovery worker, the
approval channel and the Stripe integration promise to it.

Paths such as `runtime.py` are below `src/src/threvo_actions/`.

## The system and its parts

| Part | State | Operations | Hard behaviour |
| --- | --- | --- | --- |
| Lifecycle tables (`models.py`, `stores/base.py`, `runtime.py`) | none | which status may follow which, which may be erased, what each allows | tables in several files that must agree |
| Proposal store (`stores/base.py`, `stores/memory.py`) | rows, effect claims | create, get, compare_and_set, admit_execution, mark_erasure_pending, complete_erasure | atomic claim and row; conditional writes from stale copies |
| Action runtime (`runtime.py`) | none of its own; coroutines between awaits | prepare, record_authority, expire_due, execute, reconcile, resume_verification, erase, read, export_evidence | interleaving at every await, crash, cancellation, expiry during a call, slow executors, lease takeover, resend |
| Preparation persistence (`runtime.py`, `integrations/local_kek.py`, `aws_kms.py`) | data keys, rows | _create_commitment, _protect_payload, create, read-back, compensation | lost acknowledgements, cancellation after a write, failing cleanup, rows used before their creator knows of them, a wrapping key rotated meanwhile |
| Authority (`authority.py`, `approvals.py`) | evidence on the row | binding and time checks, M-of-N evaluation | evidence expiring between check and use |
| Evidence export (`evidence.py`) | none | build and validate a bundle | statuses reached along paths the validator does not know |
| SQL stores (`stores/postgres.py`, `mysql.py`, `sqlite.py`) | tables, row, advisory and file locks | the store's operations as transactions | lock order, reads without a lock, retries, reads of parent and child rows |
| Schema migrations and readiness (`migrations.py`, `mysql_migrations.py`, `sqlite_migrations.py`, those of the approval and Stripe schemas, `readiness.py`, `cli.py`) | history, catalog, grants | migrate, render, grant, check readiness | DDL that commits by itself, a migrator lost in between, foreign histories, writers that are still running |
| Recovery worker (`recovery.py`, work discovery in the stores) | host schedule with lease tokens | scan, _run, discover_due, read_recovery | stale leases, work changing between discovery and run, retry for ever |
| Approval channel (`integrations/approval_channels/`, `examples/stripe_refunds/service.py`) | one request and decision per row | create, get, record_decision, deliver | duplicated and contradicting callbacks, a crash between persist and delivery |
| Stripe operations (`integrations/stripe/`) | provider ledger: ready, reserved, closed | prepare, execute, verify; remember, reserve, close | lost or late requests, crash around the provider call, host and provider changing meanwhile |
| Stripe host (`examples/stripe_host/`) | business rows, ledger tables | repositories' transactions, trigger | lock order across action groups |
| Conformance kits (`conformance.py`, `integrations/stripe/conformance.py`, `testing.py`) | none | scripted calls on a host's parts | rival calls answered in any order; a fault the script misses |
| Pydantic AI, application composition, canonical JSON | none shared | see source | not modelled |

The runtime calls the store for every state change and host ports (authorization,
preparation, state resolver, executor, verifier, retention) in between.  Parts
interact only through the row: each handler reads it, awaits, and writes it with
a compare-and-set on the revision it read.  The executor and verifier are the
only way to the target, and the target is not transactional with the store.

## Modules

| Module | Models | Notes |
| --- | --- | --- |
| `Lifecycle` | status vocabulary and tables | static |
| `ActionStore` | row, claim, the store's operations | one atomic step each: the memory store holds a lock, the SQL stores one transaction on the locked row |
| `ActionRuntime` | all state-changing handlers, workers, target and clock | extends `ActionStore`; states the properties |
| `EffectAdmission` | abstract specification of the promise on effects | owner, verdict, happened; no store, calls or clock |
| `ActionRuntimeInvariant` | the runtime's inductive invariant, in three layers | checked by TLC, proved in the first two proof modules |
| `EvidenceExport` | bundle and lifecycle check | extends `ActionRuntime` |
| `RecoveryView` | the due-work query and `read_recovery` | extends `ActionRuntime`; read-only projections |
| `EnvelopeProtection` | data keys of the local KEK and AWS KMS adapters, rotation and retirement | operators and the wrapped-key store |
| `Preparation` | `_persist_prepared` and `_load_private` | extends `EnvelopeProtection`; rows, calls |
| `ApprovalChannel` | requests and callback handlers | extends `ActionRuntime`; its evidence is what the runtime records |
| `AtomicStore` | abstract specification of the store contract for rivals of one effect | one indivisible step per operation |
| `SqlStore` | the PostgreSQL, MySQL and SQLite stores, statement by statement | implements `AtomicStore` |
| `RecoveryWorker` | scans, leases, advised operation, acknowledgement | proposals with relative time; fairness |
| `StripeLedger` | the ledger's decisions | operators shared by `StripeWorkflow` and `StripeExercise` |
| `StripeWorkflow` | prepare, execute and verify of the three action groups, and the provider | fairness |
| `HostTransactions` | the reference repositories' transactions and the row trigger | shows why `StripeWorkflow` may take them as steps; fairness |
| `Migrations` | five schemas, migrators, script, grants, readiness, writers | |
| `Conformance`, `StripeExercise` | the kits and subjects with at most one fault | |
| `Qualification` | composes `Migrations` with the kits | fairness |
| `ActionRuntimeProofs` | proofs: one effect, truthful statuses, refinement of `EffectAdmission` | TLAPS |
| `ActionCallProofs` | proofs: calls, keys, authority, counters, leases, erasure; the due-work query, `read_recovery`, evidence export; the runtime behind an approval channel and the persisted decision | extends `ActionRuntimeProofs` and `ApprovalChannel` |
| `PreparationProofs`, `SqlStoreProofs`, `RecoveryWorkerProofs`, `StripeWorkflowProofs`, `HostTransactionsProofs` | proofs about the module of that name | each with its inductive invariant |
| `MigrationsProofs` | proofs: writers and schemas, foreign histories, reruns of MySQL migrations | extends `Qualification` |
| `MC*` | instances | TLC |

### How the runtime is modelled

`calls[w]` is the local state of the call that worker `w` runs: where it is
suspended (`pc`), the record it holds, the clock value it took, the evidence it
filtered and the write it is about to make.  Each await is a separate action:

| Code | Actions |
| --- | --- |
| `prepare` | `Prepare` (its persistence protocol is `Preparation`) |
| `record_authority`, `expire_due` | `RecordAuthority`, `ExpireDue`, then `Cas` |
| `execute` | `Execute`, `Resolve`, `Recheck`, `Precheck`, `Admit`, `Dispatch`, `Submit`, `ExecutorReturns`, then `Cas` |
| `_supersede_stale` | `Resolve` with a write that continues at `replace`, `PersistReplacement`, `Cas` |
| `reconcile` | `Reconcile`, `Cas`, `ReconcileDue`, `Cas`, `Verify`, `Cas` |
| `resume_verification` | `ResumeVerification`, `Cas`, then `Reconcile` from `observe` |
| `erase` | `Erase`, `DestroyKeys`, `CompleteErasure` |
| exception, cancellation, process death | `Abandon`, at any await |

Reading the row and the clock at the start of a handler is one step: an older
copy loses its compare-and-set whatever else happens.  `Erase` reads, marks and
reads back in one step, because a lost mark changes nothing and destruction is
idempotent.  `can_execute` denial is the unconditional blocking branch of
`Recheck`.  A verification is settled with the clock value reconcile started
with, as in the code.  Conflicts end the call; results, events and reason codes
returned to the caller are left out.  Private payload and commitment are
represented by the existence of their keys.

The target is external.  An attempt is named by its proposal and the revision
that entered `executing`.  Sent attempts are in flight until the target applies
or refuses them, in any order and after any delay, also after the worker died.
What is assumed of host ports is their contract, no more:

- the executor reports `failed_known` or `stale_no_effect` only for an attempt
  it never sent or the target refused; `failed_unknown` and exceptions are free;
- the verifier reports completion only if the effect happened, and a terminal
  failure or final absence only if it did not.  A final absence also promises
  that attempts up to the verified revision can no longer take effect: it alone
  has passed a settling boundary (`registry.py:182-187`).  A terminal failure is
  the target's own verdict, so it is reported only when no attempt is left that
  could still take effect.  Provisional absence and unavailability promise
  nothing.

### How discovery and recovery views are modelled

`DueWork` is the operation `discover_due` suggests for one row at a cutoff;
`ReadRecovery` is the condition `read_recovery` reports, from which
`recovery_steps` takes its single recommended step.  Both change nothing, so
they are operators on the state of `ActionRuntime` and their properties are
invariants over it.  `OpenWorkIsDiscovered` uses a cutoff beyond every time a
row can carry: each row not closed to automatic processing is then selected with
an operation the worker runs.  `ReadyMeansAdmissible` speaks of a view that is
still current; a view that went stale is caught by admission itself.

### How preparation is modelled

Each call makes a commitment key, a payload key and the row.  For each key
`NewKey` fetches the wrapping key, `PutKey` stores the wrapped data key under a
random handle, with an acknowledgement that may be lost, and `ReadKeyBack` is
what `_store_key` makes of a failed put; `LocalCreateFor`, `LocalProtectFor` and
the two of KMS name the adapter's functions.  Ciphers are abstracted to the
metadata they authenticate: a value opens if its envelope is stored, matches
proposal, purpose and version, and the version it names can be resolved.
`CreateRow` inserts and answers, inserts and raises, or only raises; the store
contract in `stores/base.py` says that a raised write is settled before `create`
returns, and the wrapped-key stores say the same of `put`.  `Rotate` and
`Retire` are the host's, the latter as `docs/integrations/local-kek.md` allows it.
`Advance`, `MarkErasure` and `DestroyErased` are what other actors do to a row.

### How the approval channel is modelled

A request row per proposal (`requests`) and, per worker, the handler of the
refund application it runs in front of a runtime call (`desk`):
`CreateApprovalRequest` then `Insert`; `GetRequest`, `CheckBinding`,
`RecordDecision`, `Deliver`; `Drop` is a crash or an exception at any await.
Callbacks of either decision may arrive at any time and any number of times.
Any approver may be bound to a request, and any may call `Decide` on the host's
page, the bound one too: the service keeps no record that separates them.  The
history variable `page` holds the evidence the page issued, and no step reads it
but for the bound `MaxPage`.  `Deliver` and `Decide` enter
`ActionRuntime`'s `RecordAuthority` with evidence issued at that time, and
`Elsewhere` is every other step of the runtime, which records no evidence of its
own.  References, identities, signatures and transport are left out.

### How the SQL stores are modelled

Each operation of each store is a sequence of statements (`PostgresGet`,
`MySQLAdmitExecution`, ...): locks, reads, checks, claims, writes, commit.  A
client runs one transaction at a time on what it read before.  PostgreSQL takes
the row lock and then the advisory lock of the effect, MySQL reads the claim
without a lock and inserts or transfers it under the unique key, up to three
times, SQLite locks the file.  A statement may fail on a lock, and a client may
die anywhere before its commit.  The backend is chosen once per behaviour.
`ImplementsAtomicStore` maps the committed rows, receipt counts and owner to
`AtomicStore`, the contract `ActionStore` also takes for granted: every commit
is one of its steps and every other step a stutter.

### How the recovery worker is modelled

`scan` takes a page of all due items and a cutoff; `Lease`, `ReadAdvice`,
`CallExecute`, `CallExpire`, `CallReconcile`, `SettleExecution`,
`SettleVerification` and `Acknowledge` are the awaits of `_run` for one item.
`Raises` is an operation that raises or is denied, `Lost` a dead worker.
Proposals compete for one effect; runtime calls are cut only at the await of
executor or verifier, because `ActionRuntime` has the others.  All times are
relative to now, so the state space is finite without a bound on the clock and
liveness is meaningful: what is left of a lease, and the age of a scan's cutoff.

### How the Stripe integration is modelled

`StripeLedger` has the decisions of remember, reserve and close.
`StripeWorkflow` calls them from one action per await of `execute` (`Admit`,
`Reserve`, `Authorize`, `Recheck`, `Reauthorize`, `Preflight`, `Dispatch`,
`Answer`, `RecordNoSubmission`) and of `verify` (`StartVerify`,
`RecordOutcome`), with the branches of the three action groups as operators of
their own.  The provider is external: a request travels (`wire`) until it lands
or is lost, whatever became of its caller; refunds settle or fail later and
credit notes are voided.  Host, dashboard and authority change a bounded number
of times.  An intent is verified at most `MaxAttempts` times, as
`max_verification_attempts` demands (`runtime.py:938`): Stripe definitions set no
`recovery_authorization`, so no operator can resume them.  Failed refunds and
voided credit notes give their amount back.  A credit to the customer balance has
no coverage test of its own (`credit_notes.py:160`); the model gives every
credit note that of the invoice, which no property needs.  Amounts, tax lines
and currencies are abstracted to how many writes an object still covers,
a snapshot to the counts it was taken at.

`HostTransactions` runs the repositories' transactions statement by statement.
Reads see committed rows, writes become visible at commit, locks are held until
then.  `OneReservationPerCustomer`, `ReservedSnapshotIsCurrent` and
`NoUpdateUnderReservation` are what `StripeWorkflow` uses when it takes `Reserve`,
`RecordOutcome` and `HostWrite` as single steps.

### How migrations and conformance kits are modelled

A database is a history and a catalog, the latter the migration whose definition
each object has.  A migrator takes the lock, reads the status, executes the
statements of the pending migrations and records them; on MySQL every DDL
statement is visible at once, elsewhere everything at the commit.  A script is
rendered for a version and applied whenever somebody does.  `Drain`,
`Remediate`, `RenderGrants`, `StartWriters` and `RestartOldWriters` are what
operators do; `old` is the package that the application ran before.  Writers start
behind the readiness gate of their own package (`Ready`, `OldReady`), the old
ones also between the rendering of a script and its use, or while a migrator
runs.  Old writers that start while somebody acts on a declaration that they are
stopped (`Declared`) are called late: the library cannot notice them, keeping them
away is the operator's duty (`docs/reference/cli.md:41-43`,
`docs/integrations/postgres.md:72`), and a rendered script states it in a comment
only (`migrations.py:256-259`).  Initial databases are empty,
old, foreign (a gap, a newer version, another checksum) or drifted.

A kit is a sequence of calls with the answers it accepts, run on a subject that
answers as the contract says except for at most one fault; calls that the kit
gathers are answered in either order.  `KitSeparates` says that a conforming
subject passes and a faulty one fails, except for two faults of a store that its
kit always passes (`UnseenByStoreKit`; see the observations below).  `Qualification`
lets a kit start on a database that the migrators brought up to date.

## Runs

| Run | Instance | Shows |
| --- | --- | --- |
| `lifecycle` | 1 proposal, 2 workers, resend, recovery and erasure on, 1 verification attempt, time 0..2, calls start below revision 6 | type invariant, inductive invariant, one effect, one settling call, no StoreInvariantError, keys of open attempts, verification budget, evidence, open work found by the due-work query, and the action properties on erasure and leases |
| `effect_race` | 2 proposals for one effect, 2 workers, replacement, time 0..2, calls start below revision 3 | one effect, claim covers attempts, truthful statuses, execution advised only where admission succeeds, refinement of `EffectAdmission` |
| `authority` | 1 proposal, 2 workers, two-of-two; each approver on the page, by request or both, one decision on the page; evidence lives 1 tick, the proposal 2; rejections, database clock, itemized, time 0..2, calls start below revision 4 | the executor is called only under valid authority, and a request speaks with the evidence persisted first, whatever its approver decides on the page |
| `preparation` | 2 calls, 2 references, either adapter, one rotation | what compensation may destroy and must not leave behind, and that a returned proposal can be loaded under rotation |
| `sql_stores` | 2 rival proposals, 2 clients, each of the three databases, 2 writes per proposal | whole reads, claims stay with open attempts, no cycle of waiting transactions, refinement of `AtomicStore` |
| `recovery` | 2 proposals for one effect, 2 workers of which one knows one action type, all durations 1 tick, one raised or lost call, resend on | leases exclude, suspended items stay suspended, unfinished work ends |
| `stripe_workflow` | 2 intents of one customer (refund and credit note, two credits of one invoice, or two changes of one subscription), 2 workers, 2 verification attempts per intent, 1 lost worker, 1 change of the subscription from outside | the ledger never forgets a request that may have an effect, one request per intent, verdicts agree with the ledger, billing writes hit the approved state, effects that settle in time are released |
| `host_transactions` | 2 intents of one customer in three pairings, 2 clients, 1 host update per row | isolation of the repositories, and that all transactions end |
| `qualification` | the five schemas, 2 migrators and 1 script, 1 crash, lock timeout or restart of old writers, six kits with all modelled faults | writers of either package run on a schema and grants they know or are declared compatible with, foreign histories are left alone, interrupted migrations recover, kits separate |
| `final_absence_export` | as `lifecycle`, no resend | finding 1 |
| `preparation_race` | as `preparation` | finding 2 |
| `refund_balance` | 2 refunds of one charge that covers both, nothing changes from outside | finding 3 |

Bounds.  `MaxTime` bounds the clock and `MaxRevision` the revision at which a
call may start (a started call may go on past it).  A lease is one or two ticks
and a proposal lives two, so expiry, lease expiry and evidence expiry
fall before, during and after each await.  In `lifecycle` revision 6 is enough
for prepare, approve, execute, take over, verify, resend and execute again, or for a give-up
and an operator's resume; one verification attempt makes exhaustion frequent.
Two workers give every pairwise race; the invariants relate at most two calls.
In `sql_stores` two writes per row let a rival fail, hand its claim over and be
erased.  In `recovery` a duration of one tick makes a scan as old as its lease,
which is the interesting case; one fault is enough because each lost or raised
call leaves the same kind of state, an unacknowledged lease.  In `authority` one
decision on the page is enough to add to or contradict the bound approver's, and
a tick of life makes evidence expire between any two awaits.  In
`stripe_workflow` a single change of the subscription, at any time, distinguishes
the checks before and after the reservation; refund and credit notes meet the
other intent's writes instead.  Of two attempts one may die and the other
verifies.  In `qualification` `MaxFaults` is shared: one migrator may die at every
statement, also while the script of an older version is applied, or old writers
start once at any point.  That is enough to break the property on PostgreSQL
alone if a migration stops requiring quiescence; the theorem has no such bound.
Kits are sequential and have no bound.

Deadlock checking is off where the system may stop: a closed proposal at the end
of the clock, rows at their last revision, closed intents, a finished kit.  It is
on in `host_transactions` and `recovery`.  Workers, and the calls and references
of `Preparation`, and proposals and clients of `SqlStore` are symmetric; no run
with a liveness property uses symmetry.

### Fairness

`ActionRuntime`, `ApprovalChannel`, `Preparation` and `SqlStore` state safety
only and assume none.  The other four assume what keeps their processes going:

- `RecoverySpec`: hosts call `scan` again and again, a scan that is neither lost
  nor raised goes on, time passes.  Nobody has to decide anything, and executors
  and verifiers may answer as unhelpfully as their contract allows, for ever.
- `StripeWorkflow`: a call that does not die takes its next step (weak), and the
  recovery schedule starts verifications as long as an open intent has attempts
  left (strong).  It has `MaxAttempts` of them and no more, and each may die with
  its worker.  So `SettledEffectsAreReleased` speaks of effects that settle while
  more attempts are left than workers can still be lost.  One that settles after
  the last attempt keeps its customer reserved, and nothing public releases it
  (`docs/integrations/stripe-recovery.md:10-15,49-52`).
- `HostTransactions`: strong fairness for each client's steps, because
  PostgreSQL grants a lock to waiters in turn.  It does not break cycles, so a
  wrong lock order violates `TransactionsFinish`.
- `QualificationFairness`: a migrator that got the lock goes on (weak);
  operators drain writers and remove retired states (weak), and some of them
  calls `migrate` again after a failure and some migrator is granted the lock
  (strong), not each of them.  Crashes, lock timeouts and restarts of old writers
  are bounded by `MaxFaults`.

## What is proved

Each theorem is `Spec => []P` or `Spec => [][A]_vars` for every value of the
constants that the named assumptions allow: any number of workers, proposals,
effects, authorities, clients, intents, crashes and faults, and any durations.
Fairness is never used.

| Module | Theorems (property of a run) |
| --- | --- |
| `ActionRuntimeProofs` | `TypeCorrect`, `EffectOnce` (`EffectAtMostOnce`), `ClaimCovers` (`ClaimCoversOpenAttempt`), `StatusTruthful` (`StatusTellsTheTruth`), `RuntimeImplementsAdmission` (the runtime implements `EffectAdmission`) |
| `ActionCallProofs` | `NoInvariantErrors` (`NoStoreInvariantError`), `OneSettler` (`OneCallCanSettle`), `KeysAreKept` (`KeysOutliveAttempts`), `AuthorityCoversExecutor` (`ExecutorRunsUnderAuthority`), `VerificationBound` (`VerificationsBounded`), `ErasedRowsFreeze` (`ErasureFreezes`), `LeasesProtect` (`LeaseProtectsExecutor`), `InductiveInvariantHolds` (`InductiveInvariant`), `OpenWorkFound` (`OpenWorkIsDiscovered`), `ReadyIsAdmissible` (`ReadyMeansAdmissible`), `OnlyFinalAbsenceRejected` (`OnlyFinalAbsenceUnsupported`); behind an approval channel `ChannelImplementsRuntime` (`ChannelSpec => Spec`), `DecisionSpeaks` (`PersistedDecisionSpeaks`), `ChannelAuthorityCoversExecutor` (`ExecutorRunsUnderAuthority`) |
| `PreparationProofs` | `UntouchedRowsKeepKeys` (`OnlyAdvancedRowsLoseKeys`), `ReturnedIsUsable` (`ReturnedProposalIsUsable`), `QuietFailureIsClean` (`QuietFailureLeavesNoKeys`) |
| `SqlStoreProofs` | `StoresAreAtomic` (`ImplementsAtomicStore`), `AttemptOwnsEffect` (`OpenAttemptOwnsEffect`), `ReadsNotTorn` (`ReadsAreWhole`), `PostgresNeverCycles` (`NoWaitCycle`) |
| `RecoveryWorkerProofs` | `LeasesAreExclusive` (`LeasesExclude`), `AttentionStaysSuspended` (`AttentionIsSuspended`) |
| `StripeWorkflowProofs` | `ReservationOutlivesDoubt` (`DoubtKeepsReservation`), `SentOnce` (`SentAtMostOnce`), `VerdictsAgree` (`VerdictsMatchLedger`), `BillingIsApproved` (`BillingWritesApprovedState`) |
| `HostTransactionsProofs` | `OneReservation` (`OneReservationPerCustomer`), `SnapshotIsCurrent` (`ReservedSnapshotIsCurrent`), `ReservationGuardsRows` (`NoUpdateUnderReservation`) |
| `MigrationsProofs` | `MigrationInvariantHolds`, `WritersOnCurrentSchema` (`WritersRunOnCurrentSchema`), `ForeignHistoriesAreLeftAlone` (`ForeignHistoryIsLeftAlone`), `RerunsMeetNoFailure` (the safety half of `InterruptedMigrationRecovers`) |

No such property is inductive; every module proves a stronger invariant first.

### The runtime

From `StoreAssumption`, `RuntimeAssumption` and `AuthoritiesAssumption` (the
authorities are a finite set, which counting distinct approvers needs).
`InductiveInvariant` has three layers, each proved with the help of the ones
below.

`EffectInvariant`.  A copy with the stored revision is the stored row
(`CopiesAreFaithful`), so a successful compare-and-set really starts from what
the call saw; every pending write that denies an effect is justified, because
its attempt is gone or the target closed all attempts up to that revision
(`CallsAreJustified`); an executing proposal's only open attempt is the one of
its current revision (`AttemptsAreKnown`); an attempt is held by one call and
sent once (`AttemptsAreExclusive`); and a proposal that may have had an effect
owns the claim and is not erased under an executor (`ClaimIsHeld`,
`ExecutingIsKept`).  Then two applied attempts for one effect would both be
covered by the one claim, hence belong to one proposal and be the same attempt.

`RuntimeInvariant` adds `CallInvariant`: what each call is about to write and
why.  The write it holds is one that its place in the handler justifies, the
evidence it filtered is part of the row it read, counters of the row and of the
calls agree with what verifiers answered since the last restart, and keys are
gone only under an erasure (`KeysFollowErasure`).  `KeysOutliveAttempts` follows:
an attempt that can still take effect belongs to a row that may have had one, and
of those only `verification_unresolved` is erasable (`UndecidedAttempts`), which
holds its claim.  The store refuses a write only
if it contradicts the row; the row a call may still replace is the one it read;
so a write that is justified by what was read is never refused.

`InductiveInvariant` adds `RecordInvariant`: receipts, times and statuses of the
stored rows agree, which is what the two read-only views and the evidence
validator look at.

### Approval channel

From the runtime's assumptions and `ChannelAssumption` (evidence lives for some
time).  Evidence reaches a row through copies: the one a handler carries, the
record a call holds and the write it is about to make.  `ChannelInvariant` says
of each copy what `PersistedDecisionSpeaks` says of the row, that what the page
did not issue is the persisted decision, and of each handler
that what it carries is undecided yet or is the decision in the table.  It is
inductive because a persisted decision never changes, so what agreed with it
goes on agreeing; the two places that add evidence to a write are the delivery
of that decision and a decision on the page, which enters `page` at the same
step.  No assumption keeps the two ways apart.  Every other write passes on what
its call read, which needs `EffectInvariant`: a call at an await is about a
stored proposal.

A channel step changes the runtime by one of its own operations or not at all.
The one point that needs an argument is `record_authority` with evidence of the
host's making: on an expired proposal it does what `expire_due` does, and
otherwise it takes only evidence that the runtime admits.  So `ChannelSpec`
implements `Spec`, and everything proved of the runtime holds behind a channel.

### Preparation

From `PreparationAssumption` and `VersionAssumption`.  `PreparationInvariant` says
at every await of `_persist_prepared` which keys of the call are stored, although
each `put` may have lost its acknowledgement: an earlier key is kept while the
next one is made, nothing is under a handle but the envelope its own call wrote,
and a quiet failure has passed every key in the order compensation takes them.
Of a row it says that it has both keys, is being erased, or was changed before
its creator, whose acknowledgement was lost, read it back.

### SQL stores

From `SqlAssumption`.  What a transaction tested must still be true when it
commits.  `SqlInvariant` says before every statement of each database which locks
its transaction holds (`LocksAgree`), that they exclude each other (`Exclusive`),
that what it read of its row is current or has a lower revision (`ReadAgrees`),
and that what it tested of the row and of the claim still holds (`TestsAgree`).
On PostgreSQL and SQLite a claim that was read stays; MySQL reads it without a
lock, and until the insert or transfer under the unique key the invariant says
nothing of it but that one's own claim is not lost.  At the commit these facts
are the guard of the corresponding step of `AtomicStore`.  `NoWaitCycle` follows
because a PostgreSQL transaction that waits for a row holds nothing, and two that
wait for the effect cannot both hold it.

### Recovery worker

From `RecoveryAssumption`: durations are positive and finite, and no worker or
proposal is called none.  `RecoveryInvariant` rests on one equation: leases start
at the cutoff of a scan, so what is left of a worker's lease and the age of its
scan add up to the lease's duration as long as it lasts, and the row carries the
worker's token.  A second worker may claim the row only when nothing was left at
an earlier time than now, that is, after the first outlived its lease.  For
`AttentionIsSuspended` the invariant adds that nobody who holds the token of a
suspended row works on it, so late acknowledgements find another token.

### Stripe

From `StripeAssumption` (intents on one object belong to one customer) and
`HostAssumption`.  `WorkflowInvariant` says of each intent how ledger, request and effect
fit together (`EntryAgrees`), of each call what it has established at its await
(`CallAgrees`: from the reservation to the request the intent is reserved and
unsent), that one call holds a reservation and a customer has one (`OneHolder`,
`OneReservation`), and that a billing request finds its object as the snapshot
says from the second look until it lands (`Undisturbed`).  Another governed write
to that object would need a reservation of the same customer.

`TransactionInvariant` says of each transaction that it holds the locks of the
statements it has passed, that no lock has two holders, and that each test it
has passed still holds: those who could falsify it need one of these locks.

### Migrations

From `MigrationAssumption`: the adapters are among the five packaged ones, and no
migrator is called none.  `MigrationInvariant` says that a committed history of
this package has the catalog of its migrations (`CatalogAgrees`), which a
transaction gives and MySQL does not; that a migrator past the lock holds it; that
its uncommitted work is what a prefix of the statements makes of the last complete
catalog (`Advances`); that a migrator with statements to execute has found the old
writers drained; and that new writers run on the last migration, with their
grants.  The two single migrations read less of the history
than the others, so they may start on a foreign one; their first statement then
creates a table that is already there and the transaction ends (`Collides`).

MySQL commits each statement.  Its gate compares the objects of the catalog
(`Asserted`) before writers start, but two effects of the second migration are
data that no comparison sees (`Unasserted`: migrated identities and datetimes).
For these the invariant says that once the second migration is recorded they are
migrated (`DataAgrees`), and so are they for a migrator that has passed their
statements.

What old writers need is a second invariant on top (`OldInvariant`): while they
run, the history is the one their package left, because every way to the last
migration has one that requires quiescence.  A migrator with something to do
declares the writers stopped from its start to its end (`Declares`), so whoever
starts in between is late.  A migrator that is lost takes its declaration along;
what it committed on MySQL by then makes the older package's gate refuse.  That
gate too does not look at data, hence `DataFollows` and `IdentityDone`: the data
of the second migration is migrated only after a column that the gate does look
at has appeared.

`RerunsMeetNoFailure` is about what lost migrators leave behind.  A script is
`Rerunnable` if before every statement that can fail (`CREATE`, `DROP`, `CALL`
without a guard) the last statement to name the needed object leaves it present
or absent as required, whatever the catalog was; the four MySQL scripts are, part
by part.  The invariant `RerunAgrees` says that the catalog shows, for every object
that the current run of the script has named, what the last of its statements
left.

A catalog is a recursive function applied to fixed scripts.  The lemmas about it
(`PrefixEquation`, `CatalogEquation`, `PrefixType`, `LastDefinition`) are inductions
on the number of statements, made by taking the least counterexample
(`LeastNatural`), because the provers cannot instantiate a general induction rule.

### Only model-checked

- The liveness properties `UnfinishedWorkEnds`, `SettledEffectsAreReleased`,
  `TransactionsFinish` and `InterruptedMigrationRecovers`: fairness is outside
  the prover's reach.
- `KitSeparates`: kits and faults are fixed finite lists, so nothing is left to
  generalise; TLC's run is exhaustive, and a proof would repeat it answer by answer.

Two remarks on form.  Where a model nested an `EXCEPT` with `@` inside another,
the inner `@` is written out, because the prover reads it as the outer one.
Values a step computes are named with `PICK` before they are primed or handed to
a lemma.

## Findings

1. `final_absence_export`: `_lifecycle_is_supported` does not know that
   `failed_known` is also reached through an authoritative final absence, so
   the unmodified export of such a proposal is judged inconsistent.
   `OnlyFinalAbsenceUnsupported` shows that this is the only such case.
2. `preparation_race`: after a lost `create` acknowledgement,
   `_persist_prepared` recognises its row only if it is unchanged.  A row
   advanced in between keeps living without its keys.
   `OnlyAdvancedRowsLoseKeys` shows that this is the only such case.
3. `refund_balance`: `docs/features/drift-and-idempotency.md` counts the
   already-refunded balance as material state and requires the executor to
   enforce the precondition with the write.  A refund compares the balance only
   when it is resolved; after the reservation it checks that the charge still
   covers the amount.  Of two approved refunds the second is sent although the
   balance of its snapshot changed.  `BillingWritesApprovedState` shows that
   credit notes and subscription changes do enforce theirs.

Observations that contradict no promise strongly enough for a run of their own:

- After a resend was allowed, the owner of a claim may end expired, blocked or
  superseded, from where the claim is not transferable, and `read_recovery`
  reports `effect_owned_elsewhere` for any sibling owner, also one whose claim an
  admission would take over.  A worker that follows the view defers such a
  proposal; `UnfinishedWorkEnds` shows that it still ends, by its own expiry.
- `resume_verification` makes a leased verification due at once, so two
  verifiers may run; `OneCallCanSettle` shows that only one can record its answer.
- A failed item is deferred to the scan's cutoff plus the retry delay
  (`recovery.py:325`), which a slow scan has already passed when it writes it,
  while `docs/integrations/recovery-worker.md:54` says that the worker "does not
  retry in a tight loop".  Each repetition is a scan of its own.
- The package's own group operations mask a denied authorization as a missing
  proposal, which the worker defers; only a host's operations reach the
  suspension of `AuthorizationDenied`.
- `docs/integrations/local-kek.md:39-40` lets a host retire an old KEK once no
  retained wrapped key names it.  A preparation that fetched that KEK and has not
  stored its data key yet then returns a proposal that cannot be loaded;
  `ReturnedProposalIsUsable` shows that this is the only such case.
- An approved Pydantic AI continuation reads the proposal again after `execute`;
  when that read is refused the tool answers `invalid_continuation`
  (`integrations/pydantic_ai.py:457`) although the action may have run.
- Persisted approval evidence lives five minutes at most and every retry reuses
  it (`examples/stripe_refunds/service.py:271`), so a delivery that stays away
  longer can neither be made nor be replaced until the proposal expires.
- A billing recheck that raises after the reservation keeps the customer
  reserved without a request (`integrations/stripe/_operation.py:214`), and
  verification, which finds no object, does not close it.
  `SettledEffectsAreReleased` is therefore about effects, and it leaves
  subscriptions out: a later write to the object hides the expected result from
  `matches_result`.
- `docs/testing/conformance.md:22-24` lists revision conflicts, verification
  leases and failed-known claim transfer among what the store kit checks.  Its
  only stale update names an old status as well as an old revision, the only
  claim it transfers is that of a stale proposal, and no step of it touches a
  lease.  A store that does not compare revisions, or that keeps the claim of a
  failed_known proposal, therefore always passes, which `KitSeparates` states.
- An approver bound to a request may also decide on the page, so the runtime may
  hold two decisions of one approver, even contradicting ones.  The documents
  promise the first decision only of callbacks; `PersistedDecisionSpeaks` says so.
- `verification_unresolved` is erasable although its attempt may still land
  (`stores/base.py:67-76`).  Its keys go, its claim stays, so a late effect is
  neither repeated nor readable.

What the properties do not say: `ReadyMeansAdmissible` is about a current view;
`OpenAttemptOwnsEffect` does not forbid the claim that stays with a dead owner
after a resend (`stores/memory.py:201`), which `UnfinishedWorkEnds` tolerates; and
`HostTransactions` has host updates of one row each, so a host transaction that
locks several rows is outside `TransactionsFinish`.

## Not modelled, and the plan

Left out, with the reason:

- application composition (`experimental/application.py`): a synchronous
  catalog that is filled once and shares nothing between calls;
- the Pydantic AI adapter: stateless, its tools prepare or resume with `execute`,
  `reconcile` and `read`, which `ActionRuntime` lets every worker call in any
  order and any number of times;
- canonical JSON and commitments: a pure encoding of unbounded data, used only
  through equality;
- ciphers and buffer wiping of the envelope providers, SQL text, column
  encodings and identifiers, Stripe SDK parameters, tax and currency arithmetic;
- event delivery (failures are swallowed), HTML rendering, benchmarks, the leak
  scanner, the signed Stripe attestation, argument parsing of the command line;
- the other example applications, which call the same operations.

What could come next: more of the runtime's theorems stated behind the approval
channel, and the deeper of the Stripe properties for ledgers shared by several
hosts.
