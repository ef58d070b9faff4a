# Formal models of etl_server_cloudberry

TLA+ specifications of the server in `src/crates`, which copies PostgreSQL
tables into Cloudberry with an initial snapshot and then follows the
write-ahead log. The modules model the protocols that decide whether the copy
is right: who may write, what is written in which transaction, what is
acknowledged when, and how a restart finds its place again; and the management
plane around them: sessions, definitions, the server process and migrations.

## 1. Inventory

| component | state | operations | interacts with |
|---|---|---|---|
| **Runtime reconciler** (`engine/runtime/reconciler.rs`) | owned leases with deadline and next renewal, failures and backoff per pipeline | tick: reap, renew, list, stop, start; shutdown | lease store (SQL), supervisor, job factory |
| **Supervisor** (`engine/supervisor.rs`) | running tasks | start, stop with timeout, reap | jobs (cancellation token, join) |
| **Control store** (`metadata/store.rs`) | definitions, desired state, generation, rebuild operations, lease row | acquire/renew/release, put, set desired, request and complete rebuild | reconciler, API, jobs |
| **Job** (`engine/runtime/job.rs`) | fence (generation, token), position in its preparation, monitors | activate fence, clean up, collect, initial snapshot or resume, complete rebuilds, stream, request rebuild | source, target, control store |
| **Replication loop** (`engine/pipeline.rs`, `batch.rs`, `adapters/`) | pending batch, received and durable positions | receive, flush on limit/barrier/timer, apply, acknowledge, answer keepalive | walsender, target |
| **Row normalizer** (`engine/normalize.rs`) | lineages of rows, origin and live indexes by key | push insert/update/delete, finish | apply plan |
| **Target apply** (`target-cloudberry/apply.rs`, `checkpoint.rs`) | live tables, checkpoint, fence row | validate, delete, move, update, insert, advance, commit | job |
| **Snapshot groups** (`target-cloudberry/snapshot*`) | manifests, managed-table records, physical tables, reconciliation log | begin group, load table, activate, quarantine, clean up, collect, validate on resume | job |
| **pgoutput adapter** (`source-postgres/wal.rs`, `engine/adapters/pgoutput.rs`) | relation cache with shape generations, open transaction, delivered and durable commits | decode, assemble, deliver on COMMIT, validate acknowledgements | walsender, batcher |
| **Enum types on the target** (`target-cloudberry/snapshot.rs`) | type with its labels, `managed_types` row | classify, create, plan and run ALTER TYPE | snapshot load transaction |
| **Source slot and publication** (`source-postgres/publication.rs`, `snapshot_slot.rs`, `snapshot.rs`) | slot with its confirmed position, publication members, exported snapshot | ensure/validate publication, create with exported snapshot, import, copy, drop, start | job |
| **Telemetry** (`engine/telemetry.rs`) | state, phase, positions per pipeline | reports of the job and of the supervisor, snapshots | job, supervisor, API |
| **Authentication** (`api/auth.rs`) | failed logins per address, sessions | login, session middleware, logout | API |
| **Management API** (`api/routes.rs`) | gates of connection tests and metrics | create source/target/pipeline, start, pause, rebuild, test, metrics, lists | control store, supervisor |
| **Server process** (`app/main.rs`) | shutdown token, HTTP server, reconciler task | serve, signal, supervise, exit; migrate | all |
| **Migrations** (`metadata/migration.rs`, `target-cloudberry/migration.rs`) | applied versions with checksums, advisory lock | migrate, check before serving | both databases |
| web console, configuration, crypto, Citus, type mapping and SQL rendering | - | request/response or data only | not modelled |

What makes it hard: every await is a point where the process may die or be
cancelled; a COMMIT or a lease statement may take effect after its client gave
up; two runtimes may believe they own a pipeline; generation, token and
catalog are read at one moment and used at another; three databases are written
without a common transaction. `PROJECT.json` lists these hazards at the lines
where they bite, with the property that covers each.

What makes it correct, by component: the live tables are always the source's
state at the checkpoint (job, apply, slot); nothing is acknowledged that is not
durable (loop); at most one job runs, with growing tokens (reconciler, store);
a batch folded by the normalizer means what its changes meant one by one;
activation switches all tables or none, and nothing on the target gets stuck or
lost (snapshot groups); what reaches the tables is the committed log of the
shape they were made for (pgoutput adapter, batcher, binding registry); a type
has the labels of the snapshot its tables were loaded from (enum types); copied
rows and stream meet without gap or overlap (publication, slot, snapshot);
guesses are limited and sessions end (authentication); rebuilds are audited
and gates reopen (API, store); what is reported is
what runs, and a shutdown ends it (supervisor, telemetry, process); databases
are migrated once (migrations).

## 2. Modules

| module | models | role |
|---|---|---|
| `Replication` | the job, the loop, source slot, target transactions, rebuilds | core component |
| `Mirror` | a table set that moves from one prefix of the source to a longer one | abstract specification, refined by `Replication` |
| `ReplicationProofs` | - | inductive invariant and theorems |
| `Normalize` | `BatchNormalizer` and the statements of `plan_apply` | algorithm against a row-by-row reference |
| `Lease`, `MCLease` | reconciler, supervisor, lease row, wire | component |
| `Ownership` | at most one running job, tokens grow | abstract specification, refined by `Lease` |
| `SnapshotGroups`, `MCSnapshotGroups` | the target's metadata catalog | component |
| `Stream`, `MCStream` | walsender, decoder, assembler, batcher, `build_apply_request_scoped`, acknowledgement | composed components |
| `TypeEvolution`, `MCTypeEvolution` | an enum shared by the tables of a snapshot | algorithm and the transaction it runs in |
| `MCTarget` | `Normalize` and `TypeEvolution` as alternatives of one run | model checking only |
| `InitialSnapshot` | `prepare_initial_snapshot` against a writing source | component |
| `Auth` | `AuthState`, login, logout, session middleware | component |
| `Control` | definitions, rebuild operations, audit log, gates | component |
| `Runtime` | supervisor, job tasks, telemetry, readers, server process | composed components |
| `Migration` | both databases' migrations, the check of `serve` | component |
| `MCServer` | the five modules from `InitialSnapshot` on as alternatives of one run | model checking only |
| `LeaseProofs`, `SnapshotGroupsProofs`, `InitialSnapshotProofs`, `NormalizeProofs`, `StreamProofs`, `TypeEvolutionProofs`, `ServerProofs` (`Control`, `Auth`, `Migration` and `Runtime`) | - | inductive invariants and theorems |

How they fit: `Lease` shows that jobs do not overlap while no process is paused
longer than the margin between its deadline and the lease's expiry
(`RefinesOwnership`); that is the case `Exclusive = TRUE` of `Replication`. For
when the margin fails, `Replication` and `SnapshotGroups` are also checked with
overlapping jobs: there the fence on the target has to do the work.
`Replication` uses a batch as a set of commits; `Normalize` shows what one
batch does to the rows. `Replication` receives a commit as one number;
`Stream` shows how its messages become a transaction and a batch of one table
shape. `Replication` activates a snapshot in one step; `SnapshotGroups` shows
what that step does to the tables, `TypeEvolution` what a load does to a type
they share, and `InitialSnapshot` that the rows it loads are those of the
slot's consistent point, which `Replication!SnapshotRows` takes for granted.
`Runtime` starts and stops jobs for no stated reason; `Lease` has the reasons.

The state of the modules of `MCServer` is disjoint and no action of one reads
another's variables, so a behaviour of all five together projects onto a
behaviour of each, and every property speaks of one of them: it holds of any
interleaving if it holds while the other four stand still. That is what the
variable `part` makes TLC explore. The same holds of the two modules of `MCTarget`.

Some definitions have a neighbour with the same parameters just above them
(`FenceRead` above `FenceUnlocked`, `TokenAdvances` above `FenceAdvances`,
`StreamFromHead` above `StreamStart`, ...): these are plausible wrong versions.
`PROJECT.json` pairs each property with one of them: with it in place of the
right definition the run finds the property violated.

### Replication

State: `srcLsn`, `barriers` (commits so far, and which carry DDL or TRUNCATE);
`slot*` (the one slot of the pipeline: state, confirmed position, who streams
from it, which job made it); `gen`, `openOps`, `token`, `listed` (control
database, and what each runtime read of it); `fenceGen`, `fenceToken`, `txJob`,
`txKind` (the fence row and the transaction holding its lock); `ckpt`, `rows`,
`liveGen`, `snapLsn`, `origin` (checkpoints, live tables, their generation, its
snapshot position, the job that made it); per job `pc`, `jgen`, `base`, `done`,
`cut`, `recv`. A job is named by its fencing token.

`pc` follows `run_standalone` and `replicate`: `connect`, `fenced`, then
`initial`, `publish`, `snapshot`, `loaded` or `resume`, `activating`, then `prepared` and the
streaming states. `CommitApply`, `CommitActivate` and `AbortTx` are the target
database finishing a transaction: they are enabled whatever became of the job,
so a commit whose client has gone is part of the model. `Stop` is every error,
cancellation or crash: it is enabled in every state of the job and leaves slot,
fence and open transaction as they are.

The data is abstracted to the set of applied commits: a transaction is its
number, a batch the interval `Batch(j)`. `ResumeAccept` and `ResumeRefuse` leave
open whether the manifest matches; `SnapshotGroups` says when it does.

### InitialSnapshot

State: the source (`log` of commits, `writing`: open transactions, `catalog`:
the relation a name stands for, `publication` by relation, as PostgreSQL keeps
it), the `slot`, the job (`attempt`), the target's open `activation` and what is
`live`. PostgreSQL's part is explicit: whether a change is published is decided
when it is written, CREATE_REPLICATION_SLOT waits for the transactions it found
(and goes on when its client has died), catalog queries read the imported
snapshot while COPY resolves names by the current catalog. `AttemptFails` is an
error in the guarded block and its cleanup, `AttemptCrashes` ends the job
without; `ActivationEnds` happens whether the job listens or not.

Two consequences of the code worth knowing. Publishing before creating the slot
is enough only because the slot waits for writers that did not see the
publication yet; without that wait (or with the comparison of the two plans
reduced to names) `SnapshotMeetsStream` fails. And a table that is truncated, or
dropped and created again, between the exported snapshot and its COPY is
activated empty; the property holds because the statement is behind the
checkpoint, in the stream, as a barrier that replaces the generation.

### Auth, Control, Runtime, Migration

`Auth`: failed logins and sessions as in `AuthInner`. The code reads the time and
then waits for a mutex, so the two are separate steps: `Login` reads it and
`LoginCheck` uses it for the rate check, `Authenticate` reads it and
`RequireSession` uses it to look the session up, and `CreateSession` uses two
times read since the password was verified. So a session that expires while
its request waits for the mutex is still let through, while one that is logged
out during the wait is not, and `AdmittedOnlyWhileOpen` says just that. A login
is also split around the password hash (then `LoginFails` or `LoginSucceeds`), a
request into the middleware and its handler. The times of an
address' failures are numbered; the deque's order is never used. `ends` and
`loggedOut` are history.

`Control`: one SQL statement is one step, so only `create_pipeline`,
the connection tests and `metrics` are split. Rows are identified by their
names; the API creates rows with fresh identifiers and never updates them, so
the update branches of `put_*` are not reached. The audit log is a bag, so
that a second entry for the same event shows.

`Runtime`: tasks as the supervisor sees them, the snapshot every report changes,
the reconciler's tick with reap, start, stop, join and abort, a request that
reads `running()` and the snapshots under two locks, and `supervise_service`
with a signal, a failing server and a panicking reconciler. `Drops` is a task
that ends without a report: the lease deadline drops the job, or it panics, as
`trim_error` (`telemetry.rs:286`) would where it cuts inside a character.

`Migration`: each process has a release that knows versions up to some number
and may carry one edited migration. The lock, the check, the SQL and the commit
are steps; a crash rolls the open transaction back.

### Normalize

State: the source `table`, the `target` at the start of the batch, the
normalizer `norm` (lineages, index of batch-start keys, index of live keys) and
whether a change was refused. `Insert`, `Update`, `Delete` change the source and
push the change; `Apply` runs the staging rows through the target's statements
and starts a new batch. One non-key column, which an update may leave as
unchanged TOAST. Keys and values are opaque: encoding and comparison of column
values is not modelled.

### Lease

State: the lease row (`holder`, `token`, and `left`, the ticks to its expiry),
the definition (`desired`, `version`), requests abandoned on the wire
(`orphans`), and per runtime its place in the tick (`phase`, `after`, `call`),
what it owns (`held`, `ver`, `listed`), its clocks (`age` of the request,
`stopIn`, `renewIn`, `retryIn`) and its task (`job`, `lastJob`). A request is
sent, executed and answered in separate steps; `GiveUp` leaves it on the wire,
where it may still execute (`ServeOrphan`). `Tick` passes time for all.

`Delay` bounds how late a task acts on its deadline (a tick may not pass a
deadline by more). The module assumes `Delay < Renew`: the code stops a job one
renewal interval before the lease expires. A process paused for longer is the
case the target's fence is for. Doubling of the backoff is any value between
its bounds.

### SnapshotGroups

State: the source catalog (`src`, `pub`), `gen` and `token`, the fence, group
manifests (`groups`), records (`managed`), relations by name (`phys`), the
reconciliation log, and the jobs' plans. Names are tuples: a shadow's name
contains the relation and the job's token, a quarantine's name the fields
`quarantine_name` hashes. Each of cleanup, collection, load, activation is one
target transaction under the fence, so one action. A group is named by its job's token.
`CollectQuarantine` takes any subset of what is eligible: retention time and batch limit
are left open. `Meddle` lets somebody else put a relation under a managed name.

Left out: enum types (`TypeEvolution`); the branch of activation for a group that is active
already (the job never activates twice); other pipelines except as `Meddle`.

### Stream

State: the source's `wal` (transactions as sequences of changes) and `catalog`
(the shape of each table); the walsender (`next`, `at`, what it has
`announced`); the `decoder` (relation cache with generations) and `assembler`;
`delivered` commits and the `durable` position; the batcher's `queue` and the
`batch` being applied; the target (`bound` shapes, `base`, `ckpt`, and `applied`,
the rows of each table in the order they reach it, which is what
`build_apply_request_scoped` keeps of a batch).
One action per pgoutput message (`ReceiveBegin`, `ReceiveRelation`,
`ReceiveChange`, `ReceiveCommit`), then `Flush`, `Apply`, `Acknowledge`,
`Keepalive`. A change is a row or a TRUNCATE of a table in some shape, a DDL
message in, out of or of unknown scope, a message of somebody else, or the
origin of a transaction that was itself replicated. A shape
stands for columns and replica identity; `DefaultIdentity` are the shapes with
REPLICA IDENTITY DEFAULT. The decoder accepts a relation message of any shape
and refuses the first row or TRUNCATE of one with another identity, as it refuses
other messages and origins (`Supported`); the planner refuses a catalog with
such a table (`Plannable`). So a transaction that sets REPLICA IDENTITY FULL and
then inserts ends the job in the decoder, before its DDL message becomes a
barrier, and `RefusesOnlyTheUnsupported` counts it among what the contract
excludes. The byte limits follow the rule of the
row and change limits with another weight. `Connect` requires the catalog the
tables were made for, which is what resuming validates; it is possible after a
barrier too, because the request for a rebuild may have failed.

### TypeEvolution

State: the definitions the source's type has had (`hist`) and the labels in its
tables (`used`); the target's `type` and `record`; the job's `plan`. `LoadTable`
is one load transaction: classify, create or alter, copy, commit, or a failure
that leaves nothing behind. The rules of ALTER TYPE and the rule that a new
label cannot be used before it is committed are PostgreSQL's (`CanAlter`,
`Altered`, `CopyAndCommit`). The additions loop is `AddAt`, once per position. Its
error for a label that is elsewhere in the type is not a branch of its own: the
target would refuse the addition as well, and `MissingIsNew` proves that neither
happens. A domain whose definition changed is refused without further state and
is left out.

## 3. Runs

| run | question | result |
|---|---|---|
| `replication_exclusive` | jobs one after another, crashes and lost answers anywhere, DDL, slot loss, rebuilds: is the target always the prefix up to its checkpoint, is anything applied across a barrier? refinement of `Mirror`; does a started job settle, does a streaming job catch up? | holds |
| `replication_overlap` | two runtimes, jobs at the same time, old listings: can a job without the fence write, is anything acknowledged early or applied twice, can readers see the copy go back, is a rebuild completed that is not live? | holds |
| `replication_slot_race` | the prefix property with overlapping jobs | violated: the slot is not fenced |
| `target_parts` | is the fold of a batch exact, accepted by the target's validation, and does it refuse only batches with a key change? is a second application to its own result rejected or without effect? do the planned ALTER TYPE statements always lead to the snapshot's labels, and is anything refused that additions or a rename alone can express? | holds |
| `lease_exclusive` | is there ever a second job, a job without a live lease, a task nobody owns? refinement of `Ownership` | holds |
| `lease_liveness` | does a wanted pipeline run again after crashes, do stale jobs stop? | holds |
| `snapshots_owned` | are active tables one group, quarantines collectable, shadows reachable, is the fence holder ever blocked, is a relation of somebody else ever dropped? | holds |
| `snapshots_resume` | does a later lease resume an unchanged catalog? | violated: shadow names depend on the token |
| `stream_pgoutput` | is what is applied exactly the log since the snapshot, in the tables' own shape, with nothing refused but what the contract excludes, nothing at or after a barrier, no batch over its limits, and every delivered commit acknowledgeable? | holds |
| `types_added` | can a load use the labels it adds? | violated: ADD VALUE and COPY share a transaction |
| `types_recreated` | does a rebuild bring a type to labels that were removed or reordered? | violated: the load refuses them |
| `server_parts` | do copied rows and stream meet at the slot's consistent point? are guesses limited, and sessions refused that are logged out or had expired when the time was read? is a rebuild unaudited or audited twice, does a gate stay closed? is a task reported as what it is, a checkpoint shown that is not durable, a job left at exit or running after a shutdown? do concurrent migrations agree? | holds |

The findings in `PROJECT.json` quote the documents the four violations
contradict. The shortest traces:

* *slot race*: job 1 is in `initial` when its lease is taken over; job 2 creates
  the slot, loads and activates; job 1 drops the slot (inactive until
  `START_REPLICATION`) and creates its own after another commit; job 2 starts
  at a position behind the slot's, and PostgreSQL begins at the slot's.
* *resume*: job 1 activates and stops; job 2, same generation, plans shadow
  names with its own token and gets `SnapshotGroupManifestMismatch`.
* *added*: job 1 loads its tables; the source adds a label and writes a row with
  it; job 2 adds the label to the target's type and copies the row in the same
  transaction, which PostgreSQL refuses; the addition is rolled back with it.
* *recreated*: job 1 loads its table; the source creates the type again without
  one of its labels; the load of job 2, a rebuild, is refused by
  `plan_enum_evolution`, and so is every later one.

### Bounds

* `MaxLsn` 3-4: a commit before the snapshot, one during it, a batch of two and
  one behind it. `MaxToken` 3: an owner, its successor, and one that meets the
  leftovers of both. `MaxGen` 2-3: a rebuild, and one requested while another
  is under way. `MaxBatch` 2 makes full and partial batches; `MaxRetained` 2
  makes the retention monitor fire.
* `Normalize`: three keys (a cycle of two and a bystander), two values, six
  changes: enough for any interplay of two rows moving over three keys and back.
* `Lease`: two runtimes, `Ttl` 6, `Renew` 2, `Delay` 1, three tokens, one
  abandoned request. Liveness uses the smallest values that satisfy the
  assumptions.
* `SnapshotGroups`: two tables, two fingerprints, three jobs, two generations,
  two DDL statements, one relation of somebody else.
* `Stream`: one table with three shapes, one of them of another replica identity,
  three transactions of up to three changes and three changes in all, limits of two changes per transaction and two rows
  per batch: every limit is met exactly and passed by one. The proofs have no such
  bounds.
* `InitialSnapshot`: two tables, one of them absent at first, one writer that
  may commit and begin again while a slot is built, three commits (a table
  dropped, created again and written), two jobs, so that one meets what the
  other left behind. The property also holds with two writers.
* `Auth`: two addresses, a map with room for one, one failure per window, one
  session at a time, two requests at once, two ticks with windows of one.
  `Control`: two requests, names and prefixes, two rebuilds, one test permit.
  `Runtime`: one pipeline, one reader, two positions; pipelines share the
  supervisor's map only, whose keys are independent. `Migration`: two processes
  of any two releases out of three versions.
* `TypeEvolution`: three labels (`MaxLabels`, so that a label can be added before,
  between and behind two), two tables, two statements on the source, one row, two
  jobs; the proofs have no such bounds.

Deadlock checking is off: with counters bounded every behaviour comes to an end
at its bounds. Symmetry is used for holders, tables, fingerprints,
labels and the shapes of default identity, in runs of invariants and action
properties only.

### Fairness

`Replication!FairSpec`: weak fairness for each job's own steps (the async
runtime polls a ready future), for the target ending an open transaction and for
the source releasing the slot of a closed connection (both databases detect a
dead client). No fairness for commits, DDL, rebuild requests, errors or
crashes. `Lease!FairSpec`: time passes, a runtime's loop runs, a request ends
in an answer or an error, tasks obey their cancellation. `Control`: the timer
of a connection test fires, and a statement on a control session ends, as its
`statement_timeout` makes it. `Runtime`: the reconciler task runs and the calls
it makes return; nothing is assumed of jobs, which may ignore their
cancellation, of clients or of the signal. Strong
fairness is used where the module says so, and the comment there names why.

## 4. Proofs

`ReplicationProofs` proves, for every set of runtimes and all bounds:

* `TypeCorrect`, `AckedIsDurableAlways`, `AppliedOnceAlways`,
  `CompletedRebuildAlways`, `OnlyFenceHolderWritesAlways`,
  `MirrorNeverRegressesAlways` for overlapping jobs too;
* `MirrorIsPrefixAlways`, `BarrierNotCrossedAlways` and `ImplementsMirror` for
  `Exclusive = TRUE` (without it `replication_slot_race` is the counterexample).

None of the invariants is inductive alone. `IInv` adds:
tokens of jobs and of the fence are bounded by the control database's (`InvToken`);
an open transaction belongs to the job whose pair is in the fence, which cannot
change while it is open (`InvTx`, the row lock); the live generation has a
checkpoint and no later one does (`InvLive`), made by a known job (`InvOrigin`);
the slot's confirmed position is behind the checkpoint if the job that made the
live generation made the slot (`InvSlot`); generations of jobs are bounded
(`InvJob`); a job that applies has read the checkpoint under the fence it still
holds, so its cursor and the checkpoint agree (`InvApply`, the heart of
`AppliedOnce`); activation only replaces a generation without checkpoint
(`InvActivate`). With exclusive jobs: only the latest job is live (`InvOneJob`),
its slot and snapshot position agree (`InvPrepared`), rows are the prefix
(`InvPrefix`), and barriers behind the snapshot are never applied
(`InvBarrier`). The proof has one lemma per part and one step per action.

Assumptions: the constants' bounds are naturals of at least one, `Runtime` and
`Exclusive` as stated by the `ASSUME`s of `Replication`.

`LeaseProofs`, for every set of runtimes and all durations with `Delay < Renew`:
`TypeCorrect`, `JobsAreExclusive`, `JobsAreCovered`, `LeasesRefineOwnership`.
Exclusion is not inductive, since it says nothing of a lease before its job
starts. `IInv` says that what a runtime believes is more cautious than the row:
while a job runs or may still be started, the row is its runtime's for at least
`Renew` ticks longer than its guard (`CoverInv`; the guard counts from the
request, the database from its execution, `GuardInv`, `AnswerInv`). Nothing on
the wire can undermine that: a release that was given up names an older token
than the one in use (`OrphanInv`, `TokenInv`). The refinement needs in addition
that a lease which can still lead to a job has a larger token than every job
before it (`FreshInv`).

`SnapshotGroupsProofs`, for any tables, fingerprints and bounds, with
overlapping jobs: `ReadersSeeOneGroup`, `QuarantineIsAlwaysCollectable`,
`ShadowsAreAlwaysListed`, `OwnersProceed`, and the action property
`ForeignIsKept`. `IInv` classifies every managed relation (`ManagedInv`): a
shadow of the one group that loads, a table of the group activated last, or a
quarantined table of an unpurged log record. Only the latest group loads because
a job registers one only after a cleanup under the fence (`GroupInv`), for a
generation that was never activated. A quarantine name is free because it
contains the token of the group that loses the table, which loses it once: each
record's former group is older than some active one (`LogInv`, `FreshName`).
`LoadedInv` remembers what a load saw of its target until the activation. Without
statements of somebody else relations and records agree (`PhysInv`).

`InitialSnapshotProofs`, for any tables, writers and bounds: `GenerationsBeginExactly`.
A relation identifier is never used twice (`IdInv`), so a table that has its
planned relation at the second inspection had it all along and was published
(`MemberInv`); the slot waits for writers that might not have seen that
(`WriteInv`, `SlotInv`); what happens between the exported snapshot and a COPY is
invisible to the COPY or a barrier in the stream (`CopyInv`).

`NormalizeProofs`, for any keys and values and any number of changes in a batch:
`FoldIsExactHolds`, `ReplayDoesNoHarmHolds`, `NormalizeTypes`. Neither property
says how a change finds its lineage, so `FoldInv` adds what the two indexes mean:
`live` and `origins` are the inverses of the lineages' current and batch-start
keys, and only a lineage that began with an INSERT may live at a key where another
one began (`Links`); and for every key, what the lineages say of its row at the
start of the batch is the target's row, and what they say of its row now is the
source's (`Content`). From these the four statements of the apply plan are followed
key by key: validation finds every origin, a delete or a move frees a key before
an insert or a move takes it, and the rows left are the source's.

`StreamProofs`, for any tables, shapes, logs and limits: `AppliedIsLogHolds`,
`OneShapePerGenerationHolds`, `RefusesOnlyTheUnsupportedHolds`,
`DeliveredIsOutstandingHolds`, `StreamTypes`. `IndInv` follows the log
through the job: the assembler has the changes of the open transaction that were
sent, repeated DDL messages once (`SenderInv`, `Assembled`); batch, queue and the
transaction being received follow the acknowledged position without gap
(`PositionInv`) and have the log's content, a barrier only in front
(`ContentInv`). The shape the decoder knows of a relation is that of the change it
is sent, so it refuses a replica identity, an origin or a message only where the log
holds one. In the log every row up to the first barrier has the shape its table
was made for (`LogInv`). Decoder and assembler agree on generations, and a second
generation, or a shape other than the table's, was announced only after a barrier
that the target has not come to (`GenerationInv`, `BoundInv`, `Seen`): the barrier is
refused before such a row can be applied, and the registry refuses no other row.
What `Only` and `FlattenSeq` do to concatenations is proved once, as lemmas.

`TypeEvolutionProofs`, for any labels and tables and any history of the type:
`PlanReaches`, `PlansReachSource`, `OnlyMixedChangesAreRefused`, `TypesAreCorrect`.
The algorithm has a loop invariant (`AddedUpTo`): after p positions the current
labels begin with the first p desired ones, are a subsequence of the desired ones,
and are what the statements so far make of the existing ones. Labels are
different, so an embedding fixes the first p positions, and a label missing at
position p+1 is nowhere else (`MissingIsNew`). Renames go position by position
(`RenameProceeds`). The state invariant says that the pipeline's own type has the
labels of its record, those of the definition it was last brought to
(`TargetInv`), and that definitions between which there are only additions are
subsequences of each other (`HistInv`), which is why such a change is not refused.

`ServerProofs`:

* `Runtime`, for any number of pipelines, requests and positions:
  `TasksAreReported`, `CheckpointsAreDurable`, `ExitIsOrderly`. The first rests on a
  table of the snapshots each step of a task allows (`ReportInv`); the last on the
  fact that a task outside the supervisor's map is one the reconciler is just
  reaping or joining (`TaskInv`), and on what has ended staying so (`EndInv`).
* `Migration`, for any number of processes and versions: `MigrationsAlwaysAgree`.
  One transaction at a time is past the lock (`LockInv`), and a process working on a
  version found every earlier one with its own checksum (`StepInv`), so applied
  versions are the first ones (`VersionsInv`) and a migrated process finds its own
  among them, where a newer release may have added later ones.
* `Control`: `RebuildsAreAudited` (with the unique constraints of pipelines and
  operations and the row shapes as strengthening).
* `Auth`: the action property `OnlyOpenSessionsAdmit`, from: a live token has the
  expiry it was issued with and was not logged out, and a waiting request carries an
  issued token and a time that was read (`SessionInv`); and
  `GuessesAreAlwaysLimited`, from: the recent failures of an address and the logins
  for it that passed the check and wait for the hash are together fewer than the
  limit and the number of requests in flight (`LimitInv`), since a login passes only
  below the limit; that the time of its check may be old makes the check count more
  failures, never fewer.

Assumptions of these: the bounds of `Lease`, `SnapshotGroups`, `Stream` and
`TypeEvolution` as their `ASSUME`s state; `Toast`, `NoRow` and `NoKey` of `Normalize`
are no values or keys; `Foreign` is not the oid of a relation the
pipeline creates; `NoType` and `NoRecord` are neither a list of labels nor a row of
`managed_types`; `MaxLsn`, `SessionTtl` and `LoginWindow` are naturals, the login
limit is at least one and requests in flight are finitely many.

Filters, flattening, the planner's loops and ALTER TYPE are recursive functions. The
library's induction theorems take a predicate as a parameter, which the provers
cannot instantiate; `NatSetInduction` and `SetInduction` state induction for a set of
naturals instead, from the well-foundedness of their order, and what a recursive
function computes is proved with that.

Only model-checked: the liveness properties (`JobSettles`, `CatchesUp`,
`EventuallyRuns`, `StaleJobStops`, `GateReopens`, `ShutdownStopsJobs`), because
fairness and `ENABLED` are outside this prover. Every invariant, action property
and refinement of a passing run is stated by a theorem.

## 5. Not modelled

The arithmetic of the WAL retention thresholds and of the backoff, and WAL of
unpublished tables; domains; the pipeline phase machine (no runtime code uses
it); reconciliation digests (no caller); Citus (refused by the runtime); the web
console, configuration and settings, crypto, SQL text, type mapping, texts of
answers and metrics, counters and timestamps of the telemetry: data without
protocol state. `put_pipeline` with an existing identifier, which the API never
sends. The names of target schemas (`prefix__database__schema`, hashed when too
long, in the database a target row names): whether two pipelines can come to share
tables depends on that mapping, and nothing is claimed about it. `InitialCatalogChanged` is an action of `InitialSnapshot`, and one of the
errors `AbandonSnapshot` and `Stop` of `Replication` stand for.

## 6. Plan

1. done: `Replication`, `Mirror`, proofs; `Normalize`; `Lease`, `Ownership`;
   `SnapshotGroups`; `Stream`; `TypeEvolution`; `InitialSnapshot`, `Auth`,
   `Control`, `Runtime`, `Migration`.
2. done, proofs: every invariant, action property and refinement that the passing
   runs check.
3. next: a module that composes the lease with the protocol, and retention with
   unpublished WAL and the monitor's timing.
