----------------------------- MODULE Replication -----------------------------
(***************************************************************************)
(* The delivery protocol of one mirrored pipeline: a PostgreSQL source     *)
(* with one logical slot, the control database that hands out fencing      *)
(* tokens and snapshot generations, the Cloudberry target that stores the  *)
(* fence, the checkpoints and the rows, and the runtime jobs that move     *)
(* transactions from one to the other.                                     *)
(*                                                                         *)
(* A job is identified by the fencing token of the lease it runs under:    *)
(* every start acquires a new token, so job j is the job with token j.     *)
(* A source transaction is identified by its commit LSN (a natural         *)
(* number), and the contents of the target by the set of LSNs whose effect *)
(* they include; what a transaction does to a row is the subject of the    *)
(* module Normalize.                                                       *)
(***************************************************************************)
EXTENDS Integers

CONSTANTS
  Runtime,      \* runtime instances that compete for the pipeline
  MaxLsn,       \* bound: last LSN the source ever commits
  MaxToken,     \* bound: number of leases (hence jobs) ever granted
  MaxGen,       \* bound: last snapshot generation ever requested
  MaxBatch,     \* BatchLimits.max_rows, counted in transactions
  MaxRetained,  \* WalRetentionSettings: WAL behind the slot that forces a rebuild
  Exclusive     \* TRUE: a lease is granted only when no older job still runs

ASSUME BoundsAssumption ==
  /\ MaxLsn \in Nat \ {0}
  /\ MaxToken \in Nat \ {0}
  /\ MaxGen \in Nat \ {0}
  /\ MaxBatch \in Nat \ {0}
  /\ MaxRetained \in Nat
  /\ Exclusive \in BOOLEAN

VARIABLES
  \* Source database.
  srcLsn,    \* LSN of the last committed transaction
  barriers,  \* LSNs whose transaction carries a schema barrier (DDL, TRUNCATE)
  slotState,     \* the pipeline's logical slot (one name for all generations)
  slotConfirmed, \* its confirmed_flush_lsn
  slotActive,    \* job whose replication connection uses it, 0 when none
  slotCreator,   \* history: job that created it
  \* Control database.
  gen,       \* pipelines.snapshot_generation
  openOps,   \* generations whose rebuild operation is still 'requested'
  listed,    \* generation in the pipeline list each runtime read last
  token,     \* last fencing token granted
  \* Target database.
  fenceGen,    \* pipeline_state row: generation
  fenceToken,  \* pipeline_state row: fencing token
  txJob,       \* job of the open transaction that locks the fence row, 0 when none
  txKind,      \* what that transaction does
  ckpt,      \* applied LSN per generation; 0 when the row does not exist
  rows,      \* LSNs whose effect the live target tables include
  liveGen,   \* generation of the active snapshot group, 0 when none
  snapLsn,   \* history: consistent point each generation was activated at
  origin,    \* history: job whose slot each generation was activated from
  \* Jobs.
  pc,        \* where each job is in run_standalone
  jgen,      \* PipelineFence.topology_generation of the job
  base,      \* checkpoint the job starts replication from
  done,      \* last LSN of the batches that were applied and acknowledged
  cut,       \* done+1..cut is the batch being applied
  recv       \* cut+1..recv is pending in the batcher

srcVars == <<srcLsn, barriers>>
ctlVars == <<gen, openOps, listed, token>>
slotVars == <<slotState, slotConfirmed, slotActive, slotCreator>>
fenceVars == <<fenceGen, fenceToken>>
txVars == <<txJob, txKind>>
dataVars == <<ckpt, rows, liveGen, snapLsn, origin>>
tgtVars == <<fenceVars, txVars, dataVars>>
cursors == <<done, cut, recv>>
vars == <<srcVars, slotVars, ctlVars, tgtVars, pc, jgen, base, cursors>>

Job == 1..MaxToken
Gen == 1..MaxGen
Lsn == 0..MaxLsn

NoJob == 0

\* Positions of run_standalone.  A job in Streaming owns a replication
\* connection; a job in Serving is past preparation.
Streaming == {"streaming", "applying", "committing", "applied"}
PC == {"idle", "connect", "fenced", "initial", "publish", "snapshot", "loaded",
       "activating", "resume", "prepared", "rebuild", "stopped"} \cup Streaming
Live(j) == pc[j] \notin {"idle", "stopped"}


-----------------------------------------------------------------------------
(***************************************************************************)
(* Initial state: a source that already has WAL, nothing on the target, no *)
(* slot, no lease, the pipeline at its first generation.                   *)
(***************************************************************************)
Init ==
  /\ srcLsn = 1 /\ barriers = {}
  /\ slotState = "absent" /\ slotConfirmed = 0
  /\ slotActive = NoJob /\ slotCreator = NoJob
  /\ gen = 1 /\ openOps = {} /\ listed = [r \in Runtime |-> 1] /\ token = 0
  /\ fenceGen = 0 /\ fenceToken = 0 /\ txJob = NoJob /\ txKind = "none"
  /\ ckpt = [g \in Gen |-> 0] /\ rows = {} /\ liveGen = 0
  /\ snapLsn = [g \in Gen |-> 0] /\ origin = [g \in Gen |-> NoJob]
  /\ pc = [j \in Job |-> "idle"]
  /\ jgen = [j \in Job |-> 1]
  /\ base = [j \in Job |-> 0]
  /\ done = [j \in Job |-> 0]
  /\ cut = [j \in Job |-> 0]
  /\ recv = [j \in Job |-> 0]

-----------------------------------------------------------------------------
(* Source database and operators (external to the program). *)

\* A client of the source commits row changes.
SourceCommit ==
  /\ srcLsn < MaxLsn
  /\ srcLsn' = srcLsn + 1
  /\ UNCHANGED <<barriers, slotVars, ctlVars, tgtVars, pc, jgen, base, cursors>>

\* A client of the source commits DDL or TRUNCATE on managed tables.
SourceDdl ==
  /\ srcLsn < MaxLsn
  /\ srcLsn' = srcLsn + 1
  /\ barriers' = barriers \cup {srcLsn + 1}
  /\ UNCHANGED <<slotVars, ctlVars, tgtVars, pc, jgen, base, cursors>>

\* PostgreSQL invalidates a slot that holds back too much WAL and ends its
\* walsender.
InvalidateSlot ==
  /\ slotState = "ready" /\ slotConfirmed < srcLsn
  /\ slotState' = "lost" /\ slotActive' = NoJob
  /\ UNCHANGED <<slotConfirmed, slotCreator, srcVars, ctlVars, tgtVars, pc, jgen, base, cursors>>

\* The walsender of a job that no longer reads notices the closed connection.
ReleaseSlot(j) ==
  /\ slotActive = j /\ pc[j] \notin Streaming
  /\ slotActive' = NoJob
  /\ UNCHANGED <<slotState, slotConfirmed, slotCreator, srcVars, ctlVars, tgtVars, pc, jgen, base, cursors>>

\* pg_drop_replication_slot refuses a slot in use and ignores who created it.
DropSlot ==
  IF slotActive = NoJob
  THEN /\ slotState' = "absent" /\ slotConfirmed' = 0
       /\ slotCreator' = NoJob /\ UNCHANGED slotActive
  ELSE UNCHANGED slotVars

-----------------------------------------------------------------------------
(* Control database. *)

\* request_pipeline_rebuild: bump the generation and record the operation in
\* one transaction; it is not conditional on the caller's generation.
BumpGeneration ==
  /\ gen < MaxGen
  /\ gen' = gen + 1
  /\ openOps' = openOps \cup {gen + 1}

\* POST /pipelines/{id}/rebuild.
UserRebuild ==
  /\ BumpGeneration
  /\ UNCHANGED <<srcVars, slotVars, listed, token, tgtVars, pc, jgen, base, cursors>>

\* The reconciler of a runtime reads the pipeline definitions.
ListPipelines(r) ==
  /\ listed[r] # gen
  /\ listed' = [listed EXCEPT ![r] = gen]
  /\ UNCHANGED <<srcVars, slotVars, gen, openOps, token, tgtVars, pc, jgen, base, cursors>>

\* start_pipeline: acquire the lease (a new token) and start a job for the
\* generation that this runtime listed, which may be old by now.
StartJob(r) ==
  /\ token < MaxToken
  /\ Exclusive => \A k \in Job : ~Live(k)
  /\ token' = token + 1
  /\ pc' = [pc EXCEPT ![token + 1] = "connect"]
  /\ jgen' = [jgen EXCEPT ![token + 1] = listed[r]]
  /\ UNCHANGED <<srcVars, slotVars, gen, openOps, listed, tgtVars, base, cursors>>

-----------------------------------------------------------------------------
(* Preparation of a job: run_standalone up to START_REPLICATION. *)

Goto(j, p) == pc' = [pc EXCEPT ![j] = p]

\* The fence row is not locked by another target transaction.
FenceRead == TRUE
FenceUnlocked == txJob = NoJob

\* lock_pipeline_fence accepts only the exact generation and token.
HoldsGeneration(j) == fenceGen = jgen[j]
HoldsFence(j) == fenceGen = jgen[j] /\ fenceToken = j

\* The condition of the upsert in activate_pipeline_fence.
TokenAdvances(j) == j >= fenceToken
FenceAdvances(j) == jgen[j] >= fenceGen /\ j >= fenceToken

\* activate_pipeline_fence: the row moves forward in both columns or not at
\* all.  The UPDATE waits for a transaction that holds the row.
ActivateFence(j) ==
  /\ pc[j] = "connect" /\ FenceUnlocked
  /\ IF FenceAdvances(j)
     THEN fenceGen' = jgen[j] /\ fenceToken' = j /\ Goto(j, "fenced")
     ELSE UNCHANGED fenceVars /\ Goto(j, "stopped")
  /\ UNCHANGED <<srcVars, slotVars, ctlVars, txVars, dataVars, jgen, base, cursors>>

\* load_node_checkpoint chooses between resume and initial snapshot.
LoadCheckpoint(j) ==
  /\ pc[j] = "fenced"
  /\ base' = [base EXCEPT ![j] = ckpt[jgen[j]]]
  /\ Goto(j, IF ckpt[jgen[j]] = 0 THEN "initial" ELSE "resume")
  /\ UNCHANGED <<srcVars, slotVars, ctlVars, tgtVars, jgen, cursors>>

\* prepare_initial_snapshot drops a leftover slot of the pipeline; an active
\* one is an error.
DropOrphanSlot(j) ==
  /\ pc[j] = "initial"
  /\ DropSlot
  /\ Goto(j, IF slotActive = NoJob THEN "publish" ELSE "stopped")
  /\ UNCHANGED <<srcVars, ctlVars, tgtVars, jgen, base, cursors>>

\* SnapshotSlotGuard::create: CREATE_REPLICATION_SLOT ... EXPORT_SNAPSHOT.
\* The slot's consistent point is the position of the exported snapshot.
\* When the name is taken the command fails and the error path drops
\* whatever slot has the name.
CreateSlot(j) ==
  /\ pc[j] = "publish"
  /\ IF slotState = "absent"
     THEN /\ slotState' = "ready" /\ slotConfirmed' = srcLsn
          /\ slotCreator' = j /\ UNCHANGED slotActive
          /\ base' = [base EXCEPT ![j] = srcLsn]
          /\ Goto(j, "snapshot")
     ELSE DropSlot /\ UNCHANGED base /\ Goto(j, "stopped")
  /\ UNCHANGED <<srcVars, ctlVars, tgtVars, jgen, cursors>>

\* begin_snapshot_group and the COPY of every table into its shadow: target
\* transactions that each lock the fence.
LoadShadows(j) ==
  /\ pc[j] = "snapshot" /\ FenceUnlocked /\ HoldsFence(j)
  /\ Goto(j, "loaded")
  /\ UNCHANGED <<srcVars, slotVars, ctlVars, tgtVars, jgen, base, cursors>>

\* Any error, cancellation or stale fence before activation is attempted:
\* preserve_slot_on_error is still FALSE and the slot is dropped.
AbandonSnapshot(j) ==
  /\ pc[j] = "snapshot"
  /\ DropSlot
  /\ Goto(j, "stopped")
  /\ UNCHANGED <<srcVars, ctlVars, tgtVars, jgen, base, cursors>>

\* activate_snapshot_group opens its transaction and locks the fence.
BeginActivate(j) ==
  /\ pc[j] = "loaded" /\ FenceUnlocked
  /\ IF HoldsFence(j)
     THEN txJob' = j /\ txKind' = "activate" /\ Goto(j, "activating")
     ELSE UNCHANGED txVars /\ Goto(j, "stopped")
  /\ UNCHANGED <<srcVars, slotVars, ctlVars, fenceVars, dataVars, jgen, base, cursors>>

\* prepare_resume finds the slot gone, lost or ahead of the checkpoint, or
\* the publication changed by DDL the target has not seen.
SlotContinuityLost(j) == slotState = "lost" \/ slotConfirmed > base[j]
ResumeRebuild(j) ==
  /\ pc[j] = "resume"
  /\ \/ slotState = "absent"
     \/ slotActive = NoJob /\ SlotContinuityLost(j)
     \/ slotActive = NoJob /\ \E b \in barriers : b > base[j]
  /\ Goto(j, "rebuild")
  /\ UNCHANGED <<srcVars, slotVars, ctlVars, tgtVars, jgen, base, cursors>>

\* prepare_resume finds the slot in use or the fence taken over.
ResumeRefuse(j) ==
  /\ pc[j] = "resume"
  /\ slotActive # NoJob \/ (FenceUnlocked /\ ~HoldsFence(j))
  /\ Goto(j, "stopped")
  /\ UNCHANGED <<srcVars, slotVars, ctlVars, tgtVars, jgen, base, cursors>>

\* prepare_resume succeeds.  Whether the stored manifest equals the new plan
\* is left open here: a refusal is a Stop(j) step.
ResumeAccept(j) ==
  /\ pc[j] = "resume"
  /\ slotState # "absent" /\ slotActive = NoJob /\ ~SlotContinuityLost(j)
  /\ FenceUnlocked /\ HoldsFence(j)
  /\ Goto(j, "prepared")
  /\ UNCHANGED <<srcVars, slotVars, ctlVars, tgtVars, jgen, base, cursors>>

\* PostgreSQL streams from the requested LSN or from the slot's confirmed
\* position, whichever is greater.
StreamFromHead(j) == srcLsn
StreamPast(j) == base[j] + 1
StreamStart(j) == IF slotConfirmed > base[j] THEN slotConfirmed ELSE base[j]

\* complete_pipeline_rebuilds leaves the operations of later generations.
NoOps(j) == {}
OpsLeft(j) == {g \in openOps : g > jgen[j]}

\* Rebuild operations up to the job's generation are marked completed and
\* START_REPLICATION is sent; it fails on a slot that is gone or in use.
StartWhenFree(j) ==
  /\ pc[j] = "prepared" /\ slotState = "ready" /\ slotActive = NoJob
  /\ slotActive' = j
  /\ Goto(j, "streaming")
  /\ UNCHANGED <<slotState, slotConfirmed, slotCreator, srcVars, ctlVars, tgtVars, jgen, base, cursors>>
StartReplication(j) ==
  /\ pc[j] = "prepared"
  /\ openOps' = OpsLeft(j)
  /\ IF slotState = "ready" /\ slotActive = NoJob
     THEN /\ slotActive' = j
          /\ done' = [done EXCEPT ![j] = StreamStart(j)]
          /\ cut' = [cut EXCEPT ![j] = StreamStart(j)]
          /\ recv' = [recv EXCEPT ![j] = StreamStart(j)]
          /\ Goto(j, "streaming")
     ELSE UNCHANGED <<slotActive, cursors>> /\ Goto(j, "stopped")
  /\ UNCHANGED <<slotState, slotConfirmed, slotCreator, srcVars, gen, listed, token,
                 tgtVars, jgen, base>>

-----------------------------------------------------------------------------
(* Replication: replicate_with_telemetry, the batcher and the sink. *)

\* Batcher::push flushes what is pending before a barrier or at the limit.
MustFlush(j) ==
  /\ recv[j] > cut[j]
  /\ recv[j] + 1 \in barriers \/ recv[j] - cut[j] >= MaxBatch

\* next_transaction and Batcher::push: the transaction becomes pending, and a
\* full batch goes to the sink.
Receive(j) ==
  /\ pc[j] = "streaming" /\ slotActive = j
  /\ recv[j] < srcLsn
  /\ recv' = [recv EXCEPT ![j] = recv[j] + 1]
  /\ IF MustFlush(j)
     THEN cut' = [cut EXCEPT ![j] = recv[j]] /\ Goto(j, "applying")
     ELSE UNCHANGED <<cut, pc>>
  /\ UNCHANGED <<srcVars, slotVars, ctlVars, tgtVars, jgen, base, done>>

\* The same without the timer: only a full batch is flushed.
FlushFull(j) ==
  /\ pc[j] = "streaming" /\ recv[j] - cut[j] >= MaxBatch
  /\ cut' = [cut EXCEPT ![j] = recv[j]]
  /\ Goto(j, "applying")
  /\ UNCHANGED <<srcVars, slotVars, ctlVars, tgtVars, jgen, base, done, recv>>

\* max_delay elapsed, or the stream ended, with transactions pending.
Flush(j) ==
  /\ pc[j] = "streaming" /\ recv[j] > cut[j]
  /\ cut' = [cut EXCEPT ![j] = recv[j]]
  /\ Goto(j, "applying")
  /\ UNCHANGED <<srcVars, slotVars, ctlVars, tgtVars, jgen, base, done, recv>>

Batch(j) == (done[j] + 1) .. cut[j]

\* reject_schema_barriers looks at every transaction of the batch.
EndsInBarrier(j) == cut[j] \in barriers
HasBarrier(j) == \E b \in barriers : b \in Batch(j)

\* CloudberryTransactionSink::apply: a batch with a schema barrier is refused
\* before anything is written; otherwise the apply transaction opens and
\* locks the fence.
BeginApply(j) ==
  /\ pc[j] = "applying"
  /\ IF HasBarrier(j)
     THEN UNCHANGED txVars /\ Goto(j, "rebuild")
     ELSE /\ FenceUnlocked
          /\ IF HoldsFence(j)
             THEN txJob' = j /\ txKind' = "apply" /\ Goto(j, "committing")
             ELSE UNCHANGED txVars /\ Goto(j, "stopped")
  /\ UNCHANGED <<srcVars, slotVars, ctlVars, fenceVars, dataVars, jgen, base, cursors>>

\* source.acknowledge after sink.apply: the standby status update carries the
\* batch's final LSN; it may be lost with the connection.
Acknowledge(j) ==
  /\ pc[j] = "applied" /\ slotActive = j
  /\ slotConfirmed' \in {slotConfirmed, cut[j]}
  /\ done' = [done EXCEPT ![j] = cut[j]]
  /\ Goto(j, "streaming")
  /\ UNCHANGED <<slotState, slotActive, slotCreator, srcVars, ctlVars, tgtVars,
                 jgen, base, cut, recv>>

\* A keepalive that requests a reply is answered with durable_applied_lsn.
ReceivedLsn(j) == recv[j]
DurableAppliedLsn(j) == done[j]
AnswerKeepalive(j) ==
  /\ pc[j] = "streaming" /\ slotActive = j
  /\ slotConfirmed < DurableAppliedLsn(j)
  /\ slotConfirmed' = DurableAppliedLsn(j)
  /\ UNCHANGED <<slotState, slotActive, slotCreator, srcVars, ctlVars, tgtVars, pc, jgen, base, cursors>>

\* The next read or status update fails on a closed replication connection.
StreamBroken(j) ==
  /\ pc[j] \in {"streaming", "applied"} /\ slotActive # j
  /\ Goto(j, "stopped")
  /\ UNCHANGED <<srcVars, slotVars, ctlVars, tgtVars, jgen, base, cursors>>

\* assess_wal_retention asks for a rebuild: the slot is invalidated, or the WAL
\* it retains has reached the limit.  safe_wal_size falls as the retained WAL
\* grows and is the same test of another distance.
RetentionAssessment == slotState = "lost" \/ srcLsn - slotConfirmed >= MaxRetained

\* monitor_wal_retention wins the select!: the replication future is dropped
\* wherever it is.
RetentionExceeded(j) ==
  /\ pc[j] \in Streaming /\ slotState # "absent"
  /\ RetentionAssessment
  /\ Goto(j, "rebuild")
  /\ UNCHANGED <<srcVars, slotVars, ctlVars, tgtVars, jgen, base, cursors>>

\* request_rebuild, after which the job ends without an error.
RequestRebuild(j) ==
  /\ pc[j] = "rebuild"
  /\ BumpGeneration
  /\ Goto(j, "stopped")
  /\ UNCHANGED <<srcVars, slotVars, listed, token, tgtVars, jgen, base, cursors>>

\* Crash, cancellation, lease loss or any other error: the future is dropped.
\* An open target transaction is left to the server.
Stop(j) ==
  /\ Live(j)
  /\ Goto(j, "stopped")
  /\ UNCHANGED <<srcVars, slotVars, ctlVars, tgtVars, jgen, base, cursors>>

-----------------------------------------------------------------------------
(* The target server ends the open transaction. *)

\* The client hears of the outcome only when it is still waiting for it.
Hears(p, q) ==
  pc' = IF pc[txJob] = p THEN [pc EXCEPT ![txJob] = q] ELSE pc

\* advance_node_checkpoint: check_advance refuses a position before the stored
\* one; the same position again is accepted.
CheckAdvance(j) == cut[j] >= ckpt[jgen[j]]

\* execute_apply commits: rows and checkpoint in one transaction.
CommitApply ==
  /\ txKind = "apply" /\ CheckAdvance(txJob)
  /\ rows' = rows \cup Batch(txJob)
  /\ ckpt' = [ckpt EXCEPT ![jgen[txJob]] = cut[txJob]]
  /\ txJob' = NoJob /\ txKind' = "none"
  /\ Hears("committing", "applied")
  /\ UNCHANGED <<srcVars, slotVars, ctlVars, fenceVars, liveGen, snapLsn, origin,
                 jgen, base, cursors>>

\* The shadows hold what the exported snapshot shows: everything up to the
\* slot's consistent point.
CurrentRows(j) == 1 .. srcLsn
SnapshotRows(j) == 1 .. base[j]

\* activate_snapshot_group commits: the shadows become the live tables and
\* the initial checkpoint is written in one transaction.
CommitActivate ==
  /\ txKind = "activate"
  /\ rows' = SnapshotRows(txJob)
  /\ ckpt' = [ckpt EXCEPT ![jgen[txJob]] = base[txJob]]
  /\ liveGen' = jgen[txJob]
  /\ snapLsn' = [snapLsn EXCEPT ![jgen[txJob]] = base[txJob]]
  /\ origin' = [origin EXCEPT ![jgen[txJob]] = txJob]
  /\ txJob' = NoJob /\ txKind' = "none"
  /\ Hears("activating", "prepared")
  /\ UNCHANGED <<srcVars, slotVars, ctlVars, fenceVars, jgen, base, cursors>>

\* The transaction rolls back: an error, a lost connection or a timeout.
AbortTx ==
  /\ txJob # NoJob
  /\ txJob' = NoJob /\ txKind' = "none"
  /\ Hears(IF txKind = "apply" THEN "committing" ELSE "activating", "stopped")
  /\ UNCHANGED <<srcVars, slotVars, ctlVars, fenceVars, dataVars, jgen, base, cursors>>

-----------------------------------------------------------------------------
Prepare(j) ==
  \/ ActivateFence(j) \/ LoadCheckpoint(j)
  \/ DropOrphanSlot(j) \/ CreateSlot(j) \/ LoadShadows(j) \/ AbandonSnapshot(j)
  \/ BeginActivate(j)
  \/ ResumeRebuild(j) \/ ResumeRefuse(j) \/ ResumeAccept(j)
  \/ StartReplication(j)

Replicate(j) ==
  \/ Receive(j) \/ Flush(j) \/ BeginApply(j) \/ Acknowledge(j)
  \/ AnswerKeepalive(j) \/ StreamBroken(j) \/ RetentionExceeded(j)
  \/ RequestRebuild(j)

Next ==
  \/ SourceCommit \/ SourceDdl \/ InvalidateSlot
  \/ UserRebuild \/ \E r \in Runtime : ListPipelines(r) \/ StartJob(r)
  \/ CommitApply \/ CommitActivate \/ AbortTx
  \/ \E j \in Job : Prepare(j) \/ Replicate(j) \/ Stop(j) \/ ReleaseSlot(j)

Spec == Init /\ [][Next]_vars

(***************************************************************************)
(* Fairness.  The runtime polls a job that can go on (tokio), the timer of *)
(* the batcher fires, a database ends an open transaction and a walsender  *)
(* whose client is gone.  Nothing is assumed of sources, users, crashes or *)
(* the reconciler.                                                         *)
(***************************************************************************)
EndTx == CommitApply \/ CommitActivate \/ AbortTx

FairSpec ==
  /\ Spec
  /\ WF_vars(EndTx)
  /\ \A j \in Job : WF_vars(Prepare(j)) /\ WF_vars(Replicate(j))

-----------------------------------------------------------------------------
(* Properties. *)

TypeOK ==
  /\ srcLsn \in 1..MaxLsn /\ barriers \subseteq 1..MaxLsn 
  /\ slotState \in {"absent", "ready", "lost"} /\ slotConfirmed \in Lsn
  /\ slotActive \in 0..MaxToken /\ slotCreator \in 0..MaxToken
  /\ gen \in Gen /\ openOps \subseteq Gen /\ listed \in [Runtime -> Gen]
  /\ token \in 0..MaxToken
  /\ fenceGen \in 0..MaxGen /\ fenceToken \in 0..MaxToken
  /\ txJob \in 0..MaxToken /\ txKind \in {"none", "apply", "activate"}
  /\ ckpt \in [Gen -> Lsn] /\ rows \subseteq Lsn /\ liveGen \in 0..MaxGen
  /\ snapLsn \in [Gen -> Lsn] /\ origin \in [Gen -> 0..MaxToken]
  /\ pc \in [Job -> PC] /\ jgen \in [Job -> Gen] /\ base \in [Job -> Lsn]
  /\ done \in [Job -> Lsn] /\ cut \in [Job -> Lsn] /\ recv \in [Job -> Lsn]

\* The live target tables hold exactly the source transactions up to the
\* checkpoint of the active generation: none is skipped, none is ahead.
MirrorIsPrefix == liveGen # 0 => rows = 1 .. ckpt[liveGen]

\* The slot that the active generation reads from is never acknowledged past
\* the durable checkpoint (pgoutput acknowledge, keepalive replies).
AckedIsDurable ==
  liveGen # 0 /\ slotState # "absent" /\ slotCreator = origin[liveGen]
    => slotConfirmed <= ckpt[liveGen]

\* No generation mixes transactions from both sides of a schema barrier: the
\* checkpoint stops in front of the first barrier after the snapshot.
BarrierNotCrossed ==
  liveGen # 0 =>
    \A b \in barriers : ~(snapLsn[liveGen] < b /\ b <= ckpt[liveGen])

\* A batch in an open apply transaction holds nothing the target already
\* has: a committed batch is never applied again after a lost answer, a lost
\* acknowledgement or a restart.
AppliedOnce == txKind = "apply" => Batch(txJob) \cap rows = {}

\* A rebuild operation is completed only when a snapshot of its generation or
\* of a later one is live on the target.
CompletedRebuildIsLive == \A g \in 2..gen : g \notin openOps => g <= liveGen

\* Once a newer owner has activated its fence, no write of an older owner
\* reaches the live tables or a checkpoint.
OnlyFenceHolderWrites ==
  [][rows' # rows \/ ckpt' # ckpt =>
       txJob = fenceToken /\ jgen[txJob] = fenceGen]_vars

\* What readers of the target see never goes back in time, not even when a
\* rebuild replaces the tables by a new generation.
MirrorNeverRegresses ==
  [][liveGen # 0 => liveGen' >= liveGen /\ ckpt'[liveGen'] >= ckpt[liveGen]]_vars

\* A job that starts reaches replication or ends; it never waits for ever for
\* the fence row, the slot or the snapshot.
JobSettles ==
  \A j \in Job : pc[j] = "connect" ~> pc[j] \in {"streaming", "rebuild", "stopped"}

\* A job that replicates brings the checkpoint up to the source, or leaves
\* replication, also when fewer transactions than a batch are pending.
CatchesUp ==
  \A j \in Job :
    pc[j] = "streaming" ~> pc[j] \notin Streaming \/ ckpt[jgen[j]] = srcLsn

\* The protocol implements a mirror that jumps from prefix to longer prefix.
Mirror == INSTANCE Mirror WITH src <- srcLsn, mirror <- rows
RefinesMirror == Mirror!Spec
=============================================================================
