-------------------------- MODULE ReplicationProofs --------------------------
(***************************************************************************)
(* Proofs about Replication for every value of its constants.  The         *)
(* inductive invariant IInv is a conjunction of named parts; TLC checks it *)
(* on the instances of the runs before it is proved here.                  *)
(***************************************************************************)
EXTENDS Replication, TLAPS

\* Positions at which a job's base no longer changes.
Based == PC \ {"idle", "connect", "fenced", "initial", "publish"}

\* Tokens above the last one granted have no job yet.
InvToken == \A j \in Job : j > token => pc[j] = "idle"

\* The open transaction belongs to the holder of the fence, and a job that
\* waits for a transaction waits for the open one.
InvTx ==
  /\ (txJob = NoJob) = (txKind = "none")
  /\ txJob # NoJob => HoldsFence(txJob)
  /\ \A j \in Job : pc[j] = "committing" => txJob = j /\ txKind = "apply"
  /\ \A j \in Job : pc[j] = "activating" => txJob = j /\ txKind = "activate"
  /\ txKind = "apply" => pc[txJob] \in {"committing", "rebuild", "stopped"}
  /\ txKind = "activate" => pc[txJob] \in {"activating", "stopped"}

\* The live generation has the highest checkpoint; the live rows do not go
\* beyond it.
InvLive ==
  /\ liveGen <= fenceGen
  /\ liveGen = 0 => rows = {}
  /\ \A g \in Gen : ckpt[g] # 0 => g <= liveGen
  /\ liveGen # 0 =>
       /\ ckpt[liveGen] # 0 /\ ckpt[liveGen] <= srcLsn
       /\ rows \subseteq 1 .. ckpt[liveGen]
       /\ \A g \in Gen : ckpt[g] <= ckpt[liveGen]

\* The live generation started at the consistent point of its job's slot.
InvOrigin ==
  liveGen # 0 =>
    /\ origin[liveGen] \in Job /\ pc[origin[liveGen]] \in Based
    /\ base[origin[liveGen]] = snapLsn[liveGen]
    /\ snapLsn[liveGen] <= ckpt[liveGen]

\* A slot is confirmed up to its consistent point or up to what is durable.
InvSlot ==
  slotState # "absent" =>
    /\ slotCreator \in Job /\ pc[slotCreator] \in Based
    /\ slotConfirmed <= srcLsn
    /\ \/ slotConfirmed <= base[slotCreator]
       \/ liveGen # 0 /\ slotConfirmed <= ckpt[liveGen]

\* What a job that loads a snapshot knows.
Loading(j) ==
  /\ base[j] >= 1 /\ base[j] <= srcLsn
  /\ HoldsFence(j) /\ liveGen # 0 => ckpt[liveGen] <= base[j]

\* What a job with a checkpoint of its generation knows.
Resumable(j) ==
  /\ base[j] >= 1 /\ base[j] <= ckpt[jgen[j]]
  /\ HoldsFence(j) => base[j] = ckpt[jgen[j]]

\* What a job that replicates knows.
Replicating(j) ==
  /\ ckpt[jgen[j]] # 0
  /\ done[j] <= cut[j] /\ cut[j] <= recv[j] /\ recv[j] <= srcLsn
  /\ pc[j] = "applied" => cut[j] <= ckpt[jgen[j]]
  /\ pc[j] = "applied" /\ HoldsFence(j) => cut[j] = ckpt[jgen[j]]
  /\ pc[j] # "applied" /\ HoldsFence(j) =>
       /\ ckpt[jgen[j]] <= done[j]
       /\ Exclusive => done[j] = ckpt[jgen[j]]
  /\ slotActive = j => done[j] <= slotConfirmed \/ done[j] <= ckpt[jgen[j]]

InvJob ==
  \A j \in Job :
    /\ pc[j] \in {"snapshot", "loaded", "activating"} => Loading(j)
    /\ pc[j] \in {"resume", "prepared"} => Resumable(j)
    /\ pc[j] \in Streaming => Replicating(j)

\* What an open apply transaction is about to write; its job may be gone.
InvApply ==
  txKind = "apply" =>
    /\ ckpt[jgen[txJob]] # 0
    /\ ckpt[jgen[txJob]] <= done[txJob]
    /\ done[txJob] <= cut[txJob] /\ cut[txJob] <= srcLsn
    /\ ~HasBarrier(txJob)
    /\ Exclusive => done[txJob] = ckpt[jgen[txJob]]

InvActivate == txKind = "activate" => Loading(txJob)

\* With exclusive leases one job runs at a time ...
InvOneJob ==
  Exclusive => \A j, k \in Job : Live(j) /\ Live(k) => j = k

\* ... nobody moves the slot that a job prepared ...
InvPrepared ==
  Exclusive =>
    \A j \in Job :
      /\ pc[j] \in {"snapshot", "loaded", "activating", "prepared"}
      /\ slotState # "absent"
      => slotConfirmed <= base[j]

\* ... and the target is a prefix that stops at the first barrier.
InvPrefix == Exclusive => MirrorIsPrefix
InvBarrier == Exclusive => BarrierNotCrossed

IInv ==
  /\ TypeOK /\ InvToken /\ InvTx /\ InvLive /\ InvOrigin /\ InvSlot
  /\ InvJob /\ InvApply /\ InvActivate /\ CompletedRebuildIsLive
  /\ InvOneJob /\ InvPrepared /\ InvPrefix /\ InvBarrier

-----------------------------------------------------------------------------
(* Facts about the sets and steps that the proofs share. *)

\* A job leaves for its end without touching anything else.
GivesUp(j) ==
  /\ Live(j)
  /\ Goto(j, "stopped") \/ (pc[j] # "activating" /\ Goto(j, "rebuild"))
  /\ UNCHANGED <<srcVars, slotVars, ctlVars, tgtVars, jgen, base, cursors>>

\* The five ways in which a job gives up.
LEMMA GivesUpCases ==
  ASSUME NEW j \in Job,
         ResumeRebuild(j) \/ ResumeRefuse(j) \/ StreamBroken(j)
           \/ RetentionExceeded(j) \/ Stop(j)
  PROVE  GivesUp(j)
BY DEF GivesUp, ResumeRebuild, ResumeRefuse, StreamBroken, RetentionExceeded,
  Stop, Live, Streaming

\* Every position is a member of PC.
LEMMA PCMembers ==
  /\ "connect" \in PC /\ "fenced" \in PC /\ "initial" \in PC
  /\ "publish" \in PC /\ "snapshot" \in PC /\ "loaded" \in PC
  /\ "activating" \in PC /\ "resume" \in PC /\ "prepared" \in PC
  /\ "rebuild" \in PC /\ "stopped" \in PC /\ "idle" \in PC
  /\ "streaming" \in PC /\ "applying" \in PC /\ "committing" \in PC
  /\ "applied" \in PC
BY DEF PC, Streaming

\* The index sets are intervals of the integers.
LEMMA SetFacts ==
  /\ MaxLsn \in Nat /\ MaxToken \in Nat /\ MaxGen \in Nat
  /\ MaxLsn >= 1 /\ MaxToken >= 1 /\ MaxGen >= 1
  /\ \A n : n \in Lsn <=> n \in Int /\ 0 <= n /\ n <= MaxLsn
  /\ \A n : n \in Gen <=> n \in Int /\ 1 <= n /\ n <= MaxGen
  /\ \A n : n \in Job <=> n \in Int /\ 1 <= n /\ n <= MaxToken
BY BoundsAssumption DEF Lsn, Gen, Job

\* What the commit of an activation does, in the terms of the invariant.
LEMMA ActivateFacts ==
  ASSUME IInv, CommitActivate
  PROVE  /\ txJob \in Job /\ jgen[txJob] \in Gen /\ HoldsFence(txJob)
         /\ base[txJob] \in Nat /\ 1 <= base[txJob] /\ base[txJob] <= srcLsn
         /\ pc[txJob] \in {"activating", "stopped"}
         /\ liveGen <= jgen[txJob]
         /\ \A g \in Gen : ckpt[g] <= base[txJob]
         /\ liveGen' = jgen[txJob] /\ rows' = 1 .. base[txJob]
         /\ \A g \in Gen : ckpt'[g] = IF g = jgen[txJob] THEN base[txJob] ELSE ckpt[g]
         /\ snapLsn'[jgen[txJob]] = base[txJob]
         /\ origin'[jgen[txJob]] = txJob
<1>1. txJob \in Job /\ HoldsFence(txJob) /\ Loading(txJob)
  BY SetFacts DEF IInv, TypeOK, InvTx, InvActivate, CommitActivate, NoJob
<1>2. /\ jgen[txJob] \in Gen /\ base[txJob] \in Nat
      /\ 1 <= base[txJob] /\ base[txJob] <= srcLsn
      /\ pc[txJob] \in {"activating", "stopped"}
  BY <1>1, SetFacts DEF IInv, TypeOK, InvTx, Loading, CommitActivate
<1>3. liveGen <= jgen[txJob] /\ \A g \in Gen : ckpt[g] <= base[txJob]
  BY <1>1, <1>2, SetFacts DEF IInv, TypeOK, InvLive, Loading, HoldsFence
<1>4. /\ liveGen' = jgen[txJob] /\ rows' = 1 .. base[txJob]
      /\ \A g \in Gen : ckpt'[g] = IF g = jgen[txJob] THEN base[txJob] ELSE ckpt[g]
      /\ snapLsn'[jgen[txJob]] = base[txJob] /\ origin'[jgen[txJob]] = txJob
  BY <1>2 DEF IInv, TypeOK, CommitActivate, SnapshotRows
<1> QED BY <1>1, <1>2, <1>3, <1>4

-----------------------------------------------------------------------------
(* Every action preserves every part of the invariant. *)

\* Every step keeps the types; the commits need InvTx to know their job.
LEMMA TypeOKStep == ASSUME IInv, Next PROVE TypeOK'
<1> USE PCMembers, SetFacts DEF IInv, TypeOK, InvTx, NoJob, srcVars, ctlVars,
    slotVars, fenceVars, txVars, dataVars, tgtVars, cursors
<1>1. CASE SourceCommit
  BY <1>1 DEF SourceCommit
<1>2. CASE SourceDdl
  BY <1>2 DEF SourceDdl
<1>3. CASE InvalidateSlot
  BY <1>3 DEF InvalidateSlot
<1>4. CASE UserRebuild
  <2>1. gen' \in Gen
    BY <1>4 DEF UserRebuild, BumpGeneration
  <2>2. openOps' \subseteq Gen
    BY <1>4, <2>1 DEF UserRebuild, BumpGeneration
  <2> QED BY <2>1, <2>2, <1>4 DEF UserRebuild
<1>5. ASSUME NEW r \in Runtime, ListPipelines(r) PROVE TypeOK'
  BY <1>5 DEF ListPipelines
<1>6. ASSUME NEW r \in Runtime, StartJob(r) PROVE TypeOK'
  BY <1>6 DEF StartJob
<1>7. CASE CommitApply
  <2>1. txJob \in Job
    BY <1>7 DEF CommitApply
  <2>2. jgen[txJob] \in Gen /\ cut[txJob] \in Lsn /\ done[txJob] \in Lsn
    BY <1>7, <2>1
  <2>3. rows' \subseteq Lsn
    BY <1>7, <2>2 DEF CommitApply, Batch
  <2>4. ckpt' \in [Gen -> Lsn]
    BY <1>7, <2>2 DEF CommitApply
  <2>5. pc' \in [Job -> PC]
    BY <1>7, <2>1 DEF CommitApply, Hears
  <2> QED BY <2>1, <2>2, <2>3, <2>4, <2>5, <1>7 DEF CommitApply
<1>8. CASE CommitActivate
  <2>1. txJob \in Job
    BY <1>8 DEF CommitActivate
  <2>2. jgen[txJob] \in Gen /\ base[txJob] \in Lsn
    BY <1>8, <2>1
  <2>3. 1 .. base[txJob] \subseteq Lsn
    BY <1>8, <2>2
  <2>4. rows' \subseteq Lsn
    BY <1>8, <2>3 DEF CommitActivate, SnapshotRows
  <2>5. ckpt' \in [Gen -> Lsn] /\ snapLsn' \in [Gen -> Lsn]
    BY <1>8, <2>2 DEF CommitActivate
  <2>6. origin' \in [Gen -> 0..MaxToken] /\ liveGen' \in 0..MaxGen
    BY <1>8, <2>1, <2>2 DEF CommitActivate
  <2>7. pc' \in [Job -> PC]
    BY <1>8, <2>1 DEF CommitActivate, Hears
  <2> QED BY <2>1, <2>2, <2>3, <2>4, <2>5, <2>6, <2>7, <1>8 DEF CommitActivate
<1>9. CASE AbortTx
  BY <1>9 DEF AbortTx, Hears
<1>10. ASSUME NEW j \in Job, ActivateFence(j) PROVE TypeOK'
  <2>1. fenceGen' \in 0..MaxGen /\ fenceToken' \in 0..MaxToken
    BY <1>10 DEF ActivateFence
  <2>2. pc' \in [Job -> PC]
    BY <1>10 DEF ActivateFence, Goto
  <2> QED BY <2>1, <2>2, <1>10 DEF ActivateFence
<1>11. ASSUME NEW j \in Job, LoadCheckpoint(j) PROVE TypeOK'
  BY <1>11 DEF LoadCheckpoint, Goto
<1>12. ASSUME NEW j \in Job, DropOrphanSlot(j) PROVE TypeOK'
  BY <1>12 DEF DropOrphanSlot, DropSlot, Goto
<1>13. ASSUME NEW j \in Job, CreateSlot(j) PROVE TypeOK'
  <2>1. slotState' \in {"absent", "ready", "lost"} /\ slotConfirmed' \in Lsn
    BY <1>13 DEF CreateSlot, DropSlot
  <2>2. slotActive' \in 0..MaxToken /\ slotCreator' \in 0..MaxToken
    BY <1>13 DEF CreateSlot, DropSlot
  <2>3. srcLsn \in Lsn
    BY <1>13
  <2>4. base' \in [Job -> Lsn]
    BY <1>13, <2>3 DEF CreateSlot
  <2>5. pc' \in [Job -> PC]
    BY <1>13 DEF CreateSlot, Goto
  <2> QED BY <2>1, <2>2, <2>3, <2>4, <2>5, <1>13 DEF CreateSlot
<1>14. ASSUME NEW j \in Job, LoadShadows(j) PROVE TypeOK'
  BY <1>14 DEF LoadShadows, Goto
<1>15. ASSUME NEW j \in Job, AbandonSnapshot(j) PROVE TypeOK'
  BY <1>15 DEF AbandonSnapshot, DropSlot, Goto
<1>16. ASSUME NEW j \in Job, BeginActivate(j) PROVE TypeOK'
  BY <1>16 DEF BeginActivate, Goto
<1>17. ASSUME NEW j \in Job, ResumeAccept(j) PROVE TypeOK'
  BY <1>17 DEF ResumeAccept, Goto
<1>18. ASSUME NEW j \in Job, StartReplication(j) PROVE TypeOK'
  <2>1. StreamStart(j) \in Lsn
    BY <1>18 DEF StreamStart
  <2>2. openOps' \subseteq Gen
    BY <1>18 DEF StartReplication, OpsLeft
  <2>3. slotActive' \in 0..MaxToken
    BY <1>18 DEF StartReplication
  <2>4. done' \in [Job -> Lsn]
    BY <1>18, <2>1 DEF StartReplication
  <2>5. cut' \in [Job -> Lsn]
    BY <1>18, <2>1 DEF StartReplication
  <2>6. recv' \in [Job -> Lsn]
    BY <1>18, <2>1 DEF StartReplication
  <2>7. pc' \in [Job -> PC]
    BY <1>18 DEF StartReplication, Goto
  <2> QED BY <2>1, <2>2, <2>3, <2>4, <2>5, <2>6, <2>7, <1>18 DEF StartReplication
<1>19. ASSUME NEW j \in Job, Receive(j) PROVE TypeOK'
  <2>1. recv[j] \in Lsn /\ recv[j] + 1 \in Lsn
    BY <1>19 DEF Receive
  <2>2. cut' \in [Job -> Lsn] /\ recv' \in [Job -> Lsn]
    BY <1>19, <2>1 DEF Receive
  <2>3. pc' \in [Job -> PC]
    BY <1>19 DEF Receive, Goto
  <2> QED BY <2>1, <2>2, <2>3, <1>19 DEF Receive
<1>20. ASSUME NEW j \in Job, Flush(j) PROVE TypeOK'
  BY <1>20 DEF Flush, Goto
<1>21. ASSUME NEW j \in Job, BeginApply(j) PROVE TypeOK'
  <2>1. txJob' \in 0..MaxToken /\ txKind' \in {"none", "apply", "activate"}
    BY <1>21 DEF BeginApply
  <2>2. pc' \in [Job -> PC]
    BY <1>21 DEF BeginApply, Goto
  <2> QED BY <2>1, <2>2, <1>21 DEF BeginApply
<1>22. ASSUME NEW j \in Job, Acknowledge(j) PROVE TypeOK'
  BY <1>22 DEF Acknowledge, Goto
<1>23. ASSUME NEW j \in Job, AnswerKeepalive(j) PROVE TypeOK'
  BY <1>23 DEF AnswerKeepalive, DurableAppliedLsn
<1>24. ASSUME NEW j \in Job, RequestRebuild(j) PROVE TypeOK'
  <2>1. gen' \in Gen
    BY <1>24 DEF RequestRebuild, BumpGeneration
  <2>2. openOps' \subseteq Gen
    BY <1>24, <2>1 DEF RequestRebuild, BumpGeneration
  <2>3. pc' \in [Job -> PC]
    BY <1>24 DEF RequestRebuild, Goto
  <2> QED BY <2>1, <2>2, <2>3, <1>24 DEF RequestRebuild
<1>25. ASSUME NEW j \in Job, ReleaseSlot(j) PROVE TypeOK'
  BY <1>25 DEF ReleaseSlot
<1>26. ASSUME NEW j \in Job, GivesUp(j) PROVE TypeOK'
  BY <1>26 DEF GivesUp, Goto, Live, Streaming
<1> HIDE PCMembers, SetFacts DEF IInv, TypeOK, InvTx
<1> QED BY <1>1, <1>2, <1>3, <1>4, <1>5, <1>6, <1>7, <1>8, <1>9, <1>10, <1>11,
    <1>12, <1>13, <1>14, <1>15, <1>16, <1>17, <1>18, <1>19, <1>20, <1>21,
    <1>22, <1>23, <1>24, <1>25, <1>26, GivesUpCases
    DEF Next, Prepare, Replicate

\* A job leaves "idle" only in StartJob, which grants its token.
LEMMA InvTokenStep == ASSUME IInv, Next PROVE InvToken'
<1> USE PCMembers, SetFacts DEF IInv, InvToken, TypeOK, NoJob, srcVars,
    ctlVars, slotVars, fenceVars, txVars, dataVars, tgtVars, cursors
<1>1. ASSUME NEW r \in Runtime, StartJob(r) PROVE InvToken'
  BY <1>1 DEF StartJob
<1>2. CASE CommitApply
  BY <1>2 DEF CommitApply, Batch, Hears
<1>3. CASE CommitActivate
  BY <1>3 DEF CommitActivate, SnapshotRows, Hears
<1>4. CASE AbortTx
  BY <1>4 DEF AbortTx, Hears
<1>5. ASSUME NEW j \in Job, ActivateFence(j) PROVE InvToken'
  BY <1>5 DEF ActivateFence, Goto, FenceAdvances
<1>6. ASSUME NEW j \in Job, LoadCheckpoint(j) PROVE InvToken'
  BY <1>6 DEF LoadCheckpoint, Goto
<1>7. ASSUME NEW j \in Job, DropOrphanSlot(j) PROVE InvToken'
  BY <1>7 DEF DropOrphanSlot, DropSlot, Goto
<1>8. ASSUME NEW j \in Job, CreateSlot(j) PROVE InvToken'
  BY <1>8 DEF CreateSlot, DropSlot, Goto
<1>9. ASSUME NEW j \in Job, LoadShadows(j) PROVE InvToken'
  BY <1>9 DEF LoadShadows, Goto
<1>10. ASSUME NEW j \in Job, AbandonSnapshot(j) PROVE InvToken'
  BY <1>10 DEF AbandonSnapshot, DropSlot, Goto
<1>11. ASSUME NEW j \in Job, BeginActivate(j) PROVE InvToken'
  BY <1>11 DEF BeginActivate, Goto
<1>12. ASSUME NEW j \in Job, ResumeAccept(j) PROVE InvToken'
  BY <1>12 DEF ResumeAccept, Goto
<1>13. ASSUME NEW j \in Job, StartReplication(j) PROVE InvToken'
  BY <1>13 DEF StartReplication, OpsLeft, StreamStart, Goto
<1>14. ASSUME NEW j \in Job, Receive(j) PROVE InvToken'
  BY <1>14 DEF Receive, Goto
<1>15. ASSUME NEW j \in Job, Flush(j) PROVE InvToken'
  BY <1>15 DEF Flush, Goto
<1>16. ASSUME NEW j \in Job, BeginApply(j) PROVE InvToken'
  BY <1>16 DEF BeginApply, Goto, HasBarrier, Batch
<1>17. ASSUME NEW j \in Job, Acknowledge(j) PROVE InvToken'
  BY <1>17 DEF Acknowledge, Goto
<1>18. ASSUME NEW j \in Job, RequestRebuild(j) PROVE InvToken'
  BY <1>18 DEF RequestRebuild, BumpGeneration, Goto
<1>19. ASSUME NEW j \in Job, GivesUp(j) PROVE InvToken'
  BY <1>19 DEF GivesUp, Goto, Live, Streaming
<1>20. CASE UNCHANGED << token, pc>>
  BY <1>20
<1> HIDE PCMembers, SetFacts DEF IInv, InvToken, TypeOK
<1> QED BY <1>1, <1>2, <1>3, <1>4, <1>5, <1>6, <1>7, <1>8, <1>9, <1>10, <1>11,
    <1>12, <1>13, <1>14, <1>15, <1>16, <1>17, <1>18, <1>19, GivesUpCases,
    <1>20
    DEF Next, Prepare, Replicate, SourceCommit, SourceDdl, InvalidateSlot,
      UserRebuild, ListPipelines, AnswerKeepalive, ReleaseSlot

\* A transaction opens under the fence, and the fence waits for it.
LEMMA InvTxStep == ASSUME IInv, Next PROVE InvTx'
<1> USE PCMembers, SetFacts DEF IInv, InvTx, TypeOK, InvToken, HoldsFence,
    FenceUnlocked, Streaming, NoJob, srcVars, ctlVars, slotVars, fenceVars,
    txVars, dataVars, tgtVars, cursors
<1>1. ASSUME NEW r \in Runtime, StartJob(r) PROVE InvTx'
  BY <1>1 DEF StartJob
<1>2. CASE CommitApply
  BY <1>2 DEF CommitApply, Batch, Hears
<1>3. CASE CommitActivate
  BY <1>3 DEF CommitActivate, SnapshotRows, Hears
<1>4. CASE AbortTx
  BY <1>4 DEF AbortTx, Hears
<1>5. ASSUME NEW j \in Job, ActivateFence(j) PROVE InvTx'
  BY <1>5 DEF ActivateFence, Goto, FenceAdvances
<1>6. ASSUME NEW j \in Job, LoadCheckpoint(j) PROVE InvTx'
  BY <1>6 DEF LoadCheckpoint, Goto
<1>7. ASSUME NEW j \in Job, DropOrphanSlot(j) PROVE InvTx'
  BY <1>7 DEF DropOrphanSlot, DropSlot, Goto
<1>8. ASSUME NEW j \in Job, CreateSlot(j) PROVE InvTx'
  BY <1>8 DEF CreateSlot, DropSlot, Goto
<1>9. ASSUME NEW j \in Job, LoadShadows(j) PROVE InvTx'
  BY <1>9 DEF LoadShadows, Goto
<1>10. ASSUME NEW j \in Job, AbandonSnapshot(j) PROVE InvTx'
  BY <1>10 DEF AbandonSnapshot, DropSlot, Goto
<1>11. ASSUME NEW j \in Job, BeginActivate(j) PROVE InvTx'
  BY <1>11 DEF BeginActivate, Goto
<1>12. ASSUME NEW j \in Job, ResumeAccept(j) PROVE InvTx'
  BY <1>12 DEF ResumeAccept, Goto
<1>13. ASSUME NEW j \in Job, StartReplication(j) PROVE InvTx'
  BY <1>13 DEF StartReplication, OpsLeft, StreamStart, Goto
<1>14. ASSUME NEW j \in Job, Receive(j) PROVE InvTx'
  BY <1>14 DEF Receive, Goto
<1>15. ASSUME NEW j \in Job, Flush(j) PROVE InvTx'
  BY <1>15 DEF Flush, Goto
<1>16. ASSUME NEW j \in Job, BeginApply(j) PROVE InvTx'
  BY <1>16 DEF BeginApply, Goto, HasBarrier, Batch
<1>17. ASSUME NEW j \in Job, Acknowledge(j) PROVE InvTx'
  BY <1>17 DEF Acknowledge, Goto
<1>18. ASSUME NEW j \in Job, RequestRebuild(j) PROVE InvTx'
  BY <1>18 DEF RequestRebuild, BumpGeneration, Goto
<1>19. ASSUME NEW j \in Job, GivesUp(j) PROVE InvTx'
  BY <1>19 DEF GivesUp, Goto, Live
<1>20. CASE UNCHANGED << txJob, txKind, fenceGen, fenceToken, jgen, pc>>
  BY <1>20
<1> HIDE PCMembers, SetFacts DEF IInv, InvTx, TypeOK, InvToken, HoldsFence,
    FenceUnlocked, Streaming
<1> QED BY <1>1, <1>2, <1>3, <1>4, <1>5, <1>6, <1>7, <1>8, <1>9, <1>10, <1>11,
    <1>12, <1>13, <1>14, <1>15, <1>16, <1>17, <1>18, <1>19, GivesUpCases,
    <1>20
    DEF Next, Prepare, Replicate, SourceCommit, SourceDdl, InvalidateSlot,
      UserRebuild, ListPipelines, AnswerKeepalive, ReleaseSlot

\* Only the fence holder's commits change the live generation.
LEMMA InvLiveStep == ASSUME IInv, Next PROVE InvLive'
<1>1. CASE CommitActivate
  <2>1. UNCHANGED <<fenceGen, srcLsn>>
    BY <1>1 DEF CommitActivate, fenceVars, srcVars
  <2>2. liveGen' = fenceGen' /\ liveGen' \in Gen /\ liveGen' # 0
    BY <1>1, <2>1, ActivateFacts, SetFacts DEF HoldsFence
  <2>3. ASSUME NEW g \in Gen, ckpt'[g] # 0 PROVE g <= liveGen'
    <3>1. ckpt[g] # 0 => g <= liveGen
      BY DEF IInv, InvLive
    <3>2. liveGen \in Int /\ liveGen' \in Int /\ g \in Int
      BY <2>2, SetFacts DEF IInv, TypeOK
    <3> QED BY <1>1, <2>3, <3>1, <3>2, ActivateFacts
  <2>4. ckpt'[liveGen'] = base[txJob] /\ base[txJob] \in Nat
    BY <1>1, <2>2, ActivateFacts
  <2>5. \A g \in Gen : ckpt'[g] <= ckpt'[liveGen']
    BY <1>1, <2>4, ActivateFacts
  <2> QED BY <1>1, <2>1, <2>2, <2>3, <2>4, <2>5, ActivateFacts DEF InvLive
<1> USE PCMembers, SetFacts DEF IInv, InvLive, TypeOK, InvTx, InvApply,
    InvActivate, HoldsFence, Loading, NoJob, srcVars, ctlVars, slotVars,
    fenceVars, txVars, dataVars, tgtVars, cursors
<1>2. CASE SourceCommit
  BY <1>2 DEF SourceCommit
<1>3. CASE SourceDdl
  BY <1>3 DEF SourceDdl
<1>4. CASE CommitApply
  BY <1>4 DEF CommitApply, Batch, Hears
<1>5. ASSUME NEW j \in Job, ActivateFence(j) PROVE InvLive'
  BY <1>5 DEF ActivateFence, Goto, FenceAdvances
<1>6. CASE UNCHANGED << liveGen, fenceGen, rows, ckpt, srcLsn>>
  BY <1>6
<1> HIDE PCMembers, SetFacts DEF IInv, InvLive, TypeOK, InvTx, InvApply,
    InvActivate, HoldsFence, Loading
<1> QED BY <1>1, <1>2, <1>3, <1>4, <1>5, <1>6
    DEF Next, Prepare, Replicate, InvalidateSlot, UserRebuild, ListPipelines,
      StartJob, AbortTx, LoadCheckpoint, DropOrphanSlot, CreateSlot,
      LoadShadows, AbandonSnapshot, BeginActivate, ResumeRebuild,
      ResumeRefuse, ResumeAccept, StartReplication, Receive, Flush,
      BeginApply, Acknowledge, AnswerKeepalive, StreamBroken,
      RetentionExceeded, RequestRebuild, Stop, ReleaseSlot, Goto

\* The base of the job that activated a generation stays put.
LEMMA InvOriginStep == ASSUME IInv, Next PROVE InvOrigin'
<1>1. CASE CommitActivate
  <2>1. pc'[txJob] \in Based /\ base' = base
    BY <1>1, ActivateFacts
    DEF CommitActivate, Hears, IInv, TypeOK, Based, PC, Streaming
  <2> QED BY <1>1, <2>1, ActivateFacts, SetFacts DEF InvOrigin
<1> USE PCMembers, SetFacts DEF IInv, InvOrigin, TypeOK, InvTx, InvLive,
    InvApply, InvActivate, InvToken, HoldsFence, Based, PC, Streaming,
    Loading, NoJob, srcVars, ctlVars, slotVars, fenceVars, txVars, dataVars,
    tgtVars, cursors
<1>2. ASSUME NEW r \in Runtime, StartJob(r) PROVE InvOrigin'
  BY <1>2 DEF StartJob
<1>3. CASE CommitApply
  BY <1>3 DEF CommitApply, Batch, Hears
<1>4. CASE AbortTx
  BY <1>4 DEF AbortTx, Hears
<1>5. ASSUME NEW j \in Job, ActivateFence(j) PROVE InvOrigin'
  BY <1>5 DEF ActivateFence, Goto, FenceAdvances
<1>6. ASSUME NEW j \in Job, LoadCheckpoint(j) PROVE InvOrigin'
  BY <1>6 DEF LoadCheckpoint, Goto
<1>7. ASSUME NEW j \in Job, DropOrphanSlot(j) PROVE InvOrigin'
  BY <1>7 DEF DropOrphanSlot, DropSlot, Goto
<1>8. ASSUME NEW j \in Job, CreateSlot(j) PROVE InvOrigin'
  BY <1>8 DEF CreateSlot, DropSlot, Goto
<1>9. ASSUME NEW j \in Job, LoadShadows(j) PROVE InvOrigin'
  BY <1>9 DEF LoadShadows, Goto
<1>10. ASSUME NEW j \in Job, AbandonSnapshot(j) PROVE InvOrigin'
  BY <1>10 DEF AbandonSnapshot, DropSlot, Goto
<1>11. ASSUME NEW j \in Job, BeginActivate(j) PROVE InvOrigin'
  BY <1>11 DEF BeginActivate, Goto
<1>12. ASSUME NEW j \in Job, ResumeAccept(j) PROVE InvOrigin'
  BY <1>12 DEF ResumeAccept, Goto
<1>13. ASSUME NEW j \in Job, StartReplication(j) PROVE InvOrigin'
  BY <1>13 DEF StartReplication, OpsLeft, StreamStart, Goto
<1>14. ASSUME NEW j \in Job, Receive(j) PROVE InvOrigin'
  BY <1>14 DEF Receive, Goto
<1>15. ASSUME NEW j \in Job, Flush(j) PROVE InvOrigin'
  BY <1>15 DEF Flush, Goto
<1>16. ASSUME NEW j \in Job, BeginApply(j) PROVE InvOrigin'
  BY <1>16 DEF BeginApply, Goto, HasBarrier, Batch
<1>17. ASSUME NEW j \in Job, Acknowledge(j) PROVE InvOrigin'
  BY <1>17 DEF Acknowledge, Goto
<1>18. ASSUME NEW j \in Job, RequestRebuild(j) PROVE InvOrigin'
  BY <1>18 DEF RequestRebuild, BumpGeneration, Goto
<1>19. ASSUME NEW j \in Job, GivesUp(j) PROVE InvOrigin'
  BY <1>19 DEF GivesUp, Goto, Live
<1>20. CASE UNCHANGED << liveGen, origin, pc, base, snapLsn, ckpt>>
  BY <1>20
<1> HIDE PCMembers, SetFacts DEF IInv, InvOrigin, TypeOK, InvTx, InvLive,
    InvApply, InvActivate, InvToken, HoldsFence, Based, PC, Streaming, Loading
<1> QED BY <1>1, <1>2, <1>3, <1>4, <1>5, <1>6, <1>7, <1>8, <1>9, <1>10, <1>11,
    <1>12, <1>13, <1>14, <1>15, <1>16, <1>17, <1>18, <1>19, GivesUpCases,
    <1>20
    DEF Next, Prepare, Replicate, SourceCommit, SourceDdl, InvalidateSlot,
      UserRebuild, ListPipelines, AnswerKeepalive, ReleaseSlot

\* A slot moves on creation (its consistent point) or on a durable ACK.
LEMMA InvSlotStep == ASSUME IInv, Next PROVE InvSlot'
<1>1. CASE CommitActivate
  <2>1. UNCHANGED <<slotState, slotCreator, slotConfirmed, base, srcLsn>>
    BY <1>1 DEF CommitActivate, slotVars, srcVars
  <2>2. ASSUME NEW k \in Job, pc[k] \in Based PROVE pc'[k] \in Based
    BY <1>1, <2>2, ActivateFacts
    DEF CommitActivate, Hears, IInv, TypeOK, Based, PC, Streaming
  <2>3. liveGen # 0 => ckpt[liveGen] <= ckpt'[liveGen'] /\ liveGen' # 0
    <3>1. liveGen # 0 => liveGen \in Gen
      BY SetFacts DEF IInv, TypeOK
    <3> QED BY <1>1, <3>1, ActivateFacts, SetFacts
  <2>4. slotConfirmed \in Int /\ (liveGen # 0 => ckpt[liveGen] \in Int)
    BY SetFacts DEF IInv, TypeOK
  <2>5. ckpt'[liveGen'] \in Int
    BY <1>1, ActivateFacts
  <2> QED BY <2>1, <2>2, <2>3, <2>4, <2>5 DEF IInv, InvSlot
<1>2. ASSUME NEW j \in Job, Acknowledge(j) PROVE InvSlot'
  <2>1. UNCHANGED <<slotState, slotCreator, base, liveGen, ckpt, srcLsn>>
    BY <1>2 DEF Acknowledge, tgtVars, dataVars, srcVars
  <2>2. ASSUME NEW k \in Job, pc[k] \in Based PROVE pc'[k] \in Based
    BY <1>2, <2>2 DEF Acknowledge, Goto, IInv, TypeOK, Based, PC, Streaming
  <2>3. liveGen # 0 /\ cut[j] <= ckpt[liveGen] /\ cut[j] <= srcLsn
    <3>1. ckpt[jgen[j]] # 0 /\ cut[j] <= ckpt[jgen[j]]
      BY <1>2 DEF Acknowledge, IInv, InvJob, Replicating, Streaming
    <3>2. jgen[j] \in Gen /\ cut[j] \in Int /\ \A g \in Gen : ckpt[g] \in Int
      BY SetFacts DEF IInv, TypeOK
    <3>3. liveGen \in Int /\ 1 <= liveGen
      BY <3>1, <3>2, SetFacts DEF IInv, InvLive, TypeOK
    <3>4. cut[j] <= ckpt[liveGen] /\ ckpt[liveGen] <= srcLsn
      BY <3>1, <3>2, <3>3, SetFacts DEF IInv, InvLive, TypeOK
    <3> QED BY <3>2, <3>3, <3>4, SetFacts DEF IInv, TypeOK
  <2> QED BY <1>2, <2>1, <2>2, <2>3 DEF Acknowledge, IInv, InvSlot
<1> USE PCMembers, SetFacts DEF IInv, InvSlot, TypeOK, InvTx, InvLive, InvJob,
    InvApply, InvActivate, InvToken, HoldsFence, Based, PC, Streaming,
    Loading, Replicating, Resumable, FenceUnlocked, NoJob, srcVars, ctlVars,
    slotVars, fenceVars, txVars, dataVars, tgtVars, cursors
<1>3. CASE SourceCommit
  BY <1>3 DEF SourceCommit
<1>4. CASE SourceDdl
  BY <1>4 DEF SourceDdl
<1>5. CASE InvalidateSlot
  BY <1>5 DEF InvalidateSlot
<1>6. ASSUME NEW r \in Runtime, StartJob(r) PROVE InvSlot'
  BY <1>6 DEF StartJob
<1>7. CASE CommitApply
  BY <1>7 DEF CommitApply, Batch, Hears
<1>8. CASE AbortTx
  BY <1>8 DEF AbortTx, Hears
<1>9. ASSUME NEW j \in Job, ActivateFence(j) PROVE InvSlot'
  BY <1>9 DEF ActivateFence, Goto, FenceAdvances
<1>10. ASSUME NEW j \in Job, LoadCheckpoint(j) PROVE InvSlot'
  BY <1>10 DEF LoadCheckpoint, Goto
<1>11. ASSUME NEW j \in Job, DropOrphanSlot(j) PROVE InvSlot'
  BY <1>11 DEF DropOrphanSlot, DropSlot, Goto
<1>12. ASSUME NEW j \in Job, CreateSlot(j) PROVE InvSlot'
  BY <1>12 DEF CreateSlot, DropSlot, Goto
<1>13. ASSUME NEW j \in Job, LoadShadows(j) PROVE InvSlot'
  BY <1>13 DEF LoadShadows, Goto
<1>14. ASSUME NEW j \in Job, AbandonSnapshot(j) PROVE InvSlot'
  BY <1>14 DEF AbandonSnapshot, DropSlot, Goto
<1>15. ASSUME NEW j \in Job, BeginActivate(j) PROVE InvSlot'
  BY <1>15 DEF BeginActivate, Goto
<1>16. ASSUME NEW j \in Job, ResumeAccept(j) PROVE InvSlot'
  BY <1>16 DEF ResumeAccept, Goto
<1>17. ASSUME NEW j \in Job, StartReplication(j) PROVE InvSlot'
  BY <1>17 DEF StartReplication, OpsLeft, StreamStart, Goto
<1>18. ASSUME NEW j \in Job, Receive(j) PROVE InvSlot'
  BY <1>18 DEF Receive, Goto
<1>19. ASSUME NEW j \in Job, Flush(j) PROVE InvSlot'
  BY <1>19 DEF Flush, Goto
<1>20. ASSUME NEW j \in Job, BeginApply(j) PROVE InvSlot'
  BY <1>20 DEF BeginApply, Goto, HasBarrier, Batch
<1>21. ASSUME NEW j \in Job, AnswerKeepalive(j) PROVE InvSlot'
  BY <1>21 DEF AnswerKeepalive, DurableAppliedLsn
<1>22. ASSUME NEW j \in Job, RequestRebuild(j) PROVE InvSlot'
  BY <1>22 DEF RequestRebuild, BumpGeneration, Goto
<1>23. ASSUME NEW j \in Job, GivesUp(j) PROVE InvSlot'
  BY <1>23 DEF GivesUp, Goto, Live
<1>24. CASE UNCHANGED << slotState, slotCreator, pc, slotConfirmed, base,
       liveGen, ckpt, srcLsn>>
  BY <1>24
<1> HIDE PCMembers, SetFacts DEF IInv, InvSlot, TypeOK, InvTx, InvLive,
    InvJob, InvApply, InvActivate, InvToken, HoldsFence, Based, PC, Streaming,
    Loading, Replicating, Resumable, FenceUnlocked
<1> QED BY <1>1, <1>2, <1>3, <1>4, <1>5, <1>6, <1>7, <1>8, <1>9, <1>10, <1>11,
    <1>12, <1>13, <1>14, <1>15, <1>16, <1>17, <1>18, <1>19, <1>20, <1>21,
    <1>22, <1>23, GivesUpCases, <1>24
    DEF Next, Prepare, Replicate, UserRebuild, ListPipelines, ReleaseSlot

\* What each position of a job knows survives the steps of the others.
LEMMA InvJobStep == ASSUME IInv, Next PROVE InvJob'
<1>1. CASE CommitActivate
  <2>1. UNCHANGED <<base, srcLsn, fenceGen, fenceToken, jgen, done, cut, recv,
                    slotActive, slotConfirmed>>
    BY <1>1 DEF CommitActivate, srcVars, fenceVars, slotVars, cursors
  <2>2. ASSUME NEW k \in Job, k # txJob PROVE pc'[k] = pc[k] /\ ~HoldsFence(k)
    BY <1>1, <2>2, ActivateFacts, SetFacts
    DEF CommitActivate, Hears, IInv, TypeOK, HoldsFence
  <2>3. pc'[txJob] \in {"prepared", "stopped"}
    BY <1>1, ActivateFacts DEF CommitActivate, Hears, IInv, TypeOK
  <2>4. ASSUME NEW k \in Job, k = txJob PROVE Resumable(k)'
    BY <1>1, <2>1, <2>4, ActivateFacts DEF Resumable
  <2>5. \A g \in Gen : ckpt[g] \in Int /\ ckpt'[g] \in Int /\ ckpt[g] <= ckpt'[g]
    <3>1. \A g \in Gen : ckpt[g] \in Int
      BY SetFacts DEF IInv, TypeOK
    <3> QED BY <1>1, <3>1, ActivateFacts
  <2>6. ASSUME NEW k \in Job, k # txJob
        PROVE  /\ pc'[k] \in {"snapshot", "loaded", "activating"} => Loading(k)'
               /\ pc'[k] \in {"resume", "prepared"} => Resumable(k)'
               /\ pc'[k] \in Streaming => Replicating(k)'
    <3>1. /\ jgen[k] \in Gen /\ base[k] \in Int /\ cut[k] \in Int /\ done[k] \in Int
          /\ ckpt[jgen[k]] >= 0 /\ ~HoldsFence(k)'
      BY <2>1, <2>2, <2>6, SetFacts DEF IInv, TypeOK, HoldsFence
    <3>2. /\ pc[k] \in {"snapshot", "loaded", "activating"} => Loading(k)
          /\ pc[k] \in {"resume", "prepared"} => Resumable(k)
          /\ pc[k] \in Streaming => Replicating(k)
      BY DEF IInv, InvJob
    <3> QED BY <2>1, <2>2, <2>5, <2>6, <3>1, <3>2
          DEF Loading, Resumable, Replicating
  <2>7. ASSUME NEW k \in Job
        PROVE  /\ pc'[k] \in {"snapshot", "loaded", "activating"} => Loading(k)'
               /\ pc'[k] \in {"resume", "prepared"} => Resumable(k)'
               /\ pc'[k] \in Streaming => Replicating(k)'
    BY <2>3, <2>4, <2>6 DEF Streaming
  <2> QED BY <2>7 DEF InvJob
<1>2. ASSUME NEW j \in Job, StartReplication(j) PROVE InvJob'
  <2>1. UNCHANGED <<base, srcLsn, fenceGen, fenceToken, jgen, liveGen, ckpt, slotConfirmed>>
    BY <1>2 DEF StartReplication, srcVars, tgtVars, fenceVars, dataVars
  <2>2. ASSUME NEW k \in Job, k # j
        PROVE  /\ pc'[k] = pc[k] /\ done'[k] = done[k] /\ cut'[k] = cut[k]
               /\ recv'[k] = recv[k]
               /\ slotActive' = k => slotActive = k
    BY <1>2, <2>2 DEF StartReplication, Goto, IInv, TypeOK, cursors
  <2>3. Resumable(j) /\ (Exclusive /\ slotState # "absent" => slotConfirmed <= base[j])
    BY <1>2 DEF StartReplication, IInv, InvJob, InvPrepared
  <2>4. CASE pc'[j] = "stopped"
    BY <2>1, <2>2, <2>4 DEF IInv, InvJob, Streaming, Loading, Resumable, Replicating, HoldsFence
  <2>5. CASE pc'[j] # "stopped"
    <3>1. /\ pc'[j] = "streaming" /\ slotState = "ready"
          /\ done'[j] = StreamStart(j) /\ cut'[j] = StreamStart(j)
          /\ recv'[j] = StreamStart(j)
      BY <1>2, <2>5 DEF StartReplication, Goto, IInv, TypeOK
    <3>2. /\ base[j] \in Int /\ slotConfirmed \in Int /\ srcLsn \in Int
          /\ jgen[j] \in Gen /\ ckpt[jgen[j]] \in Int /\ liveGen \in Int
          /\ \A g \in Gen : ckpt[g] \in Int
      BY SetFacts DEF IInv, TypeOK
    <3>3. slotConfirmed <= srcLsn /\ ckpt[jgen[j]] <= srcLsn
      BY <3>1, <3>2, <2>3, SetFacts DEF IInv, InvSlot, InvLive, TypeOK, Resumable
    <3>4. Replicating(j)'
      BY <2>1, <2>3, <3>1, <3>2, <3>3 DEF Resumable, Replicating, StreamStart, HoldsFence
    <3> QED BY <2>1, <2>2, <3>1, <3>4
          DEF IInv, InvJob, Streaming, Loading, Resumable, Replicating, HoldsFence
  <2> QED BY <2>4, <2>5
<1> USE PCMembers, SetFacts DEF IInv, InvJob, TypeOK, InvTx, InvLive, InvSlot,
    InvApply, InvActivate, InvToken, InvPrepared, InvOneJob, HoldsFence,
    Streaming, Loading, Replicating, Resumable, FenceUnlocked, NoJob, srcVars,
    ctlVars, slotVars, fenceVars, txVars, dataVars, tgtVars, cursors
<1>3. CASE SourceCommit
  BY <1>3 DEF SourceCommit
<1>4. CASE SourceDdl
  BY <1>4 DEF SourceDdl
<1>5. CASE InvalidateSlot
  BY <1>5 DEF InvalidateSlot
<1>6. ASSUME NEW r \in Runtime, StartJob(r) PROVE InvJob'
  BY <1>6 DEF StartJob
<1>7. CASE CommitApply
  BY <1>7 DEF CommitApply, Batch, Hears
<1>8. CASE AbortTx
  BY <1>8 DEF AbortTx, Hears
<1>9. ASSUME NEW j \in Job, ActivateFence(j) PROVE InvJob'
  BY <1>9 DEF ActivateFence, Goto, FenceAdvances
<1>10. ASSUME NEW j \in Job, LoadCheckpoint(j) PROVE InvJob'
  BY <1>10 DEF LoadCheckpoint, Goto
<1>11. ASSUME NEW j \in Job, DropOrphanSlot(j) PROVE InvJob'
  BY <1>11 DEF DropOrphanSlot, DropSlot, Goto
<1>12. ASSUME NEW j \in Job, CreateSlot(j) PROVE InvJob'
  BY <1>12 DEF CreateSlot, DropSlot, Goto
<1>13. ASSUME NEW j \in Job, LoadShadows(j) PROVE InvJob'
  BY <1>13 DEF LoadShadows, Goto
<1>14. ASSUME NEW j \in Job, AbandonSnapshot(j) PROVE InvJob'
  BY <1>14 DEF AbandonSnapshot, DropSlot, Goto
<1>15. ASSUME NEW j \in Job, BeginActivate(j) PROVE InvJob'
  BY <1>15 DEF BeginActivate, Goto
<1>16. ASSUME NEW j \in Job, ResumeAccept(j) PROVE InvJob'
  BY <1>16 DEF ResumeAccept, Goto
<1>17. ASSUME NEW j \in Job, Receive(j) PROVE InvJob'
  BY <1>17 DEF Receive, Goto
<1>18. ASSUME NEW j \in Job, Flush(j) PROVE InvJob'
  BY <1>18 DEF Flush, Goto
<1>19. ASSUME NEW j \in Job, BeginApply(j) PROVE InvJob'
  BY <1>19 DEF BeginApply, Goto, HasBarrier, Batch
<1>20. ASSUME NEW j \in Job, Acknowledge(j) PROVE InvJob'
  BY <1>20 DEF Acknowledge, Goto
<1>21. ASSUME NEW j \in Job, AnswerKeepalive(j) PROVE InvJob'
  BY <1>21 DEF AnswerKeepalive, DurableAppliedLsn
<1>22. ASSUME NEW j \in Job, RequestRebuild(j) PROVE InvJob'
  BY <1>22 DEF RequestRebuild, BumpGeneration, Goto
<1>23. ASSUME NEW j \in Job, ReleaseSlot(j) PROVE InvJob'
  BY <1>23 DEF ReleaseSlot
<1>24. ASSUME NEW j \in Job, GivesUp(j) PROVE InvJob'
  BY <1>24 DEF GivesUp, Goto, Live
<1>25. CASE UNCHANGED << pc, base, srcLsn, fenceGen, fenceToken, jgen,
       liveGen, ckpt, done, cut, recv, slotActive, slotConfirmed>>
  BY <1>25
<1> HIDE PCMembers, SetFacts DEF IInv, InvJob, TypeOK, InvTx, InvLive,
    InvSlot, InvApply, InvActivate, InvToken, InvPrepared, InvOneJob,
    HoldsFence, Streaming, Loading, Replicating, Resumable, FenceUnlocked
<1> QED BY <1>1, <1>2, <1>3, <1>4, <1>5, <1>6, <1>7, <1>8, <1>9, <1>10, <1>11,
    <1>12, <1>13, <1>14, <1>15, <1>16, <1>17, <1>18, <1>19, <1>20, <1>21,
    <1>22, <1>23, <1>24, GivesUpCases, <1>25
    DEF Next, Prepare, Replicate, UserRebuild, ListPipelines

\* What an open apply transaction will write is frozen with its job.
LEMMA InvApplyStep == ASSUME IInv, Next PROVE InvApply'
<1>1. ASSUME NEW r \in Runtime, StartJob(r) PROVE InvApply'
  <2>1. UNCHANGED <<txKind, txJob, ckpt, done, cut, srcLsn, barriers>>
    BY <1>1 DEF StartJob, srcVars, tgtVars, txVars, dataVars, cursors
  <2>2. txKind = "apply" => jgen'[txJob] = jgen[txJob]
    BY <1>1, SetFacts DEF StartJob, IInv, TypeOK, InvTx, InvToken, NoJob
  <2> QED BY <2>1, <2>2 DEF IInv, InvApply, HasBarrier, Batch
<1>2. ASSUME NEW j \in Job, StartReplication(j) PROVE InvApply'
  <2>1. UNCHANGED <<txKind, txJob, ckpt, jgen, srcLsn, barriers>>
    BY <1>2 DEF StartReplication, srcVars, tgtVars, txVars, dataVars
  <2>2. txKind = "apply" => txJob \in Job /\ txJob # j
    BY <1>2, SetFacts DEF StartReplication, IInv, TypeOK, InvTx, NoJob
  <2>3. txKind = "apply" => done'[txJob] = done[txJob] /\ cut'[txJob] = cut[txJob]
    BY <1>2, <2>2 DEF StartReplication, cursors, IInv, TypeOK
  <2> QED BY <2>1, <2>3 DEF IInv, InvApply, HasBarrier, Batch
<1> USE PCMembers, SetFacts DEF IInv, InvApply, TypeOK, InvToken, InvTx,
    InvLive, InvJob, HoldsFence, Streaming, Replicating, HasBarrier, Batch,
    FenceUnlocked, NoJob, srcVars, ctlVars, slotVars, fenceVars, txVars,
    dataVars, tgtVars, cursors
<1>3. CASE SourceCommit
  BY <1>3 DEF SourceCommit
<1>4. CASE SourceDdl
  BY <1>4 DEF SourceDdl
<1>5. CASE CommitApply
  BY <1>5 DEF CommitApply, Hears
<1>6. CASE CommitActivate
  BY <1>6 DEF CommitActivate, SnapshotRows, Hears
<1>7. CASE AbortTx
  BY <1>7 DEF AbortTx, Hears
<1>8. ASSUME NEW j \in Job, BeginActivate(j) PROVE InvApply'
  BY <1>8 DEF BeginActivate, Goto
<1>9. ASSUME NEW j \in Job, Receive(j) PROVE InvApply'
  BY <1>9 DEF Receive, Goto
<1>10. ASSUME NEW j \in Job, Flush(j) PROVE InvApply'
  BY <1>10 DEF Flush, Goto
<1>11. ASSUME NEW j \in Job, BeginApply(j) PROVE InvApply'
  BY <1>11 DEF BeginApply, Goto
<1>12. ASSUME NEW j \in Job, Acknowledge(j) PROVE InvApply'
  BY <1>12 DEF Acknowledge, Goto
<1>13. CASE UNCHANGED << txKind, txJob, ckpt, jgen, done, cut, srcLsn,
       barriers>>
  BY <1>13
<1> HIDE PCMembers, SetFacts DEF IInv, InvApply, TypeOK, InvToken, InvTx,
    InvLive, InvJob, HoldsFence, Streaming, Replicating, HasBarrier, Batch,
    FenceUnlocked
<1> QED BY <1>1, <1>2, <1>3, <1>4, <1>5, <1>6, <1>7, <1>8, <1>9, <1>10, <1>11,
    <1>12, <1>13
    DEF Next, Prepare, Replicate, InvalidateSlot, UserRebuild, ListPipelines,
      ActivateFence, LoadCheckpoint, DropOrphanSlot, CreateSlot, LoadShadows,
      AbandonSnapshot, ResumeRebuild, ResumeRefuse, ResumeAccept,
      AnswerKeepalive, StreamBroken, RetentionExceeded, RequestRebuild, Stop,
      ReleaseSlot, Goto

\* What an open activation will write is frozen with its job.
LEMMA InvActivateStep == ASSUME IInv, Next PROVE InvActivate'
<1> USE PCMembers, SetFacts DEF IInv, InvActivate, TypeOK, InvTx, InvLive,
    InvJob, HoldsFence, Loading, FenceUnlocked, NoJob, srcVars, ctlVars,
    slotVars, fenceVars, txVars, dataVars, tgtVars, cursors
<1>1. CASE SourceCommit
  BY <1>1 DEF SourceCommit
<1>2. CASE SourceDdl
  BY <1>2 DEF SourceDdl
<1>3. ASSUME NEW r \in Runtime, StartJob(r) PROVE InvActivate'
  BY <1>3 DEF StartJob
<1>4. CASE CommitApply
  BY <1>4 DEF CommitApply, Batch, Hears
<1>5. CASE CommitActivate
  BY <1>5 DEF CommitActivate, SnapshotRows, Hears
<1>6. CASE AbortTx
  BY <1>6 DEF AbortTx, Hears
<1>7. ASSUME NEW j \in Job, ActivateFence(j) PROVE InvActivate'
  BY <1>7 DEF ActivateFence, Goto, FenceAdvances
<1>8. ASSUME NEW j \in Job, LoadCheckpoint(j) PROVE InvActivate'
  BY <1>8 DEF LoadCheckpoint, Goto
<1>9. ASSUME NEW j \in Job, CreateSlot(j) PROVE InvActivate'
  BY <1>9 DEF CreateSlot, DropSlot, Goto
<1>10. ASSUME NEW j \in Job, BeginActivate(j) PROVE InvActivate'
  BY <1>10 DEF BeginActivate, Goto
<1>11. ASSUME NEW j \in Job, BeginApply(j) PROVE InvActivate'
  BY <1>11 DEF BeginApply, Goto, HasBarrier, Batch
<1>12. CASE UNCHANGED << txKind, txJob, base, srcLsn, fenceGen, fenceToken,
       liveGen, ckpt, jgen>>
  BY <1>12
<1> HIDE PCMembers, SetFacts DEF IInv, InvActivate, TypeOK, InvTx, InvLive,
    InvJob, HoldsFence, Loading, FenceUnlocked
<1> QED BY <1>1, <1>2, <1>3, <1>4, <1>5, <1>6, <1>7, <1>8, <1>9, <1>10, <1>11,
    <1>12
    DEF Next, Prepare, Replicate, InvalidateSlot, UserRebuild, ListPipelines,
      DropOrphanSlot, LoadShadows, AbandonSnapshot, ResumeRebuild,
      ResumeRefuse, ResumeAccept, StartReplication, Receive, Flush,
      Acknowledge, AnswerKeepalive, StreamBroken, RetentionExceeded,
      RequestRebuild, Stop, ReleaseSlot, Goto

\* Operations are completed by a job whose generation has a checkpoint.
LEMMA CompletedRebuildIsLiveStep == ASSUME IInv, Next PROVE CompletedRebuildIsLive'
<1> USE PCMembers, SetFacts DEF IInv, CompletedRebuildIsLive, TypeOK, InvTx,
    InvLive, InvJob, HoldsFence, Resumable, NoJob, srcVars, ctlVars, slotVars,
    fenceVars, txVars, dataVars, tgtVars, cursors
<1>1. CASE UserRebuild
  BY <1>1 DEF UserRebuild, BumpGeneration
<1>2. CASE CommitActivate
  BY <1>2 DEF CommitActivate, SnapshotRows, Hears
<1>3. ASSUME NEW j \in Job, StartReplication(j) PROVE CompletedRebuildIsLive'
  BY <1>3 DEF StartReplication, OpsLeft, StreamStart, Goto
<1>4. ASSUME NEW j \in Job, RequestRebuild(j) PROVE CompletedRebuildIsLive'
  BY <1>4 DEF RequestRebuild, BumpGeneration, Goto
<1>5. CASE UNCHANGED << gen, openOps, liveGen>>
  BY <1>5
<1> HIDE PCMembers, SetFacts DEF IInv, CompletedRebuildIsLive, TypeOK, InvTx,
    InvLive, InvJob, HoldsFence, Resumable
<1> QED BY <1>1, <1>2, <1>3, <1>4, <1>5
    DEF Next, Prepare, Replicate, SourceCommit, SourceDdl, InvalidateSlot,
      ListPipelines, StartJob, CommitApply, AbortTx, ActivateFence,
      LoadCheckpoint, DropOrphanSlot, CreateSlot, LoadShadows,
      AbandonSnapshot, BeginActivate, ResumeRebuild, ResumeRefuse,
      ResumeAccept, Receive, Flush, BeginApply, Acknowledge, AnswerKeepalive,
      StreamBroken, RetentionExceeded, Stop, ReleaseSlot, Goto

\* StartJob waits for the previous job under exclusive leases.
LEMMA InvOneJobStep == ASSUME IInv, Next PROVE InvOneJob'
<1> USE PCMembers, SetFacts DEF IInv, InvOneJob, TypeOK, InvTx, Live, NoJob,
    srcVars, ctlVars, slotVars, fenceVars, txVars, dataVars, tgtVars, cursors
<1>1. ASSUME NEW r \in Runtime, StartJob(r) PROVE InvOneJob'
  BY <1>1 DEF StartJob
<1>2. CASE CommitApply
  BY <1>2 DEF CommitApply, Batch, Hears
<1>3. CASE CommitActivate
  BY <1>3 DEF CommitActivate, SnapshotRows, Hears
<1>4. CASE AbortTx
  BY <1>4 DEF AbortTx, Hears
<1>5. ASSUME NEW j \in Job, ActivateFence(j) PROVE InvOneJob'
  BY <1>5 DEF ActivateFence, Goto, FenceAdvances
<1>6. ASSUME NEW j \in Job, LoadCheckpoint(j) PROVE InvOneJob'
  BY <1>6 DEF LoadCheckpoint, Goto
<1>7. ASSUME NEW j \in Job, DropOrphanSlot(j) PROVE InvOneJob'
  BY <1>7 DEF DropOrphanSlot, DropSlot, Goto
<1>8. ASSUME NEW j \in Job, CreateSlot(j) PROVE InvOneJob'
  BY <1>8 DEF CreateSlot, DropSlot, Goto
<1>9. ASSUME NEW j \in Job, LoadShadows(j) PROVE InvOneJob'
  BY <1>9 DEF LoadShadows, Goto
<1>10. ASSUME NEW j \in Job, AbandonSnapshot(j) PROVE InvOneJob'
  BY <1>10 DEF AbandonSnapshot, DropSlot, Goto
<1>11. ASSUME NEW j \in Job, BeginActivate(j) PROVE InvOneJob'
  BY <1>11 DEF BeginActivate, Goto
<1>12. ASSUME NEW j \in Job, ResumeAccept(j) PROVE InvOneJob'
  BY <1>12 DEF ResumeAccept, Goto
<1>13. ASSUME NEW j \in Job, StartReplication(j) PROVE InvOneJob'
  BY <1>13 DEF StartReplication, OpsLeft, StreamStart, Goto
<1>14. ASSUME NEW j \in Job, Receive(j) PROVE InvOneJob'
  BY <1>14 DEF Receive, Goto
<1>15. ASSUME NEW j \in Job, Flush(j) PROVE InvOneJob'
  BY <1>15 DEF Flush, Goto
<1>16. ASSUME NEW j \in Job, BeginApply(j) PROVE InvOneJob'
  BY <1>16 DEF BeginApply, Goto, HasBarrier, Batch
<1>17. ASSUME NEW j \in Job, Acknowledge(j) PROVE InvOneJob'
  BY <1>17 DEF Acknowledge, Goto
<1>18. ASSUME NEW j \in Job, RequestRebuild(j) PROVE InvOneJob'
  BY <1>18 DEF RequestRebuild, BumpGeneration, Goto
<1>19. ASSUME NEW j \in Job, GivesUp(j) PROVE InvOneJob'
  BY <1>19 DEF GivesUp, Goto, Live, Streaming
<1>20. CASE UNCHANGED << pc, token>>
  BY <1>20
<1> HIDE PCMembers, SetFacts DEF IInv, InvOneJob, TypeOK, InvTx, Live
<1> QED BY <1>1, <1>2, <1>3, <1>4, <1>5, <1>6, <1>7, <1>8, <1>9, <1>10, <1>11,
    <1>12, <1>13, <1>14, <1>15, <1>16, <1>17, <1>18, <1>19, GivesUpCases,
    <1>20
    DEF Next, Prepare, Replicate, SourceCommit, SourceDdl, InvalidateSlot,
      UserRebuild, ListPipelines, AnswerKeepalive, ReleaseSlot

\* Alone, a job keeps the slot where it prepared it.
LEMMA InvPreparedStep == ASSUME IInv, Next PROVE InvPrepared'
<1>1. ASSUME NEW j \in Job, CreateSlot(j) PROVE InvPrepared'
  <2>1. CASE Exclusive
    <3>1. \A k \in Job : k # j => pc[k] \in {"idle", "stopped"}
      BY <1>1, <2>1 DEF CreateSlot, IInv, InvOneJob, Live
    <3>2. \A k \in Job : k # j => pc'[k] \in {"idle", "stopped"}
      BY <1>1, <3>1 DEF CreateSlot, Goto, IInv, TypeOK
    <3>3. pc'[j] = "stopped" \/ (slotConfirmed' = base'[j] /\ base'[j] \in Int)
      BY <1>1, SetFacts DEF CreateSlot, Goto, IInv, TypeOK
    <3> QED BY <3>2, <3>3 DEF InvPrepared
  <2> QED BY <2>1 DEF InvPrepared
<1> USE PCMembers, SetFacts DEF IInv, InvPrepared, TypeOK, InvOneJob, InvJob,
    InvTx, InvLive, InvSlot, InvActivate, Live, Streaming, Loading, Resumable,
    Replicating, HoldsFence, SlotContinuityLost, NoJob, srcVars, ctlVars,
    slotVars, fenceVars, txVars, dataVars, tgtVars, cursors
<1>2. CASE InvalidateSlot
  BY <1>2 DEF InvalidateSlot
<1>3. ASSUME NEW r \in Runtime, StartJob(r) PROVE InvPrepared'
  BY <1>3 DEF StartJob
<1>4. CASE CommitApply
  BY <1>4 DEF CommitApply, Batch, Hears
<1>5. CASE CommitActivate
  BY <1>5 DEF CommitActivate, SnapshotRows, Hears
<1>6. CASE AbortTx
  BY <1>6 DEF AbortTx, Hears
<1>7. ASSUME NEW j \in Job, ActivateFence(j) PROVE InvPrepared'
  BY <1>7 DEF ActivateFence, Goto, FenceAdvances
<1>8. ASSUME NEW j \in Job, LoadCheckpoint(j) PROVE InvPrepared'
  BY <1>8 DEF LoadCheckpoint, Goto
<1>9. ASSUME NEW j \in Job, DropOrphanSlot(j) PROVE InvPrepared'
  BY <1>9 DEF DropOrphanSlot, DropSlot, Goto
<1>10. ASSUME NEW j \in Job, LoadShadows(j) PROVE InvPrepared'
  BY <1>10 DEF LoadShadows, Goto
<1>11. ASSUME NEW j \in Job, AbandonSnapshot(j) PROVE InvPrepared'
  BY <1>11 DEF AbandonSnapshot, DropSlot, Goto
<1>12. ASSUME NEW j \in Job, BeginActivate(j) PROVE InvPrepared'
  BY <1>12 DEF BeginActivate, Goto
<1>13. ASSUME NEW j \in Job, ResumeAccept(j) PROVE InvPrepared'
  BY <1>13 DEF ResumeAccept, Goto
<1>14. ASSUME NEW j \in Job, StartReplication(j) PROVE InvPrepared'
  BY <1>14 DEF StartReplication, OpsLeft, StreamStart, Goto
<1>15. ASSUME NEW j \in Job, Receive(j) PROVE InvPrepared'
  BY <1>15 DEF Receive, Goto
<1>16. ASSUME NEW j \in Job, Flush(j) PROVE InvPrepared'
  BY <1>16 DEF Flush, Goto
<1>17. ASSUME NEW j \in Job, BeginApply(j) PROVE InvPrepared'
  BY <1>17 DEF BeginApply, Goto, HasBarrier, Batch
<1>18. ASSUME NEW j \in Job, Acknowledge(j) PROVE InvPrepared'
  BY <1>18 DEF Acknowledge, Goto
<1>19. ASSUME NEW j \in Job, AnswerKeepalive(j) PROVE InvPrepared'
  BY <1>19 DEF AnswerKeepalive, DurableAppliedLsn
<1>20. ASSUME NEW j \in Job, RequestRebuild(j) PROVE InvPrepared'
  BY <1>20 DEF RequestRebuild, BumpGeneration, Goto
<1>21. ASSUME NEW j \in Job, GivesUp(j) PROVE InvPrepared'
  BY <1>21 DEF GivesUp, Goto, Live
<1>22. CASE UNCHANGED << pc, slotState, slotConfirmed, base>>
  BY <1>22
<1> HIDE PCMembers, SetFacts DEF IInv, InvPrepared, TypeOK, InvOneJob, InvJob,
    InvTx, InvLive, InvSlot, InvActivate, Live, Streaming, Loading, Resumable,
    Replicating, HoldsFence, SlotContinuityLost
<1> QED BY <1>1, <1>2, <1>3, <1>4, <1>5, <1>6, <1>7, <1>8, <1>9, <1>10, <1>11,
    <1>12, <1>13, <1>14, <1>15, <1>16, <1>17, <1>18, <1>19, <1>20, <1>21,
    GivesUpCases, <1>22
    DEF Next, Prepare, Replicate, SourceCommit, SourceDdl, UserRebuild,
      ListPipelines, ReleaseSlot

\* A commit appends exactly the next transactions to the prefix.
LEMMA InvPrefixStep == ASSUME IInv, Next PROVE InvPrefix'
<1>1. CASE CommitApply
  <2>1. UNCHANGED liveGen
    BY <1>1 DEF CommitApply
  <2>2. CASE Exclusive /\ liveGen # 0
    <3>1. /\ txJob \in Job /\ jgen[txJob] \in Gen
          /\ cut[txJob] \in Nat /\ done[txJob] \in Nat /\ ckpt[liveGen] \in Nat
      BY <1>1, <2>2, SetFacts DEF CommitApply, CheckAdvance, IInv, TypeOK, InvTx, NoJob
    <3>2. jgen[txJob] = liveGen
      BY <1>1, <2>2, <3>1, SetFacts
      DEF CommitApply, IInv, TypeOK, InvTx, InvApply, InvLive, HoldsFence, NoJob
    <3>3. /\ done[txJob] = ckpt[liveGen] /\ done[txJob] <= cut[txJob]
          /\ rows = 1 .. ckpt[liveGen]
      BY <1>1, <2>2, <3>2
      DEF CommitApply, IInv, InvApply, InvPrefix, MirrorIsPrefix
    <3>4. ckpt'[liveGen] = cut[txJob]
      BY <1>1, <3>1, <3>2 DEF CommitApply, IInv, TypeOK
    <3>5. rows' = (1 .. done[txJob]) \cup ((done[txJob] + 1) .. cut[txJob])
      BY <1>1, <3>3 DEF CommitApply, Batch
    <3> QED BY <2>1, <3>1, <3>3, <3>4, <3>5 DEF InvPrefix, MirrorIsPrefix
  <2> QED BY <2>1, <2>2 DEF InvPrefix, MirrorIsPrefix
<1> USE PCMembers, SetFacts DEF IInv, InvPrefix, TypeOK, InvTx, InvLive,
    InvApply, MirrorIsPrefix, NoJob, srcVars, ctlVars, slotVars, fenceVars,
    txVars, dataVars, tgtVars, cursors
<1>2. CASE CommitActivate
  BY <1>2 DEF CommitActivate, SnapshotRows, Hears
<1>3. CASE UNCHANGED << liveGen, rows, ckpt>>
  BY <1>3
<1> HIDE PCMembers, SetFacts DEF IInv, InvPrefix, TypeOK, InvTx, InvLive,
    InvApply, MirrorIsPrefix
<1> QED BY <1>1, <1>2, <1>3
    DEF Next, Prepare, Replicate, SourceCommit, SourceDdl, InvalidateSlot,
      UserRebuild, ListPipelines, StartJob, AbortTx, ActivateFence,
      LoadCheckpoint, DropOrphanSlot, CreateSlot, LoadShadows,
      AbandonSnapshot, BeginActivate, ResumeRebuild, ResumeRefuse,
      ResumeAccept, StartReplication, Receive, Flush, BeginApply, Acknowledge,
      AnswerKeepalive, StreamBroken, RetentionExceeded, RequestRebuild, Stop,
      ReleaseSlot, Goto

\* An applied batch has no barrier; a new snapshot starts past it.
LEMMA InvBarrierStep == ASSUME IInv, Next PROVE InvBarrier'
<1>1. CASE CommitActivate
  <2>1. ckpt'[liveGen'] = snapLsn'[liveGen'] /\ ckpt'[liveGen'] \in Int
    BY <1>1, ActivateFacts
  <2> QED BY <1>1, <2>1, SetFacts
    DEF CommitActivate, srcVars, IInv, TypeOK, InvBarrier, BarrierNotCrossed
<1> USE PCMembers, SetFacts DEF IInv, InvBarrier, TypeOK, InvTx, InvLive,
    InvOrigin, InvApply, BarrierNotCrossed, HasBarrier, Batch, NoJob, srcVars,
    ctlVars, slotVars, fenceVars, txVars, dataVars, tgtVars, cursors
<1>2. CASE SourceDdl
  BY <1>2 DEF SourceDdl
<1>3. CASE CommitApply
  BY <1>3 DEF CommitApply, Hears
<1>4. CASE UNCHANGED << liveGen, barriers, snapLsn, ckpt>>
  BY <1>4
<1> HIDE PCMembers, SetFacts DEF IInv, InvBarrier, TypeOK, InvTx, InvLive,
    InvOrigin, InvApply, BarrierNotCrossed, HasBarrier, Batch
<1> QED BY <1>1, <1>2, <1>3, <1>4
    DEF Next, Prepare, Replicate, SourceCommit, InvalidateSlot, UserRebuild,
      ListPipelines, StartJob, AbortTx, ActivateFence, LoadCheckpoint,
      DropOrphanSlot, CreateSlot, LoadShadows, AbandonSnapshot, BeginActivate,
      ResumeRebuild, ResumeRefuse, ResumeAccept, StartReplication, Receive,
      Flush, BeginApply, Acknowledge, AnswerKeepalive, StreamBroken,
      RetentionExceeded, RequestRebuild, Stop, ReleaseSlot, Goto

-----------------------------------------------------------------------------
(* The invariant is inductive. *)

\* The invariant holds initially.
LEMMA IInvInit == Init => IInv
<1> SUFFICES ASSUME Init PROVE IInv
  OBVIOUS
<1>1. TypeOK
  BY PCMembers, SetFacts DEF Init, TypeOK, NoJob
<1>2. InvToken /\ InvTx /\ InvLive /\ InvOrigin /\ InvSlot /\ InvApply /\ InvActivate
  BY SetFacts DEF Init, InvToken, InvTx, InvLive, InvOrigin, InvSlot, InvApply,
    InvActivate, NoJob
<1>3. InvJob /\ CompletedRebuildIsLive
  BY SetFacts DEF Init, InvJob, CompletedRebuildIsLive, Streaming
<1>4. InvOneJob /\ InvPrepared /\ InvPrefix /\ InvBarrier
  BY SetFacts DEF Init, InvOneJob, InvPrepared, InvPrefix, InvBarrier, Live,
    MirrorIsPrefix, BarrierNotCrossed
<1> QED BY <1>1, <1>2, <1>3, <1>4 DEF IInv

\* Every step preserves the invariant.
LEMMA IInvNext == IInv /\ [Next]_vars => IInv'
<1>1. ASSUME IInv, Next PROVE IInv'
  BY <1>1, TypeOKStep, InvTokenStep, InvTxStep, InvLiveStep, InvOriginStep,
    InvSlotStep, InvJobStep, InvApplyStep, InvActivateStep,
    CompletedRebuildIsLiveStep, InvOneJobStep, InvPreparedStep, InvPrefixStep,
    InvBarrierStep
  DEF IInv
<1>2. ASSUME IInv, UNCHANGED vars PROVE IInv'
  <2>1. /\ UNCHANGED <<srcLsn, barriers, slotState, slotConfirmed, slotActive,
                       slotCreator, gen, openOps, listed, token>>
        /\ UNCHANGED <<fenceGen, fenceToken, txJob, txKind, ckpt, rows, liveGen,
                       snapLsn, origin, pc, jgen, base, done, cut, recv>>
    BY <1>2 DEF vars, srcVars, ctlVars, slotVars, fenceVars, txVars, dataVars,
      tgtVars, cursors
  <2>2. TypeOK' /\ InvToken' /\ InvTx' /\ InvLive' /\ InvOrigin' /\ InvSlot'
    BY <1>2, <2>1 DEF IInv, TypeOK, InvToken, InvTx, InvLive, InvOrigin, InvSlot,
      HoldsFence
  <2>3. InvJob' /\ InvApply' /\ InvActivate'
    BY <1>2, <2>1 DEF IInv, InvJob, InvApply, InvActivate, Loading, Resumable,
      Replicating, HoldsFence, HasBarrier, Batch
  <2>4. CompletedRebuildIsLive' /\ InvOneJob' /\ InvPrepared' /\ InvPrefix' /\ InvBarrier'
    BY <1>2, <2>1 DEF IInv, CompletedRebuildIsLive, InvOneJob, InvPrepared,
      InvPrefix, InvBarrier, Live, MirrorIsPrefix, BarrierNotCrossed
  <2> QED BY <2>2, <2>3, <2>4 DEF IInv
<1> QED BY <1>1, <1>2

\* The invariant holds in every reachable state.
LEMMA IInvAlways == Spec => []IInv
BY IInvInit, IInvNext, PTL DEF Spec

-----------------------------------------------------------------------------
(* The theorems. *)

\* The variables of Replication keep their types: every action of the source,
\* the control database, the target and the jobs is type correct.
THEOREM TypeCorrect == Spec => []TypeOK
<1>1. IInv => TypeOK
  BY DEF IInv
<1> QED BY <1>1, IInvAlways, PTL

\* The slot the active generation reads from is never acknowledged past the
\* durable checkpoint (pgoutput acknowledge, keepalive replies), for any number
\* of overlapping owners.
THEOREM AckedIsDurableAlways == Spec => []AckedIsDurable
<1>1. IInv => AckedIsDurable
  <2> SUFFICES ASSUME IInv, liveGen # 0, slotState # "absent",
                      slotCreator = origin[liveGen]
               PROVE  slotConfirmed <= ckpt[liveGen]
    BY DEF AckedIsDurable
  <2>1. liveGen \in Gen /\ slotCreator \in Job
    BY SetFacts DEF IInv, TypeOK, InvSlot
  <2>2. /\ slotConfirmed \in Int /\ base[slotCreator] \in Int
        /\ ckpt[liveGen] \in Int /\ snapLsn[liveGen] \in Int
    BY <2>1, SetFacts DEF IInv, TypeOK
  <2> QED BY <2>2 DEF IInv, InvSlot, InvOrigin
<1> QED BY <1>1, IInvAlways, PTL

\* A live generation has a row in the checkpoint table.
LEMMA LiveTyped ==
  ASSUME IInv, liveGen # 0
  PROVE  liveGen \in Gen /\ liveGen \in Int /\ ckpt[liveGen] \in Int
<1>1. liveGen \in 0..MaxGen /\ ckpt \in [Gen -> Lsn]
  BY DEF IInv, TypeOK
<1>2. liveGen \in Gen
  BY <1>1, SetFacts
<1> QED BY <1>1, <1>2, SetFacts

\* The open apply transaction belongs to the live generation.
LEMMA ApplyIsLive ==
  ASSUME IInv, txKind = "apply"
  PROVE  /\ txJob \in Job /\ liveGen \in Gen /\ jgen[txJob] = liveGen
         /\ done[txJob] \in Nat /\ cut[txJob] \in Nat /\ ckpt[liveGen] \in Nat
<1>1. txJob \in Job
  BY SetFacts DEF IInv, TypeOK, InvTx, NoJob
<1>2. /\ jgen[txJob] \in Gen /\ done[txJob] \in Nat /\ cut[txJob] \in Nat
      /\ \A g \in Gen : g \in Int /\ g >= 1 /\ ckpt[g] \in Nat
      /\ liveGen \in Int /\ fenceGen \in Int
  BY <1>1, SetFacts DEF IInv, TypeOK
<1>3. fenceGen = jgen[txJob] /\ ckpt[jgen[txJob]] # 0
  BY <1>1, SetFacts DEF IInv, InvTx, InvApply, HoldsFence, NoJob
<1> QED BY <1>1, <1>2, <1>3 DEF IInv, InvLive

\* A batch in an open apply transaction holds nothing that the target already
\* has: a lost answer, a lost acknowledgement or a restart never leads
\* execute_apply to apply a committed batch again.
THEOREM AppliedOnceAlways == Spec => []AppliedOnce
<1>1. IInv => AppliedOnce
  <2> SUFFICES ASSUME IInv, txKind = "apply" PROVE Batch(txJob) \cap rows = {}
    BY DEF AppliedOnce
  <2>1. rows \subseteq 1 .. ckpt[liveGen] /\ ckpt[liveGen] <= done[txJob]
    BY ApplyIsLive, SetFacts DEF IInv, InvLive, InvApply
  <2> QED BY <2>1, ApplyIsLive DEF Batch
<1> QED BY <1>1, IInvAlways, PTL

\* A rebuild operation is completed only when a snapshot of its generation or
\* of a later one is live (complete_pipeline_rebuilds).
THEOREM CompletedRebuildAlways == Spec => []CompletedRebuildIsLive
<1>1. IInv => CompletedRebuildIsLive
  BY DEF IInv
<1> QED BY <1>1, IInvAlways, PTL

\* Rows and checkpoints change only when the open transaction ends.
LEMMA WritersOfData ==
  ASSUME [Next]_vars
  PROVE  CommitApply \/ CommitActivate \/ UNCHANGED <<rows, ckpt, liveGen>>
BY DEF Next, Prepare, Replicate, vars, tgtVars, dataVars, SourceCommit, SourceDdl,
  InvalidateSlot, UserRebuild, ListPipelines, StartJob, AbortTx, ActivateFence,
  LoadCheckpoint, DropOrphanSlot, CreateSlot, LoadShadows, AbandonSnapshot,
  BeginActivate, ResumeRebuild, ResumeRefuse, ResumeAccept, StartReplication,
  Receive, Flush, BeginApply, Acknowledge, AnswerKeepalive, StreamBroken,
  RetentionExceeded, RequestRebuild, Stop, ReleaseSlot

\* Fencing: once a newer owner has activated its fence, no write of an older
\* one reaches the live tables or a checkpoint, however the two overlap.
THEOREM OnlyFenceHolderWritesAlways == Spec => OnlyFenceHolderWrites
<1>1. ASSUME IInv, [Next]_vars
      PROVE  [rows' # rows \/ ckpt' # ckpt =>
                txJob = fenceToken /\ jgen[txJob] = fenceGen]_vars
  <2>1. CASE CommitApply \/ CommitActivate
    BY <1>1, <2>1 DEF CommitApply, CommitActivate, IInv, InvTx, HoldsFence, NoJob
  <2> QED BY <1>1, <2>1, WritersOfData
<1> QED BY <1>1, IInvAlways, PTL DEF Spec, OnlyFenceHolderWrites

\* Readers of the target never go back in time: the live generation and its
\* checkpoint only grow, also across rebuilds and failovers.
THEOREM MirrorNeverRegressesAlways == Spec => MirrorNeverRegresses
<1>1. ASSUME IInv, [Next]_vars
      PROVE  [liveGen # 0 => /\ liveGen' >= liveGen
                             /\ ckpt'[liveGen'] >= ckpt[liveGen]]_vars
  <2> SUFFICES ASSUME liveGen # 0
               PROVE  liveGen' >= liveGen /\ ckpt'[liveGen'] >= ckpt[liveGen]
    OBVIOUS
  <2>1. liveGen \in Gen /\ liveGen \in Int /\ ckpt[liveGen] \in Int
    BY <1>1, LiveTyped
  <2>2. CASE CommitApply
    <3>1. jgen[txJob] = liveGen /\ cut[txJob] \in Int
      BY <1>1, <2>2, ApplyIsLive DEF CommitApply
    <3> QED BY <1>1, <2>1, <2>2, <3>1 DEF CommitApply, CheckAdvance, IInv, TypeOK
  <2>3. CASE CommitActivate
    <3>1. liveGen' \in Gen /\ ckpt'[liveGen'] = base[txJob] /\ base[txJob] \in Int
      BY <1>1, <2>3, ActivateFacts
    <3>2. liveGen <= liveGen' /\ ckpt[liveGen] <= base[txJob]
      BY <1>1, <2>1, <2>3, ActivateFacts
    <3> QED BY <2>1, <3>1, <3>2, SetFacts
  <2>4. CASE UNCHANGED <<rows, ckpt, liveGen>>
    BY <2>1, <2>4
  <2> QED BY <1>1, <2>2, <2>3, <2>4, WritersOfData
<1> QED BY <1>1, IInvAlways, PTL DEF Spec, MirrorNeverRegresses

\* With exclusive leases the live tables hold exactly the transactions up to
\* the checkpoint: nothing is skipped and nothing is ahead of it.
THEOREM MirrorIsPrefixAlways ==
  ASSUME Exclusive PROVE Spec => []MirrorIsPrefix
<1>1. IInv => MirrorIsPrefix
  BY DEF IInv, InvPrefix
<1> QED BY <1>1, IInvAlways, PTL

\* With exclusive leases no generation mixes transactions from both sides of a
\* schema barrier (requires_barrier, reject_schema_barriers).
THEOREM BarrierNotCrossedAlways ==
  ASSUME Exclusive PROVE Spec => []BarrierNotCrossed
<1>1. IInv => BarrierNotCrossed
  BY DEF IInv, InvBarrier
<1> QED BY <1>1, IInvAlways, PTL

\* With exclusive leases the protocol implements the abstract mirror, which
\* moves from a prefix of the source to a longer one: snapshots, batches,
\* crashes and rebuilds are invisible to a reader of the target.
THEOREM ImplementsMirror ==
  ASSUME Exclusive PROVE Spec => RefinesMirror
<1>1. Init => Mirror!Init
  BY DEF Init, Mirror!Init
<1>2. ASSUME IInv, IInv', [Next]_vars PROVE [Mirror!Next]_<<srcLsn, rows>>
  <2>1. CASE CommitApply \/ CommitActivate
    <3>1. UNCHANGED srcLsn
      BY <2>1 DEF CommitApply, CommitActivate, srcVars
    <3>2. liveGen' \in Gen /\ ckpt'[liveGen'] \in Nat /\ srcLsn' \in Nat
      <4>1. liveGen' # 0
        <5>1. CASE CommitApply
          BY <1>2, <5>1, ApplyIsLive, SetFacts DEF CommitApply
        <5>2. CASE CommitActivate
          BY <1>2, <5>2, ActivateFacts, SetFacts
        <5> QED BY <2>1, <5>1, <5>2
      <4>2. TypeOK'
        BY <1>2 DEF IInv
      <4> QED BY <4>1, <4>2, SetFacts DEF TypeOK
    <3>3. ckpt'[liveGen'] \in 1 .. srcLsn /\ rows' = 1 .. ckpt'[liveGen']
      BY <1>2, <3>1, <3>2, SetFacts DEF IInv, InvLive, InvPrefix, MirrorIsPrefix
    <3>4. rows \subseteq rows'
      <4>1. CASE CommitApply
        BY <4>1 DEF CommitApply
      <4>2. CASE CommitActivate
        <5>1. rows' = 1 .. base[txJob] /\ base[txJob] \in Nat
          BY <1>2, <4>2, ActivateFacts
        <5>2. CASE liveGen = 0
          BY <1>2, <5>2 DEF IInv, InvLive
        <5>3. CASE liveGen # 0
          <6>1. liveGen \in Gen
            BY <1>2, <5>3, LiveTyped
          <6>2. ckpt[liveGen] <= base[txJob]
            BY <1>2, <4>2, <6>1, ActivateFacts
          <6>3. rows \subseteq 1 .. ckpt[liveGen] /\ ckpt[liveGen] \in Int
            BY <1>2, <5>3, LiveTyped DEF IInv, InvLive
          <6> QED BY <5>1, <6>2, <6>3
        <5> QED BY <5>2, <5>3
      <4> QED BY <2>1, <4>1, <4>2
    <3> QED BY <3>1, <3>3, <3>4 DEF Mirror!Next, Mirror!Show
  <2>2. CASE SourceCommit \/ SourceDdl
    BY <2>2 DEF SourceCommit, SourceDdl, tgtVars, dataVars, Mirror!Next, Mirror!Commit
  <2>3. CASE UNCHANGED <<srcLsn, rows>>
    BY <2>3
  <2> QED BY <1>2, <2>1, <2>2, <2>3 
    DEF Next, Prepare, Replicate, vars, srcVars, tgtVars, dataVars, InvalidateSlot,
      UserRebuild, ListPipelines, StartJob, AbortTx, ActivateFence, LoadCheckpoint,
      DropOrphanSlot, CreateSlot, LoadShadows, AbandonSnapshot, BeginActivate,
      ResumeRebuild, ResumeRefuse, ResumeAccept, StartReplication, Receive, Flush,
      BeginApply, Acknowledge, AnswerKeepalive, StreamBroken, RetentionExceeded,
      RequestRebuild, Stop, ReleaseSlot
<1> QED BY <1>1, <1>2, IInvAlways, PTL DEF Spec, RefinesMirror, Mirror!Spec
=============================================================================
