------------------------------- MODULE Runtime -------------------------------
(***************************************************************************)
(* One server process: the reconciler task and the job tasks it starts and *)
(* stops through the supervisor, the telemetry the jobs report, the        *)
(* requests that read it, and the shutdown of the process.                 *)
(*                                                                         *)
(* Leases, back-off and the reasons to start or stop a job are those of    *)
(* module Lease; here the reconciler decides freely.  Only the reconciler  *)
(* calls start, stop_with_timeout, reap_finished and stop_all, one at a    *)
(* time, so the lifecycle mutex is never contended, and a pipeline is in   *)
(* RuntimeState.owned exactly while the supervisor manages it.  Positions  *)
(* are numbers and 0 is None; timestamps, counters, error texts and WAL    *)
(* retention figures are not represented.                                  *)
(***************************************************************************)
EXTENDS Naturals, FiniteSets

CONSTANTS
  Pipeline,  \* configured pipelines
  Viewer,    \* requests that read the runtime state
  MaxLsn     \* bound: source positions

ASSUME LsnAssumption == MaxLsn \in Nat

VARIABLES
  managed,   \* keys of PipelineSupervisor.pipelines
  tasks,     \* the task of each pipeline
  telemetry, \* PipelineSupervisor.telemetry: snapshot per known pipeline
  durable,   \* latest checkpoint in the target database
  rec,       \* what the reconciler does
  shutdown,  \* the process' cancellation token is cancelled
  server,    \* the HTTP server: open, drained or failed
  service,   \* what supervise_service does
  views      \* requests in flight

taskVars == <<managed, tasks, telemetry, durable>>
hostVars == <<rec, shutdown, server, service>>
runtimeVars == <<taskVars, hostVars, views>>

NoTask == [step |-> "none", cancelled |-> FALSE, ok |-> TRUE]
NewTask == [NoTask EXCEPT !.step = "spawned"]
NewSnapshot == [phase |-> "draft", state |-> "stopped", received |-> 0, checkpoint |-> 0]
NoView == [step |-> "none"]

Alive(p) == tasks[p].step \notin {"none", "done"}

RuntimeInit ==
  /\ managed = {}
  /\ tasks = [p \in Pipeline |-> NoTask]
  /\ telemetry = <<>>
  /\ durable = [p \in Pipeline |-> 0]
  /\ rec = [step |-> "between"] /\ shutdown = FALSE
  /\ server = "open" /\ service = [step |-> "select"]
  /\ views = [v \in Viewer |-> NoView]

-----------------------------------------------------------------------------
(* Telemetry: what each report makes of a snapshot. *)

Later(x, y) == IF x > y THEN x ELSE y
Broken(s) == s.phase \in {"degraded", "failed"}

MarkStarted(s) == [s EXCEPT !.state = "starting"]
MarkRunning(s) == [s EXCEPT !.state = "running"]
MarkStopped(s) == [s EXCEPT !.state = "stopped", !.phase = "stopped"]
MarkFailed(s) == [s EXCEPT !.state = "failed", !.phase = "failed"]
MarkDegraded(s) == [s EXCEPT !.state = "degraded", !.phase = "degraded"]
SetPhase(s, phase) == [s EXCEPT !.phase = phase]

\* source_received, of a keepalive.
SourceReceived(s, lsn) ==
  [s EXCEPT !.received = Later(@, lsn),
            !.phase = IF Broken(s) \/ s.checkpoint = 0 THEN @
                      ELSE IF lsn > s.checkpoint THEN "catching_up" ELSE "running"]

TransactionReceived(s, lsn) == [s EXCEPT !.received = Later(@, lsn)]

\* checkpoint_initialized, and acknowledged.
CheckpointReached(s, lsn) == [s EXCEPT !.checkpoint = Later(@, lsn)]

Applied(s, lsn) ==
  [CheckpointReached(s, lsn) EXCEPT
     !.phase = IF Broken(s) \/ s.received > lsn THEN @ ELSE "running"]

Reports(p, snapshot) == telemetry' = [telemetry EXCEPT ![p] = snapshot]

\* record_finished: a job that ended by itself keeps the outcome it reported.
Unrecorded(s, ok, intentional) == s
RecordFinished(s, ok, intentional) ==
  CASE intentional -> MarkStopped(s)
    [] ~intentional /\ ~ok -> MarkFailed(s)
    [] ~intentional /\ ok ->
         IF s.state \in {"degraded", "failed"} THEN s ELSE MarkStopped(s)

-----------------------------------------------------------------------------
(* The job task. *)

Moves(p, step) == tasks' = [tasks EXCEPT ![p].step = step]
Finishes(p, ok) == tasks' = [tasks EXCEPT ![p].step = "done", ![p].ok = ok]
InTask == UNCHANGED <<managed, hostVars, views>>

\* run.
Begins(p) ==
  /\ tasks[p].step = "spawned"
  /\ Moves(p, "preparing")
  /\ Reports(p, SetPhase(telemetry[p], "validating"))
  /\ UNCHANGED durable /\ InTask

\* run_standalone found the checkpoint of its generation, or none, which is
\* the case of every new generation: prepare_resume or
\* prepare_initial_snapshot.
Prepares(p, step) ==
  /\ tasks[p].step = "preparing" /\ (step = "resuming" => durable[p] # 0)
  /\ Moves(p, step)
  /\ Reports(p, SetPhase(telemetry[p], IF step = "resuming" THEN "catching_up" ELSE "snapshotting"))
  /\ UNCHANGED durable /\ InTask

\* The activated snapshot group leaves its checkpoint in the target, which is
\* later than any of an earlier generation: its slot was created afterwards.
Activates(p, lsn) ==
  /\ tasks[p].step = "loading" /\ lsn > durable[p]
  /\ Moves(p, "activated")
  /\ durable' = [durable EXCEPT ![p] = lsn]
  /\ UNCHANGED telemetry /\ InTask

\* checkpoint_initialized, then complete_pipeline_rebuilds and the
\* replication connection.
Initialized(p) ==
  /\ tasks[p].step \in {"resuming", "activated"}
  /\ Moves(p, "connecting")
  /\ Reports(p, CheckpointReached(telemetry[p], durable[p]))
  /\ UNCHANGED durable /\ InTask

Streams(p) ==
  /\ tasks[p].step = "connecting"
  /\ Moves(p, "streaming")
  /\ Reports(p, MarkRunning(SetPhase(telemetry[p], "catching_up")))
  /\ UNCHANGED durable /\ InTask

Keepalive(p, lsn) ==
  /\ tasks[p].step = "streaming"
  /\ Reports(p, SourceReceived(telemetry[p], lsn))
  /\ UNCHANGED <<tasks, durable>> /\ InTask

Receives(p, lsn) ==
  /\ tasks[p].step = "streaming"
  /\ Reports(p, TransactionReceived(telemetry[p], lsn))
  /\ UNCHANGED <<tasks, durable>> /\ InTask

\* sink.apply commits a batch that ends at lsn.
ReportFirst(p, lsn) ==
  /\ tasks[p].step = "streaming" /\ lsn > telemetry[p].checkpoint
  /\ Moves(p, "committed")
  /\ Reports(p, Applied(telemetry[p], lsn))
  /\ UNCHANGED durable /\ InTask
Commits(p, lsn) ==
  /\ tasks[p].step = "streaming" /\ lsn > durable[p]
  /\ Moves(p, "committed")
  /\ durable' = [durable EXCEPT ![p] = lsn]
  /\ UNCHANGED telemetry /\ InTask

ReportsApplied(p) ==
  /\ tasks[p].step = "committed"
  /\ Moves(p, "acknowledging")
  /\ Reports(p, Applied(telemetry[p], durable[p]))
  /\ UNCHANGED durable /\ InTask

Acknowledged(p) ==
  /\ tasks[p].step = "acknowledging"
  /\ Moves(p, "streaming")
  /\ Reports(p, CheckpointReached(telemetry[p], durable[p]))
  /\ UNCHANGED durable /\ InTask

\* A schema barrier, or WAL retention beyond its limit: mark_degraded.
Degrades(p) ==
  /\ tasks[p].step \in {"streaming", "committed", "acknowledging"}
  /\ Moves(p, "degraded")
  /\ Reports(p, MarkDegraded(telemetry[p]))
  /\ UNCHANGED durable /\ InTask

\* run returns Ok: the rebuild was requested, or the source ended the stream,
\* or replicate saw the cancellation.
Returns(p) ==
  /\ \/ tasks[p].step \in {"resuming", "loading", "degraded", "streaming"}
     \/ tasks[p].cancelled /\ tasks[p].step \in {"committed", "acknowledging"}
  /\ Finishes(p, TRUE)
  /\ UNCHANGED <<telemetry, durable>> /\ InTask

\* RuntimeJobError::Cancelled.
Cancelled(p) ==
  /\ tasks[p].cancelled /\ tasks[p].step \in {"resuming", "loading", "activated",
                                             "streaming", "committed", "acknowledging"}
  /\ Finishes(p, TRUE)
  /\ Reports(p, SetPhase(telemetry[p], "stopped"))
  /\ UNCHANGED durable /\ InTask

\* Any other error of the job.
Fails(p) ==
  /\ Alive(p) /\ tasks[p].step # "spawned"
  /\ Finishes(p, FALSE)
  /\ Reports(p, MarkFailed(telemetry[p]))
  /\ UNCHANGED durable /\ InTask

\* The task ends without a report: LeaseGuardedJob drops the job at the lease
\* deadline, or the job panics (trim_error does, inside a character).
Drops(p) ==
  /\ Alive(p)
  /\ Finishes(p, FALSE)
  /\ UNCHANGED <<telemetry, durable>> /\ InTask

Job(p) ==
  \/ Begins(p) \/ Initialized(p) \/ Streams(p)
  \/ \E step \in {"resuming", "loading"} : Prepares(p, step)
  \/ \E lsn \in 1 .. MaxLsn :
       Activates(p, lsn) \/ Keepalive(p, lsn) \/ Receives(p, lsn) \/ Commits(p, lsn)
  \/ ReportsApplied(p) \/ Acknowledged(p) \/ Degrades(p)
  \/ Returns(p) \/ Cancelled(p) \/ Fails(p) \/ Drops(p)

-----------------------------------------------------------------------------
(* The reconciler task. *)

InReconciler == UNCHANGED <<durable, shutdown, server, service, views>>

\* A tick: supervisor.reap_finished takes the finished tasks out of the map.
\* The select is biased to the shutdown.
BeginTick ==
  /\ rec.step = "between" /\ ~shutdown
  /\ LET finished == {p \in managed : ~Alive(p)} IN
       /\ managed' = managed \ finished
       /\ rec' = [step |-> "reaping", todo |-> finished]
  /\ UNCHANGED <<tasks, telemetry>> /\ InReconciler

\* record_finished for one of them.
Reap(p) ==
  /\ rec.step = "reaping" /\ p \in rec.todo
  /\ Reports(p, RecordFinished(telemetry[p], tasks[p].ok, FALSE))
  /\ tasks' = [tasks EXCEPT ![p] = NoTask]
  /\ rec' = [rec EXCEPT !.todo = @ \ {p}]
  /\ UNCHANGED managed /\ InReconciler

Reaped ==
  /\ rec.step = "reaping" /\ rec.todo = {}
  /\ rec' = [step |-> "tick", todo |-> Pipeline]
  /\ UNCHANGED <<managed, tasks, telemetry>> /\ InReconciler

\* renew_leases and reconcile leave the pipeline as it is.
Passes(p) ==
  /\ rec.step = "tick" /\ p \in rec.todo
  /\ rec' = [rec EXCEPT !.todo = @ \ {p}]
  /\ UNCHANGED <<managed, tasks, telemetry>> /\ InReconciler

\* start_pipeline: the lease is held, telemetry_for, then factory.create.
Creates(p) ==
  /\ rec.step = "tick" /\ p \in rec.todo /\ p \notin managed
  /\ telemetry' = [q \in DOMAIN telemetry \cup {p} |->
                    IF q \in DOMAIN telemetry THEN telemetry[q] ELSE NewSnapshot]
  /\ rec' = [step |-> "creating", p |-> p, todo |-> rec.todo \ {p}]
  /\ UNCHANGED <<managed, tasks>> /\ InReconciler

CreateFails ==
  /\ rec.step = "creating"
  /\ rec' = [step |-> "tick", todo |-> rec.todo]
  /\ UNCHANGED <<managed, tasks, telemetry>> /\ InReconciler

\* supervisor.start.
Starts ==
  /\ rec.step = "creating"
  /\ Reports(rec.p, MarkStarted(telemetry[rec.p]))
  /\ tasks' = [tasks EXCEPT ![rec.p] = NewTask]
  /\ managed' = managed \cup {rec.p}
  /\ rec' = [step |-> "tick", todo |-> rec.todo]
  /\ InReconciler

\* stop_with_timeout takes the task out of the map and cancels it: a lost
\* lease, a pause, a new definition (which starts again in this tick), or
\* the shutdown.
Stops(p) ==
  /\ rec.step \in {"tick", "shutdown"} /\ p \in rec.todo \cap managed
  /\ managed' = managed \ {p}
  /\ tasks' = [tasks EXCEPT ![p].cancelled = TRUE]
  /\ \E todo \in {rec.todo \ {p}} \cup IF rec.step = "tick" THEN {rec.todo} ELSE {} :
       rec' = [step |-> "joining", p |-> p, todo |-> todo, back |-> rec.step]
  /\ UNCHANGED telemetry /\ InReconciler

Joined(snapshot) ==
  /\ Reports(rec.p, snapshot)
  /\ tasks' = [tasks EXCEPT ![rec.p] = NoTask]
  /\ rec' = [step |-> rec.back, todo |-> rec.todo]
  /\ UNCHANGED managed /\ InReconciler

Joins ==
  /\ rec.step = "joining" /\ ~Alive(rec.p)
  /\ Joined(RecordFinished(telemetry[rec.p], tasks[rec.p].ok, TRUE))

\* The task did not end in time and is aborted.
NoAbort == FALSE /\ UNCHANGED runtimeVars
Aborts ==
  /\ rec.step = "joining" /\ Alive(rec.p)
  /\ Joined(RecordFinished(telemetry[rec.p], FALSE, FALSE))

EndTick ==
  /\ rec.step = "tick" /\ rec.todo = {}
  /\ rec' = [step |-> "between"]
  /\ UNCHANGED <<managed, tasks, telemetry>> /\ InReconciler

\* shutdown stops what is owned; stop_all then finds nothing and run returns.
BeginShutdown ==
  /\ rec.step = "between" /\ shutdown
  /\ rec' = [step |-> "shutdown", todo |-> managed]
  /\ UNCHANGED <<managed, tasks, telemetry>> /\ InReconciler

StopAll ==
  /\ rec.step = "shutdown" /\ rec.todo = {} /\ managed = {}
  /\ rec' = [step |-> "done"]
  /\ UNCHANGED <<managed, tasks, telemetry>> /\ InReconciler

ReconcilerStep ==
  \/ BeginTick \/ Reaped \/ CreateFails \/ Starts \/ Joins \/ Aborts \/ EndTick
  \/ BeginShutdown \/ StopAll
  \/ \E p \in Pipeline : Reap(p) \/ Passes(p) \/ Creates(p) \/ Stops(p)

\* A panic in the reconciler.  The tasks it spawned live on.
Panics ==
  /\ rec.step \notin {"done", "dead"}
  /\ rec' = [step |-> "dead"]
  /\ UNCHANGED <<taskVars, shutdown, server, service, views>>

-----------------------------------------------------------------------------
(* Requests: running(), then runtime_snapshot, each under its own mutex. *)

Running(p) == p \in managed /\ Alive(p)
See(v, view) == views' = [views EXCEPT ![v] = view]
InView == UNCHANGED <<taskVars, hostVars>>

ReadRunning(v, p) ==
  /\ server = "open" /\ views[v] = NoView
  /\ See(v, [step |-> "reading", p |-> p, running |-> Running(p), known |-> FALSE])
  /\ InView

\* Without a snapshot pipeline_view takes the state from running() alone.
ReadSnapshot(v) ==
  /\ views[v].step = "reading"
  /\ See(v, [views[v] EXCEPT !.step = "read", !.known = @ \/ views[v].p \in DOMAIN telemetry])
  /\ InView

\* The request ends: it is answered, or its client went away.
Responds(v) ==
  /\ views[v] # NoView
  /\ See(v, NoView)
  /\ InView

-----------------------------------------------------------------------------
(* The process: serve and supervise_service. *)

InService == UNCHANGED <<taskVars, rec, views>>

\* shutdown_signal.
Signal ==
  /\ ~shutdown
  /\ shutdown' = TRUE
  /\ UNCHANGED <<server, service>> /\ InService

\* axum ends gracefully once it is told to and the open requests have ended,
\* or with an error at any time.
ServerEnds(how) ==
  /\ server = "open"
  /\ how = "drained" => shutdown /\ \A v \in Viewer : views[v] = NoView
  /\ server' = how
  /\ UNCHANGED <<shutdown, service>> /\ InService

Over(part) == IF part = "server" THEN server # "open" ELSE rec.step \in {"done", "dead"}

\* The select of supervise_service: the first of the two to end takes the
\* other one down.
OneEnds(part) ==
  /\ service.step = "select" /\ Over(part)
  /\ service' = [step |-> "waiting", requested |-> shutdown,
                 for |-> IF part = "server" THEN "reconciler" ELSE "server"]
  /\ shutdown' = TRUE
  /\ UNCHANGED server /\ InService

\* The process exits once the other has ended too, with success only after an
\* orderly shutdown.
ExitAtOnce ==
  /\ service.step = "waiting"
  /\ service' = [step |-> "exited", ok |-> service.requested]
  /\ UNCHANGED <<shutdown, server>> /\ InService
Exit ==
  /\ service.step = "waiting" /\ Over(service.for)
  /\ service' = [step |-> "exited",
                 ok |-> service.requested /\ rec.step = "done" /\ server = "drained"]
  /\ UNCHANGED <<shutdown, server>> /\ InService

-----------------------------------------------------------------------------
\* Nothing happens after the process has exited.
Process ==
  \/ ReconcilerStep \/ Panics
  \/ \E p \in Pipeline : Job(p)
  \/ \E v \in Viewer : ReadSnapshot(v) \/ Responds(v) \/ \E p \in Pipeline : ReadRunning(v, p)
  \/ Signal \/ Exit
  \/ \E how \in {"drained", "failed"} : ServerEnds(how)
  \/ \E part \in {"server", "reconciler"} : OneEnds(part)

RuntimeNext == service.step # "exited" /\ Process

RuntimeSpec == RuntimeInit /\ [][RuntimeNext]_runtimeVars

\* The reconciler task runs: the calls it makes return (the control store
\* answers or fails) and its timer fires.  Nothing is assumed of the jobs,
\* the clients and the signal.
FairReconciler == service.step # "exited" /\ ReconcilerStep
RuntimeFairness == WF_runtimeVars(FairReconciler)

-----------------------------------------------------------------------------
(* Properties. *)

\* While the reconciler is not in the middle of starting, stopping or reaping
\* it, a pipeline is reported as what its task is: a live task is not reported
\* as stopped or failed, not even from an earlier run, and a pipeline without
\* one is not reported as starting or running; state and phase tell the same.
\* A request that saw a running job also finds its snapshot, which it reads at
\* a later moment: the state is never guessed from running() alone.
Handled(p) == rec.step \in {"reaping", "joining"} /\ p \notin managed
TaskIsReported ==
  /\ \A p \in DOMAIN telemetry :
       LET s == telemetry[p] IN
       /\ Alive(p) /\ p \in managed => s.state \in {"starting", "running", "degraded"}
       /\ tasks[p].step = "none" /\ ~Handled(p) =>
            s.state \in {"stopped", "failed", "degraded"}
       /\ tasks[p].step \notin {"spawned", "none"} /\ s.phase = "running" => s.state = "running"
       /\ s.state \in {"failed", "degraded"} => s.phase = s.state
       /\ s.state = "stopped" => s.phase \in {"stopped", "draft"}
  /\ \A v \in Viewer : views[v].step = "read" /\ views[v].running => views[v].known

\* The checkpoint shown for a pipeline is in the target database, wherever its
\* job was cancelled, aborted or dropped between the commit and the reports.
ReportedCheckpointIsDurable ==
  \A p \in DOMAIN telemetry : telemetry[p].checkpoint <= durable[p]

\* The process exits only when no job is left to be killed in the middle of a
\* step, unless the reconciler itself died; and it exits with success only
\* after a requested shutdown with no request cut off.
ExitLeavesNoJob ==
  service.step = "exited" =>
    /\ rec.step # "dead" => \A p \in Pipeline : ~Alive(p)
    /\ service.ok => rec.step = "done" /\ \A v \in Viewer : views[v] = NoView

\* After the signal every job ends and none is started again, even when a job
\* ignores its cancellation and requests keep the server open.
ShutdownStopsJobs ==
  shutdown ~> (rec.step = "dead" \/ [](\A p \in Pipeline : ~Alive(p)))
=============================================================================
