-------------------------------- MODULE Lease --------------------------------
(***************************************************************************)
(* Who may run a pipeline: the reconcilers of several runtimes, the lease  *)
(* row in the control database, and the local deadline that ends a job     *)
(* before its lease can expire.                                            *)
(*                                                                         *)
(* Time is discrete.  A point in time is kept as the distance from now:    *)
(* left is expires_at - now, stopIn[h] is the guard's stop_at - now.  The  *)
(* code only ever uses durations of one clock, so the clocks of the hosts  *)
(* need to run at the same rate and not to agree.  A lease statement reads *)
(* the database clock and updates the row in one step.                     *)
(***************************************************************************)
EXTENDS Integers, FiniteSets

CONSTANTS
  Holder,       \* holder ids; a runtime that restarts takes a new one
  NoHolder,     \* the lease row has not been written
  Ttl,          \* lease_ttl
  Renew,        \* lease_renew_interval, also the safety margin of the guard
  Delay,        \* largest lateness of the guard's timer and of the drop of a job
  BackoffInitial, BackoffMax,   \* restart_backoff_initial, restart_backoff_max
  MaxOrphans,   \* bound: abandoned requests in flight at a time
  MaxToken,     \* bound: leases ever granted
  MaxVersion    \* bound: definitions (config_revision, snapshot_generation)

\* ReconcilerConfig::validate: renewed at the latest after a third of the lease.
ValidConfig ==
  /\ Ttl \in Nat /\ Renew \in Nat \ {0} /\ 3 * Renew <= Ttl
  /\ BackoffInitial \in Nat \ {0} /\ BackoffMax \in Nat /\ BackoffInitial <= BackoffMax

\* A valid configuration, and a guard that is late by less than the margin.
ASSUME ConfigAssumption ==
  /\ ValidConfig
  /\ Delay \in Nat /\ Delay < Renew
  /\ MaxOrphans \in Nat /\ MaxToken \in Nat /\ MaxVersion \in Nat \ {0}
  /\ NoHolder \notin Holder

VARIABLES
  \* Control database.
  holder, token, left,  \* the row of pipeline_leases; left: time until expires_at
  desired, version,     \* the pipeline definition
  orphans,              \* requests whose client gave up and that may still arrive
  \* Reconciler of each runtime.
  phase,    \* where its loop is
  after,    \* what follows the release it waits for
  call,     \* its outstanding call to the store
  age,      \* time since it started the acquire or renew call it works on
  held,     \* token of its OwnedPipeline, 0 when it owns nothing
  ver,      \* definition its OwnedPipeline was started for, 0 when it owns nothing
  listed,   \* definition that start_pipeline works on, 0 when it does not run
  stopIn,   \* time until the guard's deadline; 0 when there is no guard
  renewIn,  \* time until next_renewal; 0 when it owns nothing
  retryIn,  \* time until its RestartState allows a start; 0 when it does
  \* Supervisor of each runtime.
  job,      \* token of the running task, 0 when none
  lastJob   \* history: token of the job that started last

row == <<holder, token, left>>
definition == <<desired, version>>
timers == <<age, stopIn, renewIn, retryIn>>
control == <<phase, after, call>>
owned == <<held, ver, listed>>
tasks == <<job, lastJob>>
vars == <<row, definition, orphans, control, owned, timers, tasks>>

Kind == {"acquire", "renew", "release"}
Request == [kind : Kind, by : Holder, token : 0..MaxToken]

\* A call waits for its answer; "ok" and "none" are what the store returned.
NoCall == [kind |-> "idle", token |-> 0, state |-> "none"]
Send(kind, t) == [kind |-> kind, token |-> t, state |-> "sent"]

Set(f, h, v) == [f EXCEPT ![h] = v]
AtLeastZero(n) == IF n < 0 THEN 0 ELSE n
Least(m, n) == IF m < n THEN m ELSE n

Init ==
  /\ holder = NoHolder /\ token = 0 /\ left = 0
  /\ desired = TRUE /\ version = 1 /\ orphans = {}
  /\ phase = [h \in Holder |-> "idle"] /\ after = [h \in Holder |-> "idle"]
  /\ call = [h \in Holder |-> NoCall] /\ age = [h \in Holder |-> 0]
  /\ held = [h \in Holder |-> 0]
  /\ ver = [h \in Holder |-> 0] /\ listed = [h \in Holder |-> 0]
  /\ stopIn = [h \in Holder |-> 0] /\ renewIn = [h \in Holder |-> 0]
  /\ retryIn = [h \in Holder |-> 0]
  /\ job = [h \in Holder |-> 0] /\ lastJob = 0

-----------------------------------------------------------------------------
(* The lease statements of the store. *)

\* try_acquire_lease: the lease has expired, or the holder asks for its own again.
FreeOrOwn(h) == holder \in {NoHolder, h}
CanAcquire(h) == left = 0 \/ holder = h
SameHolderToken(h) == IF holder = h THEN token ELSE token + 1
GrantedToken(h) == token + 1

\* renew_lease and release_lease name the exact holder and token.
MatchesHolder(h, t) == holder = h
Matches(h, t) == holder = h /\ token = t

Execute(kind, h, t) ==
  CASE kind = "acquire" /\ CanAcquire(h) ->
         holder' = h /\ token' = GrantedToken(h) /\ left' = Ttl
    [] kind = "renew" /\ Matches(h, t) /\ left > 0 ->
         left' = Ttl /\ UNCHANGED <<holder, token>>
    [] kind = "release" /\ Matches(h, t) ->
         left' = 0 /\ UNCHANGED <<holder, token>>
    [] OTHER -> UNCHANGED row

Within(kind) == kind = "acquire" => token < MaxToken

\* The control database executes the statement that a reconciler waits for.
Serve(h) ==
  /\ call[h].state = "sent" /\ Within(call[h].kind)
  /\ Execute(call[h].kind, h, call[h].token)
  /\ call' = [call EXCEPT
       ![h].token = IF call[h].kind = "acquire" THEN GrantedToken(h) ELSE @,
       ![h].state = CASE call[h].kind = "acquire" -> IF CanAcquire(h) THEN "ok" ELSE "none"
                      [] call[h].kind = "renew" -> IF Matches(h, call[h].token) /\ left > 0
                                                   THEN "ok" ELSE "none"
                      [] call[h].kind = "release" -> "ok"]
  /\ UNCHANGED <<definition, orphans, phase, after, owned, timers, tasks>>

\* A statement whose client has given up reaches the database late, or never.
ServeOrphan(o) ==
  /\ Within(o.kind)
  /\ Execute(o.kind, o.by, o.token)
  /\ orphans' = orphans \ {o}
  /\ UNCHANGED <<definition, control, owned, timers, tasks>>

\* The client stops waiting: the answer or the connection is lost.
Abandoned(h) == [kind |-> call[h].kind, by |-> h, token |-> call[h].token]
GiveUp(h) ==
  \/ UNCHANGED orphans
  \/ /\ call[h].state = "sent" /\ Cardinality(orphans) < MaxOrphans
     /\ orphans' = orphans \cup {Abandoned(h)}

-----------------------------------------------------------------------------
(* The pipeline definition. *)

\* put_pipeline or request_pipeline_rebuild.
Redefine ==
  /\ version < MaxVersion
  /\ version' = version + 1
  /\ UNCHANGED <<row, desired, orphans, control, owned, timers, tasks>>

\* set_desired.
SetDesired ==
  /\ desired' = ~desired
  /\ UNCHANGED <<row, version, orphans, control, owned, timers, tasks>>

-----------------------------------------------------------------------------
(* Local state of a reconciler. *)

\* lease_stop_at, seen a time a after the request was started.
FromAnswer(a) == Ttl - Renew
StopIn(a) == Ttl - Renew - a

\* next_renewal, likewise.
RenewalIn(a) == AtLeastZero(Renew - a)

\* LeaseDeadlineGuard::expired.
Expired(h) == stopIn[h] <= 0

\* record_failure: the delay doubles with every failure from the initial to the
\* maximum backoff, and starts over after a job that ran long enough.
RecordFailure(h) ==
  \E delay \in BackoffInitial..BackoffMax : retryIn' = Set(retryIn, h, delay)

ForgetFailures(h) == retryIn' = Set(retryIn, h, 0)

StartCall(h, p, kind, t) ==
  /\ phase' = Set(phase, h, p)
  /\ call' = Set(call, h, Send(kind, t))

\* release, then go on with a.  The OwnedPipeline and its guard are dropped;
\* the definition is kept for a start that follows.
Release(h, t, a) ==
  /\ StartCall(h, "releasing", "release", t)
  /\ after' = Set(after, h, a)
  /\ listed' = IF a = "start" THEN listed ELSE Set(listed, h, 0)
  /\ held' = Set(held, h, 0) /\ ver' = Set(ver, h, 0) /\ age' = Set(age, h, 0)
  /\ stopIn' = Set(stopIn, h, 0) /\ renewIn' = Set(renewIn, h, 0)

\* cancel_job: the task is told to stop, then joined or aborted.
Cancel(h, a) ==
  /\ phase' = Set(phase, h, "stopping") /\ after' = Set(after, h, a)
  /\ call' = Set(call, h, NoCall) /\ age' = Set(age, h, 0)

\* The loop goes on without a call.
Idle(h) ==
  /\ phase' = Set(phase, h, "idle")
  /\ call' = Set(call, h, NoCall) /\ age' = Set(age, h, 0)
  /\ listed' = Set(listed, h, 0)

-----------------------------------------------------------------------------
(* The reconciler's loop. *)

\* reap_finished: the task ended by itself or at its deadline.
Reap(h) ==
  /\ phase[h] = "idle" /\ held[h] # 0 /\ job[h] = 0
  /\ Release(h, held[h], "failed")
  /\ UNCHANGED <<row, definition, orphans, retryIn, tasks>>

\* renew_leases sends a renewal when it is due.
RenewLease(h) ==
  /\ phase[h] = "idle" /\ held[h] # 0 /\ renewIn[h] = 0
  /\ StartCall(h, "renewing", "renew", held[h])
  /\ UNCHANGED <<row, definition, orphans, after, owned, timers, tasks>>

\* renew_leases: the guard is rearmed unless its deadline has passed.
Renewed(h) ==
  /\ phase[h] = "renewing" /\ call[h].state = "ok" /\ ~Expired(h)
  /\ stopIn' = Set(stopIn, h, StopIn(age[h]))
  /\ renewIn' = Set(renewIn, h, RenewalIn(age[h]))
  /\ Idle(h)
  /\ UNCHANGED <<row, definition, orphans, after, held, ver, retryIn, tasks>>

\* renew_leases: refused, too late or failed; lease_lost cancels the job.
RenewalLost(h) ==
  /\ phase[h] = "renewing"
  /\ GiveUp(h)
  /\ Cancel(h, "failed")
  /\ UNCHANGED <<row, definition, owned, stopIn, renewIn, retryIn, tasks>>

\* stop_with_timeout returns only when the task no longer runs.
Joined(h) ==
  /\ phase[h] = "stopping"
  /\ job' = Set(job, h, 0)
  /\ Release(h, held[h], after[h])
  /\ UNCHANGED <<row, definition, orphans, retryIn, lastJob>>

\* The release is answered, or fails, which is only logged.
ReleaseEnds(h) ==
  /\ phase[h] = "releasing"
  /\ GiveUp(h)
  /\ IF after[h] = "start"
     THEN StartCall(h, "acquiring", "acquire", 0)
     ELSE /\ phase' = Set(phase, h, IF after[h] = "down" THEN "down" ELSE "idle")
          /\ call' = Set(call, h, NoCall)
  /\ IF after[h] = "failed" THEN RecordFailure(h) ELSE UNCHANGED retryIn
  /\ after' = Set(after, h, "idle")
  /\ UNCHANGED <<row, definition, owned, age, stopIn, renewIn, tasks>>

\* reconcile: the pipeline is not wanted.
ReconcileUnwanted(h) ==
  /\ phase[h] = "idle" /\ ~desired
  /\ held[h] # 0 \/ retryIn[h] # 0
  /\ ForgetFailures(h)
  /\ IF held[h] # 0 THEN Cancel(h, "idle") ELSE UNCHANGED <<control, age>>
  /\ UNCHANGED <<row, definition, orphans, owned, stopIn, renewIn, tasks>>

\* reconcile: the definition changed since the job was started.
OlderDefinition(h) == ver[h] > version
DefinitionChanged(h) == ver[h] # version
ReconcileChanged(h) ==
  /\ phase[h] = "idle" /\ desired /\ held[h] # 0 /\ DefinitionChanged(h)
  /\ listed' = Set(listed, h, version)
  /\ ForgetFailures(h)
  /\ Cancel(h, "start")
  /\ UNCHANGED <<row, definition, orphans, held, ver, stopIn, renewIn, tasks>>

\* reconcile: nothing runs and the backoff is over.
ReconcileStart(h) ==
  /\ phase[h] = "idle" /\ desired /\ held[h] = 0 /\ retryIn[h] = 0
  /\ listed' = Set(listed, h, version)
  /\ StartCall(h, "acquiring", "acquire", 0)
  /\ UNCHANGED <<row, definition, orphans, after, held, ver, timers, tasks>>

\* start_pipeline: another runtime has the lease.
NotAcquired(h) ==
  /\ phase[h] = "acquiring" /\ call[h].state = "none"
  /\ Idle(h)
  /\ UNCHANGED <<row, definition, orphans, after, held, ver, stopIn, renewIn, retryIn, tasks>>

\* start_pipeline: the call failed, whether or not the lease was granted.
AcquireFails(h) ==
  /\ phase[h] = "acquiring"
  /\ GiveUp(h)
  /\ RecordFailure(h)
  /\ Idle(h)
  /\ UNCHANGED <<row, definition, after, held, ver, stopIn, renewIn, tasks>>

\* start_pipeline: the guard is armed from the time of the request.
Acquired(h) ==
  /\ phase[h] = "acquiring" /\ call[h].state = "ok"
  /\ IF StopIn(age[h]) <= 0
     THEN Release(h, call[h].token, "failed")
     ELSE /\ stopIn' = Set(stopIn, h, StopIn(age[h]))
          /\ phase' = Set(phase, h, "creating")
          /\ held' = Set(held, h, call[h].token)
          /\ call' = Set(call, h, NoCall) /\ UNCHANGED <<after, ver, listed, age, renewIn>>
  /\ UNCHANGED <<row, definition, orphans, retryIn, tasks>>

\* start_pipeline: factory.create failed, or took too long.
CreateFails(h) ==
  /\ phase[h] = "creating"
  /\ Release(h, held[h], "failed")
  /\ UNCHANGED <<row, definition, orphans, retryIn, tasks>>

\* PipelineSupervisor::start refuses a pipeline whose task still runs.
SupervisorStart(h) ==
  job[h] = 0 /\ job' = Set(job, h, held[h]) /\ lastJob' = held[h]

\* start_pipeline: the job is created in time and spawned.
Spawn(h) ==
  /\ phase[h] = "creating" /\ ~Expired(h)
  /\ SupervisorStart(h)
  /\ ver' = Set(ver, h, listed[h])
  /\ renewIn' = Set(renewIn, h, RenewalIn(age[h]))
  /\ retryIn' = Set(retryIn, h, 0)
  /\ Idle(h)
  /\ UNCHANGED <<row, definition, orphans, after, held, stopIn>>

\* run: shutdown stops the owned job before the loop ends.
Shutdown(h) ==
  /\ phase[h] = "idle"
  /\ IF held[h] # 0
     THEN Cancel(h, "down")
     ELSE phase' = Set(phase, h, "down") /\ UNCHANGED <<after, call, age>>
  /\ UNCHANGED <<row, definition, orphans, owned, stopIn, renewIn, retryIn, tasks>>

\* The process dies: its task and guard with it, the lease stays.
Crash(h) ==
  /\ phase[h] # "down"
  /\ GiveUp(h)
  /\ phase' = Set(phase, h, "down") /\ call' = Set(call, h, NoCall)
  /\ held' = Set(held, h, 0) /\ ver' = Set(ver, h, 0) /\ listed' = Set(listed, h, 0)
  /\ job' = Set(job, h, 0) /\ after' = Set(after, h, "idle") /\ ForgetFailures(h)
  /\ age' = Set(age, h, 0) /\ stopIn' = Set(stopIn, h, 0) /\ renewIn' = Set(renewIn, h, 0)
  /\ UNCHANGED <<row, definition, lastJob>>

-----------------------------------------------------------------------------
(* Tasks and time. *)

\* The job returns, with or without an error.
JobEnds(h) ==
  /\ job[h] # 0
  /\ job' = Set(job, h, 0)
  /\ UNCHANGED <<row, definition, orphans, control, owned, timers, lastJob>>

\* watch_lease_deadline and LeaseGuardedJob: the job's future is dropped.
DeadlineReached(h) ==
  /\ job[h] # 0 /\ Expired(h)
  /\ job' = Set(job, h, 0)
  /\ UNCHANGED <<row, definition, orphans, control, owned, timers, lastJob>>

\* The reconciler works on an acquire or renew call.
Waits(h) == phase[h] \in {"acquiring", "creating", "renewing"}

\* Time passes, but not past the point where a late guard must have fired.
Tick ==
  /\ \A h \in Holder : job[h] # 0 => stopIn[h] > -Delay
  /\ left' = AtLeastZero(left - 1)
  /\ age' = [h \in Holder |-> IF Waits(h) THEN Least(age[h] + 1, Ttl) ELSE 0]
  /\ stopIn' = [h \in Holder |->
                  IF held[h] # 0 /\ stopIn[h] > -Delay THEN stopIn[h] - 1 ELSE stopIn[h]]
  /\ renewIn' = [h \in Holder |-> AtLeastZero(renewIn[h] - 1)]
  /\ retryIn' = [h \in Holder |-> AtLeastZero(retryIn[h] - 1)]
  /\ UNCHANGED <<holder, token, definition, orphans, control, owned, tasks>>

-----------------------------------------------------------------------------
Reconcile(h) == ReconcileUnwanted(h) \/ ReconcileChanged(h) \/ ReconcileStart(h)

Answered(h) == Renewed(h) \/ NotAcquired(h) \/ Acquired(h) \/ ReleaseEnds(h)

Fails(h) == RenewalLost(h) \/ AcquireFails(h) \/ CreateFails(h)

Loop(h) ==
  Reap(h) \/ RenewLease(h) \/ Joined(h) \/ Spawn(h)
  \/ Reconcile(h) \/ Answered(h) \/ Fails(h)

Next ==
  \/ Redefine \/ SetDesired \/ Tick
  \/ \E o \in orphans : ServeOrphan(o)
  \/ \E h \in Holder :
       \/ Loop(h) \/ Serve(h) \/ JobEnds(h) \/ DeadlineReached(h)
       \/ Shutdown(h) \/ Crash(h)

Spec == Init /\ [][Next]_vars

(***************************************************************************)
(* Fairness.  Time passes, the guard's timer fires, and a call that was    *)
(* made ends.  Every pass of the loop goes through reap_finished,          *)
(* renew_leases and, when a poll is due, reconcile, so a step of these     *)
(* that is possible in pass after pass is taken; and the control database  *)
(* does not fail for ever.  Nothing is assumed of jobs, users, crashes or  *)
(* orphaned requests.                                                      *)
(***************************************************************************)
EndsCall(h) ==
  \/ Renewed(h) \/ RenewalLost(h) \/ NotAcquired(h) \/ Acquired(h) \/ AcquireFails(h)
  \/ Joined(h) \/ ReleaseEnds(h) \/ Spawn(h) \/ CreateFails(h)

FairSpec ==
  /\ Spec
  /\ WF_vars(Tick)
  /\ \A h \in Holder :
       /\ WF_vars(DeadlineReached(h)) /\ WF_vars(EndsCall(h))
       /\ SF_vars(Reap(h)) /\ SF_vars(Reconcile(h)) /\ SF_vars(Serve(h))

-----------------------------------------------------------------------------
(* Properties. *)

TypeOK ==
  /\ holder \in Holder \cup {NoHolder} /\ token \in 0..MaxToken /\ left \in 0..Ttl
  /\ desired \in BOOLEAN /\ version \in 1..MaxVersion /\ orphans \subseteq Request
  /\ phase \in [Holder -> {"idle", "acquiring", "creating", "renewing",
                           "stopping", "releasing", "down"}]
  /\ after \in [Holder -> {"idle", "failed", "start", "down"}]
  /\ call \in [Holder -> [kind : Kind \cup {"idle"}, token : 0..MaxToken,
                          state : {"sent", "ok", "none"}]]
  /\ age \in [Holder -> 0..Ttl] /\ held \in [Holder -> 0..MaxToken]
  /\ ver \in [Holder -> 0..MaxVersion] /\ listed \in [Holder -> 0..MaxVersion]
  /\ stopIn \in [Holder -> -Ttl..Ttl] /\ renewIn \in [Holder -> 0..Renew]
  /\ retryIn \in [Holder -> 0..BackoffMax]
  /\ job \in [Holder -> 0..MaxToken] /\ lastJob \in 0..MaxToken

\* No two runtimes run a job of the pipeline at the same time, however late
\* the control database answers and whatever orphaned requests still arrive.
ExclusiveJobs == \A g, h \in Holder : job[g] # 0 /\ job[h] # 0 => g = h

\* A job runs only while its runtime is the holder of an unexpired lease: no
\* late request of the same holder ends the lease under a newer job.  The
\* reconciler always knows of it, so that the next start of the pipeline never
\* meets AlreadyRunning.
LeaseCoversJob ==
  \A h \in Holder :
    /\ job[h] # 0 => holder = h /\ left > 0 /\ job[h] = held[h]
    /\ phase[h] \in {"acquiring", "creating", "down"} => job[h] = 0

\* The leases implement exclusive ownership with increasing tokens.
Ownership == INSTANCE Ownership WITH
  running <- {job[h] : h \in Holder} \ {0}, last <- lastJob
RefinesOwnership == Ownership!Spec

\* A wanted pipeline gets a job again after crashes, lost leases and failures,
\* as long as a runtime is up and tokens remain.
Up == {h \in Holder : phase[h] # "down"}
EventuallyRuns ==
  desired ~> \/ ~desired \/ Up = {} \/ token = MaxToken
             \/ \E h \in Holder : job[h] # 0

\* A job whose definition was changed or is no longer wanted is stopped.
Stale(h) == job[h] # 0 /\ (~desired \/ ver[h] # version)
StaleJobStops == \A h \in Holder : Stale(h) ~> ~Stale(h)
=============================================================================
