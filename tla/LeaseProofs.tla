----------------------------- MODULE LeaseProofs -----------------------------
(***************************************************************************)
(* Proofs about the module Lease, for every set of runtimes, every valid   *)
(* configuration of the durations and every bound: no two runtimes run a   *)
(* job of the pipeline at a time, a job runs only under an unexpired lease *)
(* of its own runtime, and the leases implement exclusive ownership with   *)
(* increasing fencing tokens.                                              *)
(*                                                                         *)
(* The argument: what a runtime knows of its lease is always more cautious *)
(* than the row in the control database.  The guard's deadline lies Renew  *)
(* before the end of the lease, because it counts from the time of the     *)
(* request and the database counts from the time it served it.  While that *)
(* holds, nobody else can acquire the lease, and no request that the       *)
(* runtime itself gave up earlier can end it: a late release carries a     *)
(* token older than the one in use.                                        *)
(***************************************************************************)
EXTENDS Lease, TLAPS

-----------------------------------------------------------------------------
(* The inductive invariant. *)

\* Where the loop is tells what it owns and which call it waits for.
PhaseInv ==
  \A h \in Holder :
    /\ phase[h] \in {"acquiring", "releasing", "down"} => held[h] = 0
    /\ phase[h] \in {"creating", "renewing", "stopping"} => held[h] # 0
    /\ phase[h] = "acquiring" => call[h].kind = "acquire"
    /\ phase[h] = "renewing" => call[h].kind = "renew" /\ call[h].token = held[h]
    /\ phase[h] = "releasing" => call[h].kind = "release"
    /\ phase[h] \in {"idle", "creating", "stopping", "down"} => call[h] = NoCall

\* A task belongs to the OwnedPipeline of its runtime.
JobInv ==
  \A h \in Holder :
    job[h] # 0 => job[h] = held[h] /\ phase[h] \in {"idle", "renewing", "stopping"}

\* The guard is late by at most Delay, and counts from the request.
GuardInv ==
  \A h \in Holder :
    /\ stopIn[h] >= -Delay
    /\ held[h] = 0 => stopIn[h] = 0
    /\ stopIn[h] > 0 => stopIn[h] + age[h] <= Ttl - Renew

\* No token is used before it was granted.
GrantedCall(h) == phase[h] = "acquiring" /\ call[h].state = "ok"
TokenInv ==
  /\ lastJob <= token
  /\ \A h \in Holder :
       /\ held[h] <= token
       /\ phase[h] = "releasing" => call[h].token <= token
       /\ GrantedCall(h) => call[h].token \in 1..token

\* A release that was given up names a token older than the one in use.
OrphanInv ==
  \A o \in orphans : o.kind = "release" =>
    /\ o.token <= token
    /\ held[o.by] # 0 => o.token < held[o.by]
    /\ GrantedCall(o.by) => o.token < call[o.by].token

\* h has the lease for at least n more units of time.
Has(h, n) == holder = h /\ left >= n

\* As long as a job runs or may be started, the guard ends before the lease.
CoverInv ==
  \A h \in Holder :
    held[h] # 0 /\ (job[h] # 0 \/ stopIn[h] > 0) => Has(h, stopIn[h] + Renew)

\* An answer that was not seen yet is as old as its request at most.
AnswerInv ==
  \A h \in Holder :
    /\ GrantedCall(h) /\ age[h] < Ttl => Has(h, Ttl - age[h])
    /\ phase[h] = "renewing" /\ call[h].state = "ok" /\ stopIn[h] > 0
         => Has(h, Ttl - age[h])

\* A lease that can still lead to a job has a larger token than every job before.
FreshInv ==
  \A h \in Holder :
    /\ GrantedCall(h) /\ age[h] < Ttl => lastJob < call[h].token
    /\ phase[h] = "creating" /\ stopIn[h] > 0 => lastJob < held[h]

IInv ==
  /\ TypeOK /\ PhaseInv /\ JobInv /\ GuardInv /\ TokenInv /\ OrphanInv
  /\ CoverInv /\ AnswerInv /\ FreshInv

-----------------------------------------------------------------------------
(* Every step keeps each part of the invariant. *)

USE DEF Set, row, definition, timers, control, owned, tasks

\* Every step keeps the types of the variables: in particular a token never
\* passes its bound and a request that is given up is a well-formed one.
LEMMA TypeStep ==
  ASSUME IInv, Next
  PROVE  TypeOK'
<1> USE ConfigAssumption DEF ValidConfig, IInv, TypeOK, PhaseInv, NoCall,
        Kind, Request
<1>1. CASE Redefine \/ SetDesired
  <2>1. CASE Redefine
    BY <2>1 DEF Redefine
  <2>2. CASE SetDesired
    BY <2>2 DEF SetDesired
  <2> QED BY <1>1, <2>1, <2>2
<1>2. CASE Tick
  BY <1>2 DEF Tick, AtLeastZero, Least, Waits
<1>3. ASSUME NEW o \in orphans, ServeOrphan(o) PROVE TypeOK'
  BY <1>3 DEF ServeOrphan, Execute, Matches, CanAcquire, GrantedToken, Within
<1>4. ASSUME NEW h \in Holder, Serve(h) PROVE TypeOK'
  BY <1>4 DEF Serve, Execute, Matches, CanAcquire, GrantedToken, Within
<1>5. ASSUME NEW h \in Holder, JobEnds(h) \/ DeadlineReached(h) PROVE TypeOK'
  BY <1>5 DEF JobEnds, DeadlineReached
<1>6. ASSUME NEW h \in Holder, Shutdown(h) PROVE TypeOK'
  <2>1. CASE held[h] # 0
    <3>1. Cancel(h, "down") /\ UNCHANGED <<row, definition, orphans, owned, stopIn, renewIn, retryIn, tasks>>
      BY <1>6, <2>1 DEF Shutdown
    <3> QED BY <3>1 DEF Cancel
  <2>2. CASE held[h] = 0
    <3>1. /\ phase' = [phase EXCEPT ![h] = "down"]
          /\ UNCHANGED <<row, definition, orphans, after, call, owned, timers, tasks>>
      BY <1>6, <2>2 DEF Shutdown
    <3> QED BY <3>1
  <2> QED BY <2>1, <2>2
<1>7. ASSUME NEW h \in Holder, Crash(h) PROVE TypeOK'
  BY <1>7 DEF Crash, GiveUp, Abandoned, ForgetFailures
<1>8. ASSUME NEW h \in Holder, Reap(h) PROVE TypeOK'
  BY <1>8 DEF Reap, Release, StartCall, Send
<1>9. ASSUME NEW h \in Holder, RenewLease(h) PROVE TypeOK'
  BY <1>9 DEF RenewLease, StartCall, Send
<1>10. ASSUME NEW h \in Holder, Joined(h) PROVE TypeOK'
  BY <1>10 DEF Joined, Release, StartCall, Send
<1>11. ASSUME NEW h \in Holder, Spawn(h) PROVE TypeOK'
  BY <1>11 DEF Spawn, SupervisorStart, Expired, Idle, RenewalIn, AtLeastZero
<1>12. ASSUME NEW h \in Holder, ReconcileUnwanted(h) PROVE TypeOK'
  <2>1. CASE held[h] # 0
    <3>1. /\ Cancel(h, "idle") /\ ForgetFailures(h)
          /\ UNCHANGED <<row, definition, orphans, owned, stopIn, renewIn, tasks>>
      BY <1>12, <2>1 DEF ReconcileUnwanted
    <3> QED BY <3>1 DEF Cancel, ForgetFailures
  <2>2. CASE held[h] = 0
    BY <1>12, <2>2 DEF ReconcileUnwanted, ForgetFailures
  <2> QED BY <2>1, <2>2
<1>13. ASSUME NEW h \in Holder, ReconcileChanged(h) PROVE TypeOK'
  BY <1>13 DEF ReconcileChanged, Cancel, ForgetFailures
<1>14. ASSUME NEW h \in Holder, ReconcileStart(h) PROVE TypeOK'
  BY <1>14 DEF ReconcileStart, StartCall, Send
<1>15. ASSUME NEW h \in Holder, Renewed(h) PROVE TypeOK'
  BY <1>15 DEF Renewed, Expired, Idle, StopIn, RenewalIn, AtLeastZero
<1>16. ASSUME NEW h \in Holder, NotAcquired(h) PROVE TypeOK'
  BY <1>16 DEF NotAcquired, Idle
<1>17. ASSUME NEW h \in Holder, Acquired(h) PROVE TypeOK'
  <2>1. CASE StopIn(age[h]) <= 0
    <3>1. /\ Release(h, call[h].token, "failed")
          /\ UNCHANGED <<row, definition, orphans, retryIn, tasks>>
      BY <1>17, <2>1 DEF Acquired
    <3> QED BY <3>1 DEF Release, StartCall, Send
  <2>2. CASE ~(StopIn(age[h]) <= 0)
    <3>1. /\ stopIn' = [stopIn EXCEPT ![h] = StopIn(age[h])]
          /\ phase' = [phase EXCEPT ![h] = "creating"]
          /\ held' = [held EXCEPT ![h] = call[h].token]
          /\ call' = [call EXCEPT ![h] = NoCall]
          /\ UNCHANGED <<row, definition, orphans, after, ver, listed, age, renewIn, retryIn, tasks>>
      BY <1>17, <2>2 DEF Acquired
    <3> QED BY <3>1 DEF StopIn
  <2> QED BY <2>1, <2>2
<1>18. ASSUME NEW h \in Holder, ReleaseEnds(h) PROVE TypeOK'
  <2>1. orphans' \subseteq Request
    BY <1>18 DEF ReleaseEnds, GiveUp, Abandoned
  <2>2. retryIn' \in [Holder -> 0..BackoffMax]
    <3>1. RecordFailure(h) \/ retryIn' = retryIn
      BY <1>18 DEF ReleaseEnds
    <3> QED BY <3>1 DEF RecordFailure
  <2>3. /\ phase' \in [Holder -> {"idle", "acquiring", "creating", "renewing",
                                 "stopping", "releasing", "down"}]
        /\ call' \in [Holder -> [kind : Kind \cup {"idle"}, token : 0..MaxToken,
                                 state : {"sent", "ok", "none"}]]
    <3>1. \/ StartCall(h, "acquiring", "acquire", 0)
          \/ /\ \E p \in {"idle", "down"} : phase' = [phase EXCEPT ![h] = p]
             /\ call' = [call EXCEPT ![h] = NoCall]
      BY <1>18 DEF ReleaseEnds
    <3> QED BY <3>1 DEF StartCall, Send
  <2>4. /\ after' = [after EXCEPT ![h] = "idle"]
        /\ UNCHANGED <<row, definition, owned, age, stopIn, renewIn, tasks>>
    BY <1>18 DEF ReleaseEnds
  <2> QED BY <2>1, <2>2, <2>3, <2>4
<1>19. ASSUME NEW h \in Holder, RenewalLost(h) PROVE TypeOK'
  BY <1>19 DEF RenewalLost, GiveUp, Abandoned, Cancel
<1>20. ASSUME NEW h \in Holder, AcquireFails(h) PROVE TypeOK'
  BY <1>20 DEF AcquireFails, GiveUp, Abandoned, RecordFailure, Idle
<1>21. ASSUME NEW h \in Holder, CreateFails(h) PROVE TypeOK'
  BY <1>21 DEF CreateFails, Release, StartCall, Send
<1> QED
  BY <1>1, <1>2, <1>3, <1>4, <1>5, <1>6, <1>7, <1>8, <1>9, <1>10, <1>11,
     <1>12, <1>13, <1>14, <1>15, <1>16, <1>17, <1>18, <1>19, <1>20, <1>21
  DEF Next, Loop, Reconcile, Answered, Fails

\* Every step of the loop leaves the phase, the owned pipeline and the
\* outstanding call in agreement.
LEMMA PhaseStep ==
  ASSUME TypeOK, PhaseInv, TokenInv, Next
  PROVE  PhaseInv'
<1> USE ConfigAssumption DEF TypeOK, PhaseInv, NoCall, TokenInv, GrantedCall
<1>1. CASE Redefine \/ SetDesired
  BY <1>1 DEF Redefine, SetDesired
<1>2. CASE Tick
  BY <1>2 DEF Tick, AtLeastZero, Least, Waits
<1>3. ASSUME NEW o \in orphans, ServeOrphan(o) PROVE PhaseInv'
  BY <1>3 DEF ServeOrphan, Execute, Matches, CanAcquire, GrantedToken, Within
<1>4. ASSUME NEW h \in Holder, Serve(h) PROVE PhaseInv'
  BY <1>4 DEF Serve, Execute, Matches, CanAcquire, GrantedToken, Within
<1>5. ASSUME NEW h \in Holder, JobEnds(h) \/ DeadlineReached(h) PROVE PhaseInv'
  BY <1>5 DEF JobEnds, DeadlineReached
<1>6. ASSUME NEW h \in Holder, Shutdown(h) PROVE PhaseInv'
  BY <1>6 DEF Shutdown, Cancel
<1>7. ASSUME NEW h \in Holder, Crash(h) PROVE PhaseInv'
  BY <1>7 DEF Crash, GiveUp, Abandoned, ForgetFailures
<1>8. ASSUME NEW h \in Holder, Reap(h) PROVE PhaseInv'
  BY <1>8 DEF Reap, Release, StartCall, Send
<1>9. ASSUME NEW h \in Holder, RenewLease(h) PROVE PhaseInv'
  BY <1>9 DEF RenewLease, StartCall, Send
<1>10. ASSUME NEW h \in Holder, Joined(h) PROVE PhaseInv'
  BY <1>10 DEF Joined, Release, StartCall, Send
<1>11. ASSUME NEW h \in Holder, Spawn(h) PROVE PhaseInv'
  BY <1>11 DEF Spawn, SupervisorStart, Expired, Idle, RenewalIn, AtLeastZero
<1>12. ASSUME NEW h \in Holder, ReconcileUnwanted(h) PROVE PhaseInv'
  BY <1>12 DEF ReconcileUnwanted, Cancel, ForgetFailures
<1>13. ASSUME NEW h \in Holder, ReconcileChanged(h) PROVE PhaseInv'
  BY <1>13 DEF ReconcileChanged, Cancel, ForgetFailures
<1>14. ASSUME NEW h \in Holder, ReconcileStart(h) PROVE PhaseInv'
  BY <1>14 DEF ReconcileStart, StartCall, Send
<1>15. ASSUME NEW h \in Holder, Renewed(h) PROVE PhaseInv'
  BY <1>15 DEF Renewed, Expired, Idle, StopIn, RenewalIn, AtLeastZero
<1>16. ASSUME NEW h \in Holder, NotAcquired(h) PROVE PhaseInv'
  BY <1>16 DEF NotAcquired, Idle
<1>17. ASSUME NEW h \in Holder, Acquired(h) PROVE PhaseInv'
  BY <1>17 DEF Acquired, StopIn, Release, StartCall, Send
<1>18. ASSUME NEW h \in Holder, ReleaseEnds(h) PROVE PhaseInv'
  BY <1>18 DEF ReleaseEnds, GiveUp, Abandoned, RecordFailure, StartCall, Send
<1>19. ASSUME NEW h \in Holder, RenewalLost(h) PROVE PhaseInv'
  BY <1>19 DEF RenewalLost, GiveUp, Abandoned, Cancel
<1>20. ASSUME NEW h \in Holder, AcquireFails(h) PROVE PhaseInv'
  BY <1>20 DEF AcquireFails, GiveUp, Abandoned, RecordFailure, Idle
<1>21. ASSUME NEW h \in Holder, CreateFails(h) PROVE PhaseInv'
  BY <1>21 DEF CreateFails, Release, StartCall, Send
<1> QED
  BY <1>1, <1>2, <1>3, <1>4, <1>5, <1>6, <1>7, <1>8, <1>9, <1>10, <1>11,
     <1>12, <1>13, <1>14, <1>15, <1>16, <1>17, <1>18, <1>19, <1>20, <1>21
  DEF Next, Loop, Reconcile, Answered, Fails

\* The supervisor runs a task only for the pipeline its reconciler owns.
LEMMA JobStep ==
  ASSUME TypeOK, PhaseInv, JobInv, Next
  PROVE  JobInv'
<1> USE DEF TypeOK, PhaseInv, JobInv, NoCall
<1>1. CASE Redefine \/ SetDesired
  BY <1>1 DEF Redefine, SetDesired
<1>2. CASE Tick
  BY <1>2 DEF Tick, AtLeastZero, Least, Waits
<1>3. ASSUME NEW o \in orphans, ServeOrphan(o) PROVE JobInv'
  BY <1>3 DEF ServeOrphan, Execute, Matches, CanAcquire, GrantedToken, Within
<1>4. ASSUME NEW h \in Holder, Serve(h) PROVE JobInv'
  BY <1>4 DEF Serve, Execute, Matches, CanAcquire, GrantedToken, Within
<1>5. ASSUME NEW h \in Holder, JobEnds(h) \/ DeadlineReached(h) PROVE JobInv'
  BY <1>5 DEF JobEnds, DeadlineReached
<1>6. ASSUME NEW h \in Holder, Shutdown(h) PROVE JobInv'
  BY <1>6 DEF Shutdown, Cancel
<1>7. ASSUME NEW h \in Holder, Crash(h) PROVE JobInv'
  BY <1>7 DEF Crash, GiveUp, Abandoned, ForgetFailures
<1>8. ASSUME NEW h \in Holder, Reap(h) PROVE JobInv'
  BY <1>8 DEF Reap, Release, StartCall, Send
<1>9. ASSUME NEW h \in Holder, RenewLease(h) PROVE JobInv'
  BY <1>9 DEF RenewLease, StartCall, Send
<1>10. ASSUME NEW h \in Holder, Joined(h) PROVE JobInv'
  BY <1>10 DEF Joined, Release, StartCall, Send
<1>11. ASSUME NEW h \in Holder, Spawn(h) PROVE JobInv'
  BY <1>11 DEF Spawn, SupervisorStart, Expired, Idle, RenewalIn, AtLeastZero
<1>12. ASSUME NEW h \in Holder, ReconcileUnwanted(h) PROVE JobInv'
  BY <1>12 DEF ReconcileUnwanted, Cancel, ForgetFailures
<1>13. ASSUME NEW h \in Holder, ReconcileChanged(h) PROVE JobInv'
  BY <1>13 DEF ReconcileChanged, Cancel, ForgetFailures
<1>14. ASSUME NEW h \in Holder, ReconcileStart(h) PROVE JobInv'
  BY <1>14 DEF ReconcileStart, StartCall, Send
<1>15. ASSUME NEW h \in Holder, Renewed(h) PROVE JobInv'
  BY <1>15 DEF Renewed, Expired, Idle, StopIn, RenewalIn, AtLeastZero
<1>16. ASSUME NEW h \in Holder, NotAcquired(h) PROVE JobInv'
  BY <1>16 DEF NotAcquired, Idle
<1>17. ASSUME NEW h \in Holder, Acquired(h) PROVE JobInv'
  BY <1>17 DEF Acquired, StopIn, Release, StartCall, Send
<1>18. ASSUME NEW h \in Holder, ReleaseEnds(h) PROVE JobInv'
  BY <1>18 DEF ReleaseEnds, GiveUp, Abandoned, RecordFailure, StartCall, Send
<1>19. ASSUME NEW h \in Holder, RenewalLost(h) PROVE JobInv'
  BY <1>19 DEF RenewalLost, GiveUp, Abandoned, Cancel
<1>20. ASSUME NEW h \in Holder, AcquireFails(h) PROVE JobInv'
  BY <1>20 DEF AcquireFails, GiveUp, Abandoned, RecordFailure, Idle
<1>21. ASSUME NEW h \in Holder, CreateFails(h) PROVE JobInv'
  BY <1>21 DEF CreateFails, Release, StartCall, Send
<1> QED
  BY <1>1, <1>2, <1>3, <1>4, <1>5, <1>6, <1>7, <1>8, <1>9, <1>10, <1>11,
     <1>12, <1>13, <1>14, <1>15, <1>16, <1>17, <1>18, <1>19, <1>20, <1>21
  DEF Next, Loop, Reconcile, Answered, Fails

\* Arming, rearming and dropping the guard keep its deadline at least Renew
\* before the end of a lease that starts with the request.
LEMMA GuardStep ==
  ASSUME TypeOK, PhaseInv, TokenInv, GuardInv, Next
  PROVE  GuardInv'
<1> USE ConfigAssumption DEF ValidConfig, TypeOK, PhaseInv, GuardInv,
        TokenInv, GrantedCall, NoCall
<1>1. CASE Redefine \/ SetDesired
  BY <1>1 DEF Redefine, SetDesired
<1>2. CASE Tick
  <2> SUFFICES ASSUME NEW h \in Holder
               PROVE  /\ stopIn'[h] >= -Delay /\ (held'[h] = 0 => stopIn'[h] = 0)
                      /\ stopIn'[h] > 0 => stopIn'[h] + age'[h] <= Ttl - Renew
    OBVIOUS
  <2>1. age'[h] <= age[h] + 1 /\ age'[h] \in 0..Ttl
    BY <1>2 DEF Tick, AtLeastZero, Least, Waits
  <2>2. \/ held[h] # 0 /\ stopIn[h] > -Delay /\ stopIn'[h] = stopIn[h] - 1
        \/ stopIn'[h] = stopIn[h] /\ (held[h] = 0 \/ stopIn[h] <= -Delay)
    BY <1>2 DEF Tick
  <2>3. held'[h] = held[h]
    BY <1>2 DEF Tick
  <2> QED BY <2>1, <2>2, <2>3
<1>3. ASSUME NEW o \in orphans, ServeOrphan(o) PROVE GuardInv'
  BY <1>3 DEF ServeOrphan, Execute, Matches, CanAcquire, GrantedToken, Within
<1>4. ASSUME NEW h \in Holder, Serve(h) PROVE GuardInv'
  BY <1>4 DEF Serve, Execute, Matches, CanAcquire, GrantedToken, Within
<1>5. ASSUME NEW h \in Holder, JobEnds(h) \/ DeadlineReached(h) PROVE GuardInv'
  BY <1>5 DEF JobEnds, DeadlineReached
<1>6. ASSUME NEW h \in Holder, Shutdown(h) PROVE GuardInv'
  <2>1. CASE held[h] # 0
    BY <1>6, <2>1 DEF Shutdown, Cancel
  <2>2. CASE held[h] = 0
    BY <1>6, <2>2 DEF Shutdown, Cancel
  <2> QED BY <2>1, <2>2
<1>7. ASSUME NEW h \in Holder, Crash(h) PROVE GuardInv'
  BY <1>7 DEF Crash, GiveUp, Abandoned, ForgetFailures
<1>8. ASSUME NEW h \in Holder, Reap(h) PROVE GuardInv'
  BY <1>8 DEF Reap, Release, StartCall, Send
<1>9. ASSUME NEW h \in Holder, RenewLease(h) PROVE GuardInv'
  BY <1>9 DEF RenewLease, StartCall, Send
<1>10. ASSUME NEW h \in Holder, Joined(h) PROVE GuardInv'
  BY <1>10 DEF Joined, Release, StartCall, Send
<1>11. ASSUME NEW h \in Holder, Spawn(h) PROVE GuardInv'
  BY <1>11 DEF Spawn, SupervisorStart, Expired, Idle, RenewalIn, AtLeastZero
<1>12. ASSUME NEW h \in Holder, ReconcileUnwanted(h) PROVE GuardInv'
  BY <1>12 DEF ReconcileUnwanted, Cancel, ForgetFailures
<1>13. ASSUME NEW h \in Holder, ReconcileChanged(h) PROVE GuardInv'
  BY <1>13 DEF ReconcileChanged, Cancel, ForgetFailures
<1>14. ASSUME NEW h \in Holder, ReconcileStart(h) PROVE GuardInv'
  BY <1>14 DEF ReconcileStart, StartCall, Send
<1>15. ASSUME NEW h \in Holder, Renewed(h) PROVE GuardInv'
  BY <1>15 DEF Renewed, Expired, Idle, StopIn, RenewalIn, AtLeastZero
<1>16. ASSUME NEW h \in Holder, NotAcquired(h) PROVE GuardInv'
  BY <1>16 DEF NotAcquired, Idle
<1>17. ASSUME NEW h \in Holder, Acquired(h) PROVE GuardInv'
  <2>1. CASE StopIn(age[h]) <= 0
    BY <1>17, <2>1 DEF Acquired, StopIn, Release, StartCall, Send
  <2>2. CASE ~(StopIn(age[h]) <= 0)
    BY <1>17, <2>2 DEF Acquired, StopIn, Release, StartCall, Send
  <2> QED BY <2>1, <2>2
<1>18. ASSUME NEW h \in Holder, ReleaseEnds(h) PROVE GuardInv'
  BY <1>18 DEF ReleaseEnds, GiveUp, Abandoned, RecordFailure, StartCall, Send
<1>19. ASSUME NEW h \in Holder, RenewalLost(h) PROVE GuardInv'
  BY <1>19 DEF RenewalLost, GiveUp, Abandoned, Cancel
<1>20. ASSUME NEW h \in Holder, AcquireFails(h) PROVE GuardInv'
  BY <1>20 DEF AcquireFails, GiveUp, Abandoned, RecordFailure, Idle
<1>21. ASSUME NEW h \in Holder, CreateFails(h) PROVE GuardInv'
  BY <1>21 DEF CreateFails, Release, StartCall, Send
<1> QED
  BY <1>1, <1>2, <1>3, <1>4, <1>5, <1>6, <1>7, <1>8, <1>9, <1>10, <1>11,
     <1>12, <1>13, <1>14, <1>15, <1>16, <1>17, <1>18, <1>19, <1>20, <1>21
  DEF Next, Loop, Reconcile, Answered, Fails

\* Tokens in use were granted before, and the row's token never decreases.
LEMMA TokenStep ==
  ASSUME TypeOK, PhaseInv, TokenInv, Next
  PROVE  TokenInv'
<1> USE ConfigAssumption DEF TypeOK, PhaseInv, TokenInv, NoCall, GrantedCall
<1>1. CASE Redefine \/ SetDesired
  BY <1>1 DEF Redefine, SetDesired
<1>2. CASE Tick
  BY <1>2 DEF Tick, AtLeastZero, Least, Waits
<1>3. ASSUME NEW o \in orphans, ServeOrphan(o) PROVE TokenInv'
  BY <1>3 DEF ServeOrphan, Execute, Matches, CanAcquire, GrantedToken, Within
<1>4. ASSUME NEW h \in Holder, Serve(h) PROVE TokenInv'
  BY <1>4 DEF Serve, Execute, Matches, CanAcquire, GrantedToken, Within
<1>5. ASSUME NEW h \in Holder, JobEnds(h) \/ DeadlineReached(h) PROVE TokenInv'
  BY <1>5 DEF JobEnds, DeadlineReached
<1>6. ASSUME NEW h \in Holder, Shutdown(h) PROVE TokenInv'
  BY <1>6 DEF Shutdown, Cancel
<1>7. ASSUME NEW h \in Holder, Crash(h) PROVE TokenInv'
  BY <1>7 DEF Crash, GiveUp, Abandoned, ForgetFailures
<1>8. ASSUME NEW h \in Holder, Reap(h) PROVE TokenInv'
  BY <1>8 DEF Reap, Release, StartCall, Send
<1>9. ASSUME NEW h \in Holder, RenewLease(h) PROVE TokenInv'
  BY <1>9 DEF RenewLease, StartCall, Send
<1>10. ASSUME NEW h \in Holder, Joined(h) PROVE TokenInv'
  BY <1>10 DEF Joined, Release, StartCall, Send
<1>11. ASSUME NEW h \in Holder, Spawn(h) PROVE TokenInv'
  BY <1>11 DEF Spawn, SupervisorStart, Expired, Idle, RenewalIn, AtLeastZero
<1>12. ASSUME NEW h \in Holder, ReconcileUnwanted(h) PROVE TokenInv'
  BY <1>12 DEF ReconcileUnwanted, Cancel, ForgetFailures
<1>13. ASSUME NEW h \in Holder, ReconcileChanged(h) PROVE TokenInv'
  BY <1>13 DEF ReconcileChanged, Cancel, ForgetFailures
<1>14. ASSUME NEW h \in Holder, ReconcileStart(h) PROVE TokenInv'
  BY <1>14 DEF ReconcileStart, StartCall, Send
<1>15. ASSUME NEW h \in Holder, Renewed(h) PROVE TokenInv'
  BY <1>15 DEF Renewed, Expired, Idle, StopIn, RenewalIn, AtLeastZero
<1>16. ASSUME NEW h \in Holder, NotAcquired(h) PROVE TokenInv'
  BY <1>16 DEF NotAcquired, Idle
<1>17. ASSUME NEW h \in Holder, Acquired(h) PROVE TokenInv'
  BY <1>17 DEF Acquired, StopIn, Release, StartCall, Send
<1>18. ASSUME NEW h \in Holder, ReleaseEnds(h) PROVE TokenInv'
  BY <1>18 DEF ReleaseEnds, GiveUp, Abandoned, RecordFailure, StartCall, Send
<1>19. ASSUME NEW h \in Holder, RenewalLost(h) PROVE TokenInv'
  BY <1>19 DEF RenewalLost, GiveUp, Abandoned, Cancel
<1>20. ASSUME NEW h \in Holder, AcquireFails(h) PROVE TokenInv'
  BY <1>20 DEF AcquireFails, GiveUp, Abandoned, RecordFailure, Idle
<1>21. ASSUME NEW h \in Holder, CreateFails(h) PROVE TokenInv'
  BY <1>21 DEF CreateFails, Release, StartCall, Send
<1> QED
  BY <1>1, <1>2, <1>3, <1>4, <1>5, <1>6, <1>7, <1>8, <1>9, <1>10, <1>11,
     <1>12, <1>13, <1>14, <1>15, <1>16, <1>17, <1>18, <1>19, <1>20, <1>21
  DEF Next, Loop, Reconcile, Answered, Fails

\* A release is given up only after its token went out of use, and the next
\* lease of the same holder has a larger token.
LEMMA OrphanStep ==
  ASSUME TypeOK, PhaseInv, TokenInv, OrphanInv, Next
  PROVE  OrphanInv'
<1> USE ConfigAssumption DEF TypeOK, PhaseInv, TokenInv, OrphanInv, NoCall,
        GrantedCall, Request
<1>1. CASE Redefine \/ SetDesired
  BY <1>1 DEF Redefine, SetDesired
<1>2. CASE Tick
  BY <1>2 DEF Tick, AtLeastZero, Least, Waits
<1>3. ASSUME NEW o \in orphans, ServeOrphan(o) PROVE OrphanInv'
  BY <1>3 DEF ServeOrphan, Execute, Matches, CanAcquire, GrantedToken, Within
<1>4. ASSUME NEW h \in Holder, Serve(h) PROVE OrphanInv'
  BY <1>4 DEF Serve, Execute, Matches, CanAcquire, GrantedToken, Within
<1>5. ASSUME NEW h \in Holder, JobEnds(h) \/ DeadlineReached(h) PROVE OrphanInv'
  BY <1>5 DEF JobEnds, DeadlineReached
<1>6. ASSUME NEW h \in Holder, Shutdown(h) PROVE OrphanInv'
  BY <1>6 DEF Shutdown, Cancel
<1>7. ASSUME NEW h \in Holder, Crash(h) PROVE OrphanInv'
  BY <1>7 DEF Crash, GiveUp, Abandoned, ForgetFailures
<1>8. ASSUME NEW h \in Holder, Reap(h) PROVE OrphanInv'
  BY <1>8 DEF Reap, Release, StartCall, Send
<1>9. ASSUME NEW h \in Holder, RenewLease(h) PROVE OrphanInv'
  BY <1>9 DEF RenewLease, StartCall, Send
<1>10. ASSUME NEW h \in Holder, Joined(h) PROVE OrphanInv'
  BY <1>10 DEF Joined, Release, StartCall, Send
<1>11. ASSUME NEW h \in Holder, Spawn(h) PROVE OrphanInv'
  BY <1>11 DEF Spawn, SupervisorStart, Expired, Idle, RenewalIn, AtLeastZero
<1>12. ASSUME NEW h \in Holder, ReconcileUnwanted(h) PROVE OrphanInv'
  BY <1>12 DEF ReconcileUnwanted, Cancel, ForgetFailures
<1>13. ASSUME NEW h \in Holder, ReconcileChanged(h) PROVE OrphanInv'
  BY <1>13 DEF ReconcileChanged, Cancel, ForgetFailures
<1>14. ASSUME NEW h \in Holder, ReconcileStart(h) PROVE OrphanInv'
  BY <1>14 DEF ReconcileStart, StartCall, Send
<1>15. ASSUME NEW h \in Holder, Renewed(h) PROVE OrphanInv'
  BY <1>15 DEF Renewed, Expired, Idle, StopIn, RenewalIn, AtLeastZero
<1>16. ASSUME NEW h \in Holder, NotAcquired(h) PROVE OrphanInv'
  BY <1>16 DEF NotAcquired, Idle
<1>17. ASSUME NEW h \in Holder, Acquired(h) PROVE OrphanInv'
  <2>1. CASE StopIn(age[h]) <= 0
    BY <1>17, <2>1 DEF Acquired, StopIn, Release, StartCall, Send
  <2>2. CASE ~(StopIn(age[h]) <= 0)
    BY <1>17, <2>2 DEF Acquired, StopIn, Release, StartCall, Send
  <2> QED BY <2>1, <2>2
<1>18. ASSUME NEW h \in Holder, ReleaseEnds(h) PROVE OrphanInv'
  <2>1. /\ held[h] = 0 /\ UNCHANGED <<row, held>>
        /\ ~GrantedCall(h)'
        /\ \A g \in Holder \ {h} : phase'[g] = phase[g] /\ call'[g] = call[g]
    BY <1>18 DEF ReleaseEnds, StartCall, Send
  <2>2. \/ orphans' = orphans
        \/ orphans' = orphans \cup {Abandoned(h)}
    BY <1>18 DEF ReleaseEnds, GiveUp
  <2>3. Abandoned(h).by = h /\ Abandoned(h).token <= token
    BY <1>18 DEF ReleaseEnds, Abandoned
  <2> QED BY <2>1, <2>2, <2>3
<1>19. ASSUME NEW h \in Holder, RenewalLost(h) PROVE OrphanInv'
  BY <1>19 DEF RenewalLost, GiveUp, Abandoned, Cancel
<1>20. ASSUME NEW h \in Holder, AcquireFails(h) PROVE OrphanInv'
  BY <1>20 DEF AcquireFails, GiveUp, Abandoned, RecordFailure, Idle
<1>21. ASSUME NEW h \in Holder, CreateFails(h) PROVE OrphanInv'
  BY <1>21 DEF CreateFails, Release, StartCall, Send
<1> QED
  BY <1>1, <1>2, <1>3, <1>4, <1>5, <1>6, <1>7, <1>8, <1>9, <1>10, <1>11,
     <1>12, <1>13, <1>14, <1>15, <1>16, <1>17, <1>18, <1>19, <1>20, <1>21
  DEF Next, Loop, Reconcile, Answered, Fails

\* Nothing that is executed while a job runs, or may be started, takes the
\* lease away before the guard's deadline and Renew.
LEMMA CoverStep ==
  ASSUME TypeOK, PhaseInv, JobInv, GuardInv, TokenInv, OrphanInv, CoverInv, AnswerInv, Next
  PROVE  CoverInv'
<1> USE ConfigAssumption DEF ValidConfig, TypeOK, PhaseInv, JobInv, GuardInv,
        TokenInv, OrphanInv, CoverInv, AnswerInv, NoCall, GrantedCall, Has
<1>1. CASE Redefine \/ SetDesired
  BY <1>1 DEF Redefine, SetDesired
<1>2. CASE Tick
  BY <1>2 DEF Tick, AtLeastZero, Least, Waits
<1>3. ASSUME NEW o \in orphans, ServeOrphan(o) PROVE CoverInv'
  BY <1>3 DEF ServeOrphan, Execute, Matches, CanAcquire, GrantedToken, Within
<1>4. ASSUME NEW h \in Holder, Serve(h) PROVE CoverInv'
  BY <1>4 DEF Serve, Execute, Matches, CanAcquire, GrantedToken, Within
<1>5. ASSUME NEW h \in Holder, JobEnds(h) \/ DeadlineReached(h) PROVE CoverInv'
  BY <1>5 DEF JobEnds, DeadlineReached
<1>6. ASSUME NEW h \in Holder, Shutdown(h) PROVE CoverInv'
  BY <1>6 DEF Shutdown, Cancel
<1>7. ASSUME NEW h \in Holder, Crash(h) PROVE CoverInv'
  BY <1>7 DEF Crash, GiveUp, Abandoned, ForgetFailures
<1>8. ASSUME NEW h \in Holder, Reap(h) PROVE CoverInv'
  BY <1>8 DEF Reap, Release, StartCall, Send
<1>9. ASSUME NEW h \in Holder, RenewLease(h) PROVE CoverInv'
  BY <1>9 DEF RenewLease, StartCall, Send
<1>10. ASSUME NEW h \in Holder, Joined(h) PROVE CoverInv'
  BY <1>10 DEF Joined, Release, StartCall, Send
<1>11. ASSUME NEW h \in Holder, Spawn(h) PROVE CoverInv'
  BY <1>11 DEF Spawn, SupervisorStart, Expired, Idle, RenewalIn, AtLeastZero
<1>12. ASSUME NEW h \in Holder, ReconcileUnwanted(h) PROVE CoverInv'
  BY <1>12 DEF ReconcileUnwanted, Cancel, ForgetFailures
<1>13. ASSUME NEW h \in Holder, ReconcileChanged(h) PROVE CoverInv'
  BY <1>13 DEF ReconcileChanged, Cancel, ForgetFailures
<1>14. ASSUME NEW h \in Holder, ReconcileStart(h) PROVE CoverInv'
  BY <1>14 DEF ReconcileStart, StartCall, Send
<1>15. ASSUME NEW h \in Holder, Renewed(h) PROVE CoverInv'
  BY <1>15 DEF Renewed, Expired, Idle, StopIn, RenewalIn, AtLeastZero
<1>16. ASSUME NEW h \in Holder, NotAcquired(h) PROVE CoverInv'
  BY <1>16 DEF NotAcquired, Idle
<1>17. ASSUME NEW h \in Holder, Acquired(h) PROVE CoverInv'
  <2>1. CASE StopIn(age[h]) <= 0
    BY <1>17, <2>1 DEF Acquired, StopIn, Release, StartCall, Send
  <2>2. CASE ~(StopIn(age[h]) <= 0)
    BY <1>17, <2>2 DEF Acquired, StopIn, Release, StartCall, Send
  <2> QED BY <2>1, <2>2
<1>18. ASSUME NEW h \in Holder, ReleaseEnds(h) PROVE CoverInv'
  BY <1>18 DEF ReleaseEnds, GiveUp, Abandoned, RecordFailure, StartCall, Send
<1>19. ASSUME NEW h \in Holder, RenewalLost(h) PROVE CoverInv'
  BY <1>19 DEF RenewalLost, GiveUp, Abandoned, Cancel
<1>20. ASSUME NEW h \in Holder, AcquireFails(h) PROVE CoverInv'
  BY <1>20 DEF AcquireFails, GiveUp, Abandoned, RecordFailure, Idle
<1>21. ASSUME NEW h \in Holder, CreateFails(h) PROVE CoverInv'
  BY <1>21 DEF CreateFails, Release, StartCall, Send
<1> QED
  BY <1>1, <1>2, <1>3, <1>4, <1>5, <1>6, <1>7, <1>8, <1>9, <1>10, <1>11,
     <1>12, <1>13, <1>14, <1>15, <1>16, <1>17, <1>18, <1>19, <1>20, <1>21
  DEF Next, Loop, Reconcile, Answered, Fails

\* A granted lease lasts for its term counted from the request, as long as the
\* answer can still be used.
LEMMA AnswerStep ==
  ASSUME TypeOK, PhaseInv, GuardInv, TokenInv, OrphanInv, CoverInv, AnswerInv, Next
  PROVE  AnswerInv'
<1> USE ConfigAssumption DEF ValidConfig, TypeOK, PhaseInv, GuardInv,
        TokenInv, OrphanInv, CoverInv, AnswerInv, NoCall, GrantedCall, Has
<1>1. CASE Redefine \/ SetDesired
  BY <1>1 DEF Redefine, SetDesired
<1>2. CASE Tick
  BY <1>2 DEF Tick, AtLeastZero, Least, Waits
<1>3. ASSUME NEW o \in orphans, ServeOrphan(o) PROVE AnswerInv'
  BY <1>3 DEF ServeOrphan, Execute, Matches, CanAcquire, GrantedToken, Within
<1>4. ASSUME NEW h \in Holder, Serve(h) PROVE AnswerInv'
  BY <1>4 DEF Serve, Execute, Matches, CanAcquire, GrantedToken, Within
<1>5. ASSUME NEW h \in Holder, JobEnds(h) \/ DeadlineReached(h) PROVE AnswerInv'
  BY <1>5 DEF JobEnds, DeadlineReached
<1>6. ASSUME NEW h \in Holder, Shutdown(h) PROVE AnswerInv'
  BY <1>6 DEF Shutdown, Cancel
<1>7. ASSUME NEW h \in Holder, Crash(h) PROVE AnswerInv'
  BY <1>7 DEF Crash, GiveUp, Abandoned, ForgetFailures
<1>8. ASSUME NEW h \in Holder, Reap(h) PROVE AnswerInv'
  BY <1>8 DEF Reap, Release, StartCall, Send
<1>9. ASSUME NEW h \in Holder, RenewLease(h) PROVE AnswerInv'
  BY <1>9 DEF RenewLease, StartCall, Send
<1>10. ASSUME NEW h \in Holder, Joined(h) PROVE AnswerInv'
  BY <1>10 DEF Joined, Release, StartCall, Send
<1>11. ASSUME NEW h \in Holder, Spawn(h) PROVE AnswerInv'
  BY <1>11 DEF Spawn, SupervisorStart, Expired, Idle, RenewalIn, AtLeastZero
<1>12. ASSUME NEW h \in Holder, ReconcileUnwanted(h) PROVE AnswerInv'
  BY <1>12 DEF ReconcileUnwanted, Cancel, ForgetFailures
<1>13. ASSUME NEW h \in Holder, ReconcileChanged(h) PROVE AnswerInv'
  BY <1>13 DEF ReconcileChanged, Cancel, ForgetFailures
<1>14. ASSUME NEW h \in Holder, ReconcileStart(h) PROVE AnswerInv'
  BY <1>14 DEF ReconcileStart, StartCall, Send
<1>15. ASSUME NEW h \in Holder, Renewed(h) PROVE AnswerInv'
  BY <1>15 DEF Renewed, Expired, Idle, StopIn, RenewalIn, AtLeastZero
<1>16. ASSUME NEW h \in Holder, NotAcquired(h) PROVE AnswerInv'
  BY <1>16 DEF NotAcquired, Idle
<1>17. ASSUME NEW h \in Holder, Acquired(h) PROVE AnswerInv'
  BY <1>17 DEF Acquired, StopIn, Release, StartCall, Send
<1>18. ASSUME NEW h \in Holder, ReleaseEnds(h) PROVE AnswerInv'
  BY <1>18 DEF ReleaseEnds, GiveUp, Abandoned, RecordFailure, StartCall, Send
<1>19. ASSUME NEW h \in Holder, RenewalLost(h) PROVE AnswerInv'
  BY <1>19 DEF RenewalLost, GiveUp, Abandoned, Cancel
<1>20. ASSUME NEW h \in Holder, AcquireFails(h) PROVE AnswerInv'
  BY <1>20 DEF AcquireFails, GiveUp, Abandoned, RecordFailure, Idle
<1>21. ASSUME NEW h \in Holder, CreateFails(h) PROVE AnswerInv'
  BY <1>21 DEF CreateFails, Release, StartCall, Send
<1> QED
  BY <1>1, <1>2, <1>3, <1>4, <1>5, <1>6, <1>7, <1>8, <1>9, <1>10, <1>11,
     <1>12, <1>13, <1>14, <1>15, <1>16, <1>17, <1>18, <1>19, <1>20, <1>21
  DEF Next, Loop, Reconcile, Answered, Fails

\* While a lease can lead to a job nobody else starts one, so its token stays
\* larger than that of every earlier job.
LEMMA FreshStep ==
  ASSUME TypeOK, PhaseInv, GuardInv, TokenInv, CoverInv, AnswerInv, FreshInv, Next
  PROVE  FreshInv'
<1> USE ConfigAssumption DEF ValidConfig, TypeOK, PhaseInv, GuardInv,
        TokenInv, CoverInv, AnswerInv, FreshInv, NoCall, GrantedCall, Has
<1>1. CASE Redefine \/ SetDesired
  BY <1>1 DEF Redefine, SetDesired
<1>2. CASE Tick
  BY <1>2 DEF Tick, AtLeastZero, Least, Waits
<1>3. ASSUME NEW o \in orphans, ServeOrphan(o) PROVE FreshInv'
  BY <1>3 DEF ServeOrphan, Execute, Matches, CanAcquire, GrantedToken, Within
<1>4. ASSUME NEW h \in Holder, Serve(h) PROVE FreshInv'
  BY <1>4 DEF Serve, Execute, Matches, CanAcquire, GrantedToken, Within
<1>5. ASSUME NEW h \in Holder, JobEnds(h) \/ DeadlineReached(h) PROVE FreshInv'
  BY <1>5 DEF JobEnds, DeadlineReached
<1>6. ASSUME NEW h \in Holder, Shutdown(h) PROVE FreshInv'
  BY <1>6 DEF Shutdown, Cancel
<1>7. ASSUME NEW h \in Holder, Crash(h) PROVE FreshInv'
  BY <1>7 DEF Crash, GiveUp, Abandoned, ForgetFailures
<1>8. ASSUME NEW h \in Holder, Reap(h) PROVE FreshInv'
  BY <1>8 DEF Reap, Release, StartCall, Send
<1>9. ASSUME NEW h \in Holder, RenewLease(h) PROVE FreshInv'
  BY <1>9 DEF RenewLease, StartCall, Send
<1>10. ASSUME NEW h \in Holder, Joined(h) PROVE FreshInv'
  BY <1>10 DEF Joined, Release, StartCall, Send
<1>11. ASSUME NEW h \in Holder, Spawn(h) PROVE FreshInv'
  BY <1>11 DEF Spawn, SupervisorStart, Expired, Idle, RenewalIn, AtLeastZero
<1>12. ASSUME NEW h \in Holder, ReconcileUnwanted(h) PROVE FreshInv'
  BY <1>12 DEF ReconcileUnwanted, Cancel, ForgetFailures
<1>13. ASSUME NEW h \in Holder, ReconcileChanged(h) PROVE FreshInv'
  BY <1>13 DEF ReconcileChanged, Cancel, ForgetFailures
<1>14. ASSUME NEW h \in Holder, ReconcileStart(h) PROVE FreshInv'
  BY <1>14 DEF ReconcileStart, StartCall, Send
<1>15. ASSUME NEW h \in Holder, Renewed(h) PROVE FreshInv'
  BY <1>15 DEF Renewed, Expired, Idle, StopIn, RenewalIn, AtLeastZero
<1>16. ASSUME NEW h \in Holder, NotAcquired(h) PROVE FreshInv'
  BY <1>16 DEF NotAcquired, Idle
<1>17. ASSUME NEW h \in Holder, Acquired(h) PROVE FreshInv'
  <2>1. CASE StopIn(age[h]) <= 0
    BY <1>17, <2>1 DEF Acquired, StopIn, Release, StartCall, Send
  <2>2. CASE ~(StopIn(age[h]) <= 0)
    BY <1>17, <2>2 DEF Acquired, StopIn, Release, StartCall, Send
  <2> QED BY <2>1, <2>2
<1>18. ASSUME NEW h \in Holder, ReleaseEnds(h) PROVE FreshInv'
  BY <1>18 DEF ReleaseEnds, GiveUp, Abandoned, RecordFailure, StartCall, Send
<1>19. ASSUME NEW h \in Holder, RenewalLost(h) PROVE FreshInv'
  BY <1>19 DEF RenewalLost, GiveUp, Abandoned, Cancel
<1>20. ASSUME NEW h \in Holder, AcquireFails(h) PROVE FreshInv'
  BY <1>20 DEF AcquireFails, GiveUp, Abandoned, RecordFailure, Idle
<1>21. ASSUME NEW h \in Holder, CreateFails(h) PROVE FreshInv'
  BY <1>21 DEF CreateFails, Release, StartCall, Send
<1> QED
  BY <1>1, <1>2, <1>3, <1>4, <1>5, <1>6, <1>7, <1>8, <1>9, <1>10, <1>11,
     <1>12, <1>13, <1>14, <1>15, <1>16, <1>17, <1>18, <1>19, <1>20, <1>21
  DEF Next, Loop, Reconcile, Answered, Fails

-----------------------------------------------------------------------------
(* The invariant holds in every reachable state. *)

\* The initial state satisfies the invariant: nobody owns anything.
LEMMA InitIInv ==
  ASSUME Init
  PROVE  IInv
<1> USE ConfigAssumption DEF Init, ValidConfig, NoCall, Request, Kind, GrantedCall
<1>1. TypeOK
  BY DEF TypeOK
<1>2. PhaseInv /\ JobInv /\ GuardInv
  BY DEF PhaseInv, JobInv, GuardInv
<1>3. TokenInv /\ OrphanInv
  BY DEF TokenInv, OrphanInv
<1>4. CoverInv /\ AnswerInv /\ FreshInv
  BY DEF CoverInv, AnswerInv, FreshInv
<1> QED BY <1>1, <1>2, <1>3, <1>4 DEF IInv

\* Every step keeps the invariant, a stuttering step included.
LEMMA NextIInv ==
  ASSUME IInv, [Next]_vars
  PROVE  IInv'
<1>1. CASE Next
  <2> USE <1>1 DEF IInv
  <2>1. TypeOK' /\ PhaseInv' /\ JobInv'
    BY TypeStep, PhaseStep, JobStep
  <2>2. GuardInv' /\ TokenInv' /\ OrphanInv'
    BY GuardStep, TokenStep, OrphanStep
  <2>3. CoverInv' /\ AnswerInv' /\ FreshInv'
    BY CoverStep, AnswerStep, FreshStep
  <2> QED BY <2>1, <2>2, <2>3
<1>2. CASE UNCHANGED vars
  BY <1>2 DEF vars, IInv, TypeOK, PhaseInv, JobInv, GuardInv, TokenInv, OrphanInv,
              CoverInv, AnswerInv, FreshInv, GrantedCall, Has
<1> QED BY <1>1, <1>2

\* Every reachable state of the leases satisfies the inductive invariant.
THEOREM IInvAlways == Spec => []IInv
BY InitIInv, NextIInv, PTL DEF Spec

\* Types are preserved, for every number of runtimes and every valid
\* configuration.
THEOREM TypeCorrect == Spec => []TypeOK
<1>1. IInv => TypeOK
  BY DEF IInv
<1> QED BY <1>1, IInvAlways, PTL

-----------------------------------------------------------------------------
(* What the leases guarantee. *)

\* Two jobs would each need the row to name their own runtime.
LEMMA OneJob ==
  ASSUME IInv
  PROVE  ExclusiveJobs
BY ConfigAssumption DEF IInv, TypeOK, JobInv, CoverInv, Has, ExclusiveJobs

\* Mutual exclusion: no two runtimes run a job of the pipeline at the same time,
\* whatever the delays of the control database below the guard's margin and
\* whichever abandoned requests still arrive.
THEOREM JobsAreExclusive == Spec => []ExclusiveJobs
BY OneJob, IInvAlways, PTL

\* A job runs only under an unexpired lease of its runtime, and only while the
\* reconciler knows of it.
THEOREM JobsAreCovered == Spec => []LeaseCoversJob
<1>1. IInv => LeaseCoversJob
  <2> SUFFICES ASSUME IInv, NEW h \in Holder, job[h] # 0
               PROVE  /\ holder = h /\ left > 0 /\ job[h] = held[h]
                      /\ phase[h] \notin {"acquiring", "creating", "down"}
    BY DEF LeaseCoversJob
  <2>1. job[h] = held[h] /\ phase[h] \in {"idle", "renewing", "stopping"}
    BY DEF IInv, JobInv
  <2>2. holder = h /\ left >= stopIn[h] + Renew
    BY <2>1 DEF IInv, CoverInv, Has
  <2>3. stopIn[h] >= -Delay /\ stopIn[h] \in Int /\ left \in Int
    BY DEF IInv, GuardInv, TypeOK
  <2> QED BY <2>1, <2>2, <2>3, ConfigAssumption DEF ValidConfig
<1> QED BY <1>1, IInvAlways, PTL

-----------------------------------------------------------------------------
(* The leases implement exclusive ownership. *)

Running == {job[h] : h \in Holder} \ {0}

\* A step that starts no job stops the running one or changes nothing there.
LEMMA StopsOrStutters ==
  ASSUME IInv, NEW h \in Holder, job' = Set(job, h, 0), UNCHANGED lastJob
  PROVE  [Ownership!Next]_<<Running, lastJob>>
<1>1. ExclusiveJobs /\ job \in [Holder -> 0..MaxToken]
  BY OneJob DEF IInv, TypeOK
<1>2. CASE job[h] = 0
  <2>1. job' = job
    BY <1>1, <1>2
  <2> QED BY <2>1 DEF Running
<1>3. CASE job[h] # 0
  <2>1. Running' = {}
    BY <1>1, <1>3 DEF ExclusiveJobs, Running
  <2>2. Running # {}
    BY <1>1, <1>3 DEF Running
  <2> QED BY <2>1, <2>2 DEF Ownership!Next, Ownership!Stop, Running
<1> QED BY <1>2, <1>3

\* A job starts when none runs, with a larger token than any job before it.
LEMMA SpawnStarts ==
  ASSUME IInv, NEW h \in Holder, Spawn(h)
  PROVE  [Ownership!Next]_<<Running, lastJob>>
<1>1. /\ job \in [Holder -> 0..MaxToken] /\ held[h] \in 1..MaxToken
      /\ stopIn[h] > 0 /\ stopIn[h] \in Int /\ lastJob < held[h]
  BY DEF Spawn, Expired, IInv, TypeOK, PhaseInv, FreshInv
<1>2. job[h] = 0 /\ job' = Set(job, h, held[h]) /\ lastJob' = held[h]
  BY DEF Spawn, SupervisorStart
<1>3. holder = h
  BY <1>1 DEF IInv, CoverInv, Has
<1>4. \A g \in Holder : job[g] = 0
  BY <1>1, <1>2, <1>3 DEF IInv, TypeOK, JobInv, CoverInv, Has
<1>5. Running = {}
  BY <1>4 DEF Running
<1>6. Running' = {held[h]}
  BY <1>1, <1>2, <1>4 DEF Running
<1>7. PICK t \in 1..MaxToken : t = held[h]
  BY <1>1
<1>8. Ownership!Start(t)
  BY <1>1, <1>2, <1>5, <1>6, <1>7 DEF Ownership!Start, Running
<1> QED BY <1>8 DEF Ownership!Next

\* The leases refine exclusive ownership: jobs of one pipeline follow one another
\* with increasing fencing tokens.
THEOREM LeasesRefineOwnership == Spec => RefinesOwnership
<1>1. Init => Ownership!Init
  BY DEF Init, Ownership!Init
<1>2. ASSUME IInv, [Next]_vars
      PROVE  [Ownership!Next]_<<Running, lastJob>>
  <2>1. ASSUME NEW h \in Holder, Spawn(h)
        PROVE  [Ownership!Next]_<<Running, lastJob>>
    BY <1>2, <2>1, SpawnStarts
  <2>2. ASSUME NEW h \in Holder,
               Joined(h) \/ Crash(h) \/ JobEnds(h) \/ DeadlineReached(h)
        PROVE  [Ownership!Next]_<<Running, lastJob>>
    <3>1. job' = Set(job, h, 0) /\ UNCHANGED lastJob
      BY <2>2 DEF Joined, Crash, JobEnds, DeadlineReached
    <3> QED BY <1>2, <3>1, StopsOrStutters
  <2>3. CASE UNCHANGED tasks
    BY <2>3 DEF Running
  <2>4. \/ UNCHANGED tasks
        \/ \E h \in Holder :
             Spawn(h) \/ Joined(h) \/ Crash(h) \/ JobEnds(h) \/ DeadlineReached(h)
    <3>1. CASE Redefine \/ SetDesired \/ Tick \/ \E o \in orphans : ServeOrphan(o)
      BY <3>1 DEF Redefine, SetDesired, Tick, ServeOrphan
    <3>2. ASSUME NEW h \in Holder,
                 Serve(h) \/ Shutdown(h) \/ Reap(h) \/ RenewLease(h) \/ Reconcile(h)
                   \/ Answered(h) \/ Fails(h)
          PROVE  UNCHANGED tasks
      BY <3>2 DEF Serve, Shutdown, Reap, RenewLease, Reconcile, ReconcileUnwanted,
                  ReconcileChanged, ReconcileStart, Answered, Renewed, NotAcquired,
                  Acquired, ReleaseEnds, Fails, RenewalLost, AcquireFails, CreateFails
    <3>3. CASE UNCHANGED vars
      BY <3>3 DEF vars
    <3> QED BY <1>2, <3>1, <3>2, <3>3 DEF Next, Loop
  <2> QED BY <2>1, <2>2, <2>3, <2>4
<1> QED
  BY <1>1, <1>2, IInvAlways, PTL DEF Spec, RefinesOwnership, Ownership!Spec, Running
=============================================================================
