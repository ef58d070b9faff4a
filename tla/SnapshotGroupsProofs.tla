------------------------ MODULE SnapshotGroupsProofs ------------------------
(***************************************************************************)
(* Proofs about the module SnapshotGroups, for every set of tables and     *)
(* fingerprints and every bound: the target shows the tables of one group, *)
(* what dead jobs and replaced tables leave can be cleaned up, the owner   *)
(* of the fence is not blocked by it, and nobody else's relation is        *)
(* dropped.                                                                *)
(*                                                                         *)
(* The argument: the fence and the cleanup before it let only the latest   *)
(* group load (GroupInv), so every managed relation is a shadow of that    *)
(* group, a table of the group activated last, or in quarantine under an   *)
(* unpurged record of the log (ManagedInv).  A quarantine name contains    *)
(* the token of the group that lost the table, which loses it once         *)
(* (LogInv).                                                               *)
(***************************************************************************)
EXTENDS SnapshotGroups, TLAPS

-----------------------------------------------------------------------------
(* The inductive invariant. *)

Position == {"idle", "start", "fenced", "clean", "ready", "planned", "loading", "serving",
             "refused", "stopped"}

\* The relation ids that a source table can get.
IsRow(t, row) ==
  /\ row = [rel |-> row.rel, fp |-> row.fp]
  /\ \E i \in 0 .. MaxDdl : row.rel = <<t, i>>

TypeInv ==
  /\ src = [t \in Table |-> src[t]] /\ ddl \in 0 .. MaxDdl
  /\ \A t \in Table : src[t] # NoTable => IsRow(t, src[t])
  /\ gen \in Gen /\ token \in 0 .. MaxToken
  /\ fence = [gen |-> fence.gen, token |-> fence.token]
  /\ fence.gen \in 0 .. MaxGen /\ fence.token \in 0 .. token
  /\ pc \in [Job -> Position] /\ jgen \in [Job -> Gen] /\ plan = [j \in Job |-> plan[j]]
  /\ meddled \in 0 .. MaxForeign

\* An entry of the plan of job j.
IsEntry(t, e, g, j) ==
  /\ e = [rel |-> e.rel, fp |-> e.fp, gen |-> g, shadow |-> Shadow(e.rel, j)]
  /\ \E i \in 0 .. MaxDdl : e.rel = <<t, i>>
IsPlan(p, g, j) ==
  /\ DOMAIN p \subseteq Table /\ p = [t \in DOMAIN p |-> p[t]]
  /\ \A t \in DOMAIN p : IsEntry(t, p[t], g, j)

\* Jobs start in the order of their tokens; the one that holds the fence has
\* activated it.
JobInv ==
  /\ \A j \in Job : IsPlan(plan[j], jgen[j], j)
  /\ \A j \in Job : pc[j] \in {"planned", "loading"} => DOMAIN plan[j] # {}
  /\ \A j \in Job : j > token => pc[j] = "idle" /\ DOMAIN plan[j] = {}
  /\ \A j \in Job : fence.token = j => fence.gen = jgen[j] /\ pc[j] \notin {"idle", "start"}

Loading(g) == g \in DOMAIN groups /\ groups[g].state = "loading"
Active(g) == g \in DOMAIN groups /\ groups[g].state = "active"

\* A group has the plan of its job, and the fence was with that job or later.
\* Only the latest group loads; the owner of the fence that has cleaned up has no
\* other one before it, and plans for a generation that was never activated.
GroupInv ==
  /\ groups = [g \in DOMAIN groups |-> groups[g]] /\ DOMAIN groups \subseteq Job
  /\ \A g \in DOMAIN groups :
       /\ groups[g] = [state |-> groups[g].state, gen |-> jgen[g], tables |-> plan[g]]
       /\ groups[g].state \in {"loading", "active"}
       /\ g <= fence.token /\ jgen[g] <= fence.gen
       /\ pc[g] \in {"loading", "serving", "stopped"} /\ DOMAIN plan[g] # {}
  /\ \A g \in DOMAIN groups : groups[g].state = "loading" => \A h \in DOMAIN groups : h <= g
  /\ \A j \in Job : fence.token = j =>
       /\ pc[j] \in {"clean", "ready", "planned"} => \A g \in DOMAIN groups : Active(g)
       /\ pc[j] \in {"planned", "loading"} => \A g \in DOMAIN groups : Active(g) => jgen[g] # jgen[j]
       /\ pc[j] = "loading" => Loading(j)

\* The last group that was activated.
Live(g) == Active(g) /\ \A h \in DOMAIN groups : groups[h].state = "active" => h <= g

ActiveRecord(e, j) ==
  [group |-> j, oid |-> e.shadow, rel |-> e.rel, gen |-> e.gen, fp |-> e.fp,
   state |-> "active", token |-> j]
QuarantinedRecord(r) ==
  [group |-> r.prevGroup, oid |-> r.oid, rel |-> r.rel, gen |-> r.tableGen, fp |-> r.fp,
   state |-> "quarantined", token |-> r.token]

\* What a managed relation can be.
IsShadowOf(n, g, t) ==
  /\ Loading(g) /\ t \in DOMAIN plan[g]
  /\ n = plan[g][t].shadow /\ managed[n] = ShadowRecord(plan[g][t], g)
IsTableOf(n, g, t) ==
  /\ Live(g) /\ t \in DOMAIN plan[g]
  /\ n = Target(t) /\ managed[n] = ActiveRecord(plan[g][t], g)
IsQuarantinedBy(n, r) == ~r.purged /\ n = r.name /\ managed[n] = QuarantinedRecord(r)

ManagedInv ==
  /\ managed = [n \in DOMAIN managed |-> managed[n]]
  /\ \A n \in DOMAIN managed :
       \/ \E g \in Job, t \in Table : IsShadowOf(n, g, t)
       \/ \E g \in Job, t \in Table : IsTableOf(n, g, t)
       \/ \E r \in log : IsQuarantinedBy(n, r)
  /\ \A g \in Job : Live(g) => \A t \in DOMAIN plan[g] : Target(t) \in DOMAIN managed
  /\ \A r \in log : ~r.purged => r.name \in DOMAIN managed

\* A record of the log: the table of a group that another one has replaced.
HasFields(r) ==
  r = [group |-> r.group, table |-> r.table, name |-> r.name, oid |-> r.oid, gen |-> r.gen,
       rel |-> r.rel, prevGroup |-> r.prevGroup, tableGen |-> r.tableGen, fp |-> r.fp,
       prevToken |-> r.prevToken, token |-> r.token, purged |-> r.purged]
IsRecord(r) ==
  /\ HasFields(r)
  /\ r.name = QuarantineName(r.table, [rel |-> r.rel, gen |-> r.tableGen, fp |-> r.fp,
                                       token |-> r.prevToken])
  /\ r.gen \in Nat /\ r.gen <= fence.gen /\ r.token \in Nat /\ r.token <= fence.token
  /\ r.oid # Foreign
  /\ Active(r.prevGroup) /\ r.prevGroup <= r.token
  /\ r.tableGen = jgen[r.prevGroup] /\ r.prevToken = r.prevGroup
  /\ \E h \in DOMAIN groups : Active(h) /\ r.prevToken < h
LogInv ==
  /\ \A r \in log : IsRecord(r)
  /\ \A r, s \in log : r.name = s.name => r = s

\* The owner of the fence has loaded a table only where the target is free or
\* belongs to the same source table.
LoadedInv ==
  \A j \in Job : fence.token = j /\ pc[j] = "loading" =>
    \A t \in DOMAIN plan[j] :
      plan[j][t].shadow \in DOMAIN managed /\ Target(t) \in DOMAIN managed =>
        managed[Target(t)].rel = plan[j][t].rel

\* Nobody else's statement: the relations are the managed ones.
PhysInv ==
  /\ phys = [n \in DOMAIN phys |-> phys[n]]
  /\ meddled = 0 => phys = [n \in DOMAIN managed |-> managed[n].oid]

IInv ==
  /\ TypeInv /\ JobInv /\ GroupInv /\ ManagedInv /\ LogInv /\ LoadedInv /\ PhysInv

-----------------------------------------------------------------------------
(* Names. *)

\* Targets, shadows and quarantined relations never have the same name, and a name
\* tells which table, job or group it belongs to.
LEMMA NamesDiffer ==
  /\ \A t, r, j : Target(t) # Shadow(r, j)
  /\ \A t, u, x : Target(t) # QuarantineName(u, x)
  /\ \A r, j, u, x : Shadow(r, j) # QuarantineName(u, x)
BY DEF Target, Shadow, QuarantineName

LEMMA NamesTell ==
  /\ \A t, u : Target(t) = Target(u) => t = u
  /\ \A r, j, s, k : Shadow(r, j) = Shadow(s, k) => r = s /\ j = k
  /\ \A t, u, x, y : QuarantineName(t, x) = QuarantineName(u, y) => t = u /\ x.token = y.token
BY DEF Target, Shadow, QuarantineName

LEMMA NamesHold ==
  /\ \A t : Target(t)[2] = t
  /\ \A t, x : QuarantineName(t, x)[2] = t
BY DEF Target, QuarantineName

\* The entries of a plan have different relations, and shadows that are not foreign.
LEMMA EntriesDiffer ==
  ASSUME NEW p, NEW g, NEW j \in Job, IsPlan(p, g, j)
  PROVE  /\ \A t \in DOMAIN p : /\ t \in Table /\ p[t].gen = g
                                /\ p[t].shadow = Shadow(p[t].rel, j) /\ p[t].shadow # Foreign
         /\ \A t, u \in DOMAIN p : p[t].rel = p[u].rel => t = u
<1>1. ASSUME NEW t \in DOMAIN p
      PROVE  /\ t \in Table /\ p[t].gen = g /\ p[t].shadow = Shadow(p[t].rel, j)
             /\ \E i \in 0 .. MaxDdl : p[t].rel = <<t, i>>
  BY DEF IsPlan, IsEntry
<1>2. \A t \in DOMAIN p : p[t].shadow # Foreign
  BY <1>1, ForeignAssumption DEF Shadow, Job
<1>3. \A t, u \in DOMAIN p : p[t].rel = p[u].rel => t = u
  BY <1>1
<1> QED BY <1>1, <1>2, <1>3

\* What a managed relation is, by its name.
LEMMA Classified ==
  ASSUME TypeInv, JobInv, GroupInv, ManagedInv, LogInv
  PROVE  /\ \A t : Target(t) \in DOMAIN managed =>
              t \in Table /\ \E g \in Job : IsTableOf(Target(t), g, t)
         /\ \A g \in Job : \A t \in DOMAIN plan[g] :
              plan[g][t].shadow \in DOMAIN managed => IsShadowOf(plan[g][t].shadow, g, t)
         /\ \A t, x : QuarantineName(t, x) \in DOMAIN managed =>
              \E r \in log : IsQuarantinedBy(QuarantineName(t, x), r)
         /\ \A n \in DOMAIN managed : managed[n].oid # Foreign
<1>1. \A g \in Job, t \in Table : t \in DOMAIN plan[g] =>
        plan[g][t].shadow = Shadow(plan[g][t].rel, g) /\ plan[g][t].shadow # Foreign
  BY EntriesDiffer DEF JobInv
<1>2. \A r \in log : \E t, x : r.name = QuarantineName(t, x)
  BY DEF LogInv, IsRecord
<1>3. \A t : Target(t) \in DOMAIN managed =>
        t \in Table /\ \E g \in Job : IsTableOf(Target(t), g, t)
  <2> SUFFICES ASSUME NEW t, Target(t) \in DOMAIN managed
               PROVE  t \in Table /\ \E g \in Job : IsTableOf(Target(t), g, t)
    OBVIOUS
  <2>1. \A g \in Job, u \in Table : ~ IsShadowOf(Target(t), g, u)
    BY <1>1, NamesDiffer DEF IsShadowOf
  <2>2. \A r \in log : ~ IsQuarantinedBy(Target(t), r)
    BY <1>2, NamesDiffer DEF IsQuarantinedBy
  <2>3. PICK g \in Job, u \in Table : IsTableOf(Target(t), g, u)
    BY <2>1, <2>2 DEF ManagedInv
  <2>4. t = u
    BY <2>3, NamesTell DEF IsTableOf
  <2> QED BY <2>3, <2>4
<1>4. ASSUME NEW g \in Job, NEW t \in DOMAIN plan[g], plan[g][t].shadow \in DOMAIN managed
      PROVE  IsShadowOf(plan[g][t].shadow, g, t)
  <2>1. t \in Table /\ plan[g][t].shadow = Shadow(plan[g][t].rel, g)
    BY EntriesDiffer DEF JobInv
  <2>2. \A h \in Job, u \in Table : ~ IsTableOf(plan[g][t].shadow, h, u)
    BY <2>1, NamesDiffer DEF IsTableOf
  <2>3. \A r \in log : ~ IsQuarantinedBy(plan[g][t].shadow, r)
    BY <1>2, <2>1, NamesDiffer DEF IsQuarantinedBy
  <2>4. PICK h \in Job, u \in Table : IsShadowOf(plan[g][t].shadow, h, u)
    BY <1>4, <2>2, <2>3 DEF ManagedInv
  <2>5. u \in DOMAIN plan[h] /\ Shadow(plan[g][t].rel, g) = Shadow(plan[h][u].rel, h)
    BY <1>1, <2>1, <2>4 DEF IsShadowOf
  <2>6. h = g /\ plan[g][t].rel = plan[h][u].rel
    BY <2>5, NamesTell
  <2>7. u = t
    BY <2>5, <2>6, EntriesDiffer DEF JobInv
  <2> QED BY <2>4, <2>6, <2>7
<1>5. ASSUME NEW t, NEW x, QuarantineName(t, x) \in DOMAIN managed
      PROVE  \E r \in log : IsQuarantinedBy(QuarantineName(t, x), r)
  <2>1. \A h \in Job, u \in Table : ~ IsTableOf(QuarantineName(t, x), h, u)
    BY NamesDiffer DEF IsTableOf
  <2>2. \A h \in Job, u \in Table : ~ IsShadowOf(QuarantineName(t, x), h, u)
    BY <1>1, NamesDiffer DEF IsShadowOf
  <2> QED BY <1>5, <2>1, <2>2 DEF ManagedInv
<1>6. ASSUME NEW n \in DOMAIN managed PROVE managed[n].oid # Foreign
  <2>1. ASSUME NEW g \in Job, NEW t \in Table, IsShadowOf(n, g, t) PROVE managed[n].oid # Foreign
    BY <1>1, <2>1 DEF IsShadowOf, ShadowRecord
  <2>2. ASSUME NEW g \in Job, NEW t \in Table, IsTableOf(n, g, t) PROVE managed[n].oid # Foreign
    BY <1>1, <2>2 DEF IsTableOf, ActiveRecord
  <2>3. ASSUME NEW r \in log, IsQuarantinedBy(n, r) PROVE managed[n].oid # Foreign
    <3>1. managed[n] = QuarantinedRecord(r)
      BY <2>3 DEF IsQuarantinedBy
    <3>2. r.oid # Foreign
      BY DEF LogInv, IsRecord
    <3> QED BY <3>1, <3>2 DEF QuarantinedRecord
  <2> QED BY <2>1, <2>2, <2>3 DEF ManagedInv
<1> QED BY <1>3, <1>4, <1>5, <1>6

LEMMA InitIInv ==
  ASSUME Init
  PROVE  IInv
<1>1. /\ groups = EmptyFunction /\ managed = EmptyFunction /\ phys = EmptyFunction /\ log = {}
      /\ DOMAIN groups = {} /\ DOMAIN managed = {} /\ DOMAIN phys = {}
  BY DEF Init, EmptyFunction
<1>2. TypeInv
  <2>1. PICK present \in SUBSET Table, f \in Fingerprint :
          src = [t \in Table |-> IF t \in present THEN [rel |-> <<t, 0>>, fp |-> f] ELSE NoTable]
    BY DEF Init
  <2>2. \A t \in Table : src[t] # NoTable => IsRow(t, src[t])
    <3> SUFFICES ASSUME NEW t \in Table, src[t] # NoTable PROVE IsRow(t, src[t])
      OBVIOUS
    <3>1. src[t] = [rel |-> <<t, 0>>, fp |-> f]
      BY <2>1
    <3> QED BY <3>1, BoundsAssumption DEF IsRow
  <2>3. src = [t \in Table |-> src[t]]
    BY <2>1
  <2> QED BY <2>2, <2>3, BoundsAssumption DEF Init, TypeInv, Position, Job, Gen
<1>3. JobInv
  <2>1. \A j \in Job : plan[j] = EmptyFunction /\ DOMAIN plan[j] = {} /\ pc[j] = "idle"
    BY DEF Init, EmptyFunction
  <2>2. fence.token \notin Job
    BY DEF Init, Job
  <2> QED BY <2>1, <2>2 DEF JobInv, IsPlan, EmptyFunction
<1>4. fence.token \notin Job
  BY DEF Init, Job
<1>5. GroupInv
  BY <1>1, <1>4 DEF GroupInv, EmptyFunction
<1>6. ManagedInv
  BY <1>1 DEF ManagedInv, EmptyFunction, Live, Active
<1>7. LogInv /\ LoadedInv
  BY <1>1, <1>4 DEF LogInv, LoadedInv
<1>8. PhysInv
  BY <1>1 DEF PhysInv, EmptyFunction
<1> QED BY <1>2, <1>3, <1>5, <1>6, <1>7, <1>8 DEF IInv

-----------------------------------------------------------------------------
(* Steps that leave the groups and the tables of the target alone. *)

\* The fence only advances, and the jobs that have a group keep their plan.
LEMMA TargetStays ==
  ASSUME IInv, UNCHANGED <<groups, managed, phys, log, meddled>>,
         \A g \in DOMAIN groups : plan'[g] = plan[g] /\ jgen'[g] = jgen[g],
         fence.gen <= fence'.gen, fence.token <= fence'.token,
         fence'.gen \in Nat, fence'.token \in Nat
  PROVE  ManagedInv' /\ LogInv' /\ PhysInv'
<1>1. /\ fence.gen \in Nat /\ fence.token \in Nat /\ DOMAIN groups \subseteq Job
  BY DEF IInv, TypeInv, GroupInv
<1>2. PhysInv'
  BY DEF IInv, PhysInv
<1>3. LogInv'
  <2>1. ASSUME NEW r \in log PROVE IsRecord(r)'
    <3>1. IsRecord(r)
      BY DEF IInv, LogInv
    <3>2. r.gen <= fence'.gen /\ r.token <= fence'.token
      BY <1>1, <3>1 DEF IsRecord
    <3> QED BY <3>1, <3>2 DEF IsRecord, Active
  <2> QED BY <2>1 DEF IInv, LogInv
<1>4. ManagedInv'
  <2>1. \A g \in Job : (Live(g)' <=> Live(g)) /\ (Loading(g)' <=> Loading(g))
    BY DEF Live, Active, Loading
  <2>2. \A g \in Job : Live(g) \/ Loading(g) => plan'[g] = plan[g]
    BY DEF Live, Active, Loading
  <2>3. \A n \in DOMAIN managed, g \in Job, t \in Table :
          /\ IsShadowOf(n, g, t) => IsShadowOf(n, g, t)'
          /\ IsTableOf(n, g, t) => IsTableOf(n, g, t)'
    BY <2>1, <2>2 DEF IsShadowOf, IsTableOf
  <2>4. \A n \in DOMAIN managed, r \in log : IsQuarantinedBy(n, r) => IsQuarantinedBy(n, r)'
    BY DEF IsQuarantinedBy
  <2> QED BY <2>1, <2>2, <2>3, <2>4 DEF IInv, ManagedInv
<1> QED BY <1>2, <1>3, <1>4

\* Statements on the source, and requests for a rebuild.
LEMMA OutsideSteps ==
  ASSUME IInv, UNCHANGED <<token, target, jobs>>, TypeInv'
  PROVE  IInv'
<1>1. UNCHANGED <<token, fence, groups, managed, phys, log, meddled, pc, jgen, plan>>
  BY DEF target, jobs
<1>2. ManagedInv' /\ LogInv' /\ PhysInv'
  <2>1. fence.gen \in Nat /\ fence.token \in Nat
    BY DEF IInv, TypeInv
  <2> QED BY <1>1, <2>1, TargetStays
<1>3. JobInv'
  BY <1>1 DEF IInv, JobInv
<1>4. GroupInv'
  BY <1>1 DEF IInv, GroupInv, Active, Loading
<1>5. LoadedInv'
  BY <1>1 DEF IInv, LoadedInv
<1> QED BY <1>2, <1>3, <1>4, <1>5 DEF IInv

LEMMA SourceSteps ==
  ASSUME IInv, NEW t \in Table, DropTable(t) \/ CreateTable(t) \/ AlterTable(t)
  PROVE  IInv'
<1>1. PICK row : SourceDdl(t, row) /\ (row # NoTable => IsRow(t, row))
  <2>1. CASE DropTable(t)
    BY <2>1 DEF DropTable
  <2>2. CASE CreateTable(t)
    <3>1. PICK f \in Fingerprint : SourceDdl(t, [rel |-> <<t, ddl + 1>>, fp |-> f])
      BY <2>2 DEF CreateTable
    <3>2. ddl + 1 \in 0 .. MaxDdl
      BY <3>1, BoundsAssumption DEF SourceDdl, IInv, TypeInv
    <3>3. IsRow(t, [rel |-> <<t, ddl + 1>>, fp |-> f])
      BY <3>2 DEF IsRow
    <3> QED BY <3>1, <3>3
  <2>3. CASE AlterTable(t)
    <3>1. PICK f \in Fingerprint : SourceDdl(t, [src[t] EXCEPT !.fp = f])
      BY <2>3 DEF AlterTable
    <3>2. IsRow(t, src[t])
      BY <2>3 DEF AlterTable, IInv, TypeInv
    <3>3. [src[t] EXCEPT !.fp = f] = [rel |-> src[t].rel, fp |-> f]
      BY <3>2 DEF IsRow
    <3>4. IsRow(t, [rel |-> src[t].rel, fp |-> f])
      BY <3>2 DEF IsRow
    <3> QED BY <3>1, <3>3, <3>4
  <2> QED BY <2>1, <2>2, <2>3
<1>2. /\ src' = [src EXCEPT ![t] = row] /\ ddl' = ddl + 1 /\ ddl < MaxDdl
      /\ UNCHANGED <<control, target, jobs>>
  BY <1>1 DEF SourceDdl
<1>3. ddl' \in 0 .. MaxDdl
  BY <1>2, BoundsAssumption DEF IInv, TypeInv
<1>4. src' = [u \in Table |-> src'[u]] /\ \A u \in Table : src'[u] # NoTable => IsRow(u, src'[u])
  BY <1>1, <1>2 DEF IInv, TypeInv
<1>5. TypeInv'
  BY <1>2, <1>3, <1>4 DEF IInv, TypeInv, control, target, jobs
<1> QED BY <1>2, <1>5, OutsideSteps DEF control

LEMMA RequestRebuildStep ==
  ASSUME IInv, RequestRebuild
  PROVE  IInv'
<1>1. gen' \in Gen /\ UNCHANGED <<source, token, target, jobs>>
  BY BoundsAssumption DEF RequestRebuild, BumpGeneration, IInv, TypeInv, Gen
<1>2. TypeInv'
  BY <1>1 DEF IInv, TypeInv, source, target, jobs
<1> QED BY <1>1, <1>2, OutsideSteps

\* A new job has no plan, no group and no fence yet.
LEMMA StartJobStep ==
  ASSUME IInv, StartJob
  PROVE  IInv'
<1> DEFINE new == token + 1
<1>1. /\ new \in Job /\ token' = new /\ pc' = [pc EXCEPT ![new] = "start"]
      /\ UNCHANGED <<source, gen, target, plan>> /\ token \in Nat
  BY BoundsAssumption DEF StartJob, Goto, IInv, TypeInv, Job
<1>2. PICK g \in Gen : jgen' = [jgen EXCEPT ![new] = g]
  <2>1. PICK g \in 1 .. gen : jgen' = [jgen EXCEPT ![new] = g]
    BY DEF StartJob
  <2>2. gen \in 1 .. MaxGen
    BY DEF IInv, TypeInv, Gen
  <2>3. g \in Gen
    BY <2>2, BoundsAssumption DEF Gen
  <2> QED BY <2>1, <2>3
<1>3. /\ pc[new] = "idle" /\ DOMAIN plan[new] = {} /\ fence.token < new
      /\ new \notin DOMAIN groups /\ fence.token \in Nat /\ fence.gen \in Nat
  <2>1. pc[new] = "idle" /\ DOMAIN plan[new] = {}
    BY <1>1 DEF IInv, JobInv
  <2>2. fence.token \in 0 .. token /\ fence.gen \in Nat
    BY DEF IInv, TypeInv
  <2>3. new \notin DOMAIN groups
    BY <2>1 DEF IInv, GroupInv
  <2> QED BY <1>1, <2>1, <2>2, <2>3
<1> HIDE DEF new
<1>4. UNCHANGED <<fence, groups, managed, phys, log, meddled, src, ddl, gen, plan>>
  BY <1>1 DEF source, target
<1>5. TypeInv'
  <2>1. pc' \in [Job -> Position] /\ jgen' \in [Job -> Gen]
    BY <1>1, <1>2 DEF IInv, TypeInv, Position
  <2>2. token' \in 0 .. MaxToken /\ fence.token \in 0 .. token'
    BY <1>1, <1>3, BoundsAssumption DEF Job, IInv, TypeInv
  <2> QED BY <1>4, <2>1, <2>2 DEF IInv, TypeInv
<1>6. /\ \A j \in Job \ {new} : pc'[j] = pc[j] /\ jgen'[j] = jgen[j]
      /\ pc'[new] = "start"
  BY <1>1, <1>2 DEF IInv, TypeInv
<1>7. JobInv'
  <2>1. \A j \in Job : IsPlan(plan[j], jgen'[j], j)
    BY <1>3, <1>6 DEF IInv, JobInv, IsPlan
  <2>2. \A j \in Job : pc'[j] \in {"planned", "loading"} => DOMAIN plan[j] # {}
    BY <1>6 DEF IInv, JobInv
  <2>3. \A j \in Job : j > token' => j # new /\ j > token
    BY <1>1 DEF new, Job
  <2>4. \A j \in Job : fence.token = j => j # new
    BY <1>3
  <2> QED BY <1>4, <1>6, <2>1, <2>2, <2>3, <2>4 DEF IInv, JobInv
<1>8. GroupInv'
  <2>1. \A h \in DOMAIN groups : h # new /\ h \in Job
    BY <1>3 DEF IInv, GroupInv
  <2>2. \A j \in Job : fence.token = j => j # new
    BY <1>3
  <2> QED BY <1>4, <1>6, <2>1, <2>2 DEF IInv, GroupInv, Active, Loading
<1>9. ManagedInv' /\ LogInv' /\ PhysInv'
  BY <1>3, <1>4, <1>6, TargetStays DEF IInv, GroupInv
<1>10. LoadedInv'
  BY <1>4, <1>6 DEF IInv, LoadedInv
<1> QED BY <1>5, <1>7, <1>8, <1>9, <1>10 DEF IInv

\* A job goes to a position in which it does nothing more.
LEMMA GivesUp ==
  ASSUME IInv, NEW j \in Job, NEW p \in {"stopped", "refused"}, Goto(j, p),
         p = "refused" => j \notin DOMAIN groups, pc[j] # "idle",
         UNCHANGED <<source, control, target, jgen, plan>>
  PROVE  IInv'
<1>1. /\ pc'[j] = p /\ \A k \in Job \ {j} : pc'[k] = pc[k]
      /\ pc' \in [Job -> Position]
  BY DEF Goto, IInv, TypeInv, Position
<1>2. UNCHANGED <<src, ddl, gen, token, fence, groups, managed, phys, log, meddled, jgen, plan>>
  BY DEF source, control, target
<1>3. TypeInv'
  BY <1>1, <1>2 DEF IInv, TypeInv
<1>4. JobInv'
  <2>1. ~ (j > token)
    BY DEF IInv, JobInv
  <2> QED BY <1>1, <1>2, <2>1 DEF IInv, JobInv
<1>5. GroupInv'
  BY <1>1, <1>2 DEF IInv, GroupInv, Active, Loading
<1>6. ManagedInv' /\ LogInv' /\ PhysInv'
  BY <1>2, TargetStays DEF IInv, TypeInv
<1>7. LoadedInv'
  BY <1>1, <1>2 DEF IInv, LoadedInv
<1> QED BY <1>3, <1>4, <1>5, <1>6, <1>7 DEF IInv

\* The job that activates the fence has no group yet; all groups are behind it.
LEMMA ActivateFenceStep ==
  ASSUME IInv, NEW j \in Job, ActivateFence(j)
  PROVE  IInv'
<1>1. CASE ~ FenceAdvances(j)
  BY <1>1, GivesUp DEF ActivateFence, target
<1>2. CASE FenceAdvances(j)
  <2>1. /\ fence' = [gen |-> jgen[j], token |-> j] /\ pc' = [pc EXCEPT ![j] = "fenced"]
        /\ pc[j] = "start" /\ jgen[j] >= fence.gen /\ j >= fence.token
        /\ UNCHANGED <<src, ddl, gen, token, groups, managed, phys, log, meddled, jgen, plan>>
    BY <1>2 DEF ActivateFence, FenceAdvances, Goto, source, control
  <2>2. /\ fence'.gen = jgen[j] /\ fence'.token = j
        /\ jgen[j] \in Nat /\ j \in Nat /\ fence.gen \in Nat /\ fence.token \in Nat
        /\ jgen[j] \in 0 .. MaxGen /\ j \in 0 .. token /\ token \in Nat
    <3>1. j <= token
      BY <2>1, BoundsAssumption DEF IInv, TypeInv, JobInv, Job
    <3> QED BY <2>1, <3>1, BoundsAssumption DEF IInv, TypeInv, Job, Gen
  <2>3. /\ pc'[j] = "fenced" /\ \A k \in Job \ {j} : pc'[k] = pc[k]
        /\ pc' \in [Job -> Position]
    BY <2>1 DEF IInv, TypeInv, Position
  <2>4. TypeInv'
    BY <2>1, <2>2, <2>3 DEF IInv, TypeInv
  <2>5. JobInv'
    BY <2>1, <2>2, <2>3 DEF IInv, JobInv
  <2>6. GroupInv'
    <3>1. \A g \in DOMAIN groups : g \in Job /\ g # j /\ g \in Nat /\ jgen[g] \in Nat
      <4>1. \A g \in DOMAIN groups : g \in Job /\ g # j
        BY <2>1 DEF IInv, GroupInv
      <4>2. \A g \in Job : g \in Nat /\ jgen[g] \in Nat
        BY DEF IInv, TypeInv, Job, Gen
      <4> QED BY <4>1, <4>2
    <3>2. \A g \in DOMAIN groups : g <= fence'.token /\ jgen[g] <= fence'.gen
      BY <2>1, <2>2, <3>1 DEF IInv, GroupInv
    <3> QED BY <2>1, <2>2, <2>3, <3>1, <3>2 DEF IInv, GroupInv, Active, Loading
  <2>7. ManagedInv' /\ LogInv' /\ PhysInv'
    BY <2>1, <2>2, TargetStays
  <2>8. LoadedInv'
    BY <2>1, <2>2, <2>3 DEF IInv, LoadedInv
  <2> QED BY <2>4, <2>5, <2>6, <2>7, <2>8 DEF IInv
<1> QED BY <1>1, <1>2

\* plan_inventory makes a plan of the job's generation.
LEMMA PlannedIsPlan ==
  ASSUME IInv, NEW j \in Job
  PROVE  /\ IsPlan(Planned(src, j), jgen[j], j)
         /\ (\E t \in Table : src[t] # NoTable) => DOMAIN Planned(src, j) # {}
<1>1. DOMAIN Planned(src, j) = {u \in Table : src[u] # NoTable}
  BY DEF Planned
<1>2. ASSUME NEW t \in DOMAIN Planned(src, j) PROVE IsEntry(t, Planned(src, j)[t], jgen[j], j)
  <2>1. IsRow(t, src[t])
    BY <1>1 DEF IInv, TypeInv
  <2>2. Planned(src, j)[t] = [rel |-> src[t].rel, fp |-> src[t].fp, gen |-> jgen[j],
                              shadow |-> Shadow(src[t].rel, j)]
    BY <1>1 DEF Planned
  <2> QED BY <2>1, <2>2 DEF IsEntry, IsRow
<1>3. Planned(src, j) = [t \in DOMAIN Planned(src, j) |-> Planned(src, j)[t]]
  BY DEF Planned
<1> QED BY <1>1, <1>2, <1>3 DEF IsPlan

\* A job that has no group makes its plan.
LEMMA Plans ==
  ASSUME IInv, NEW j \in Job, pc[j] = "ready", gen' \in Gen,
         NEW p \in {"stopped", "serving", "refused", "planned"}, Goto(j, p),
         plan' = [plan EXCEPT ![j] = Planned(src, j)],
         p = "planned" => ActiveGroups(jgen[j]) = {} /\ \E t \in Table : src[t] # NoTable,
         UNCHANGED <<src, ddl, token, target, jgen>>
  PROVE  IInv'
<1>1. UNCHANGED <<fence, groups, managed, phys, log, meddled>>
  BY DEF target
<1>2. /\ pc'[j] = p /\ \A k \in Job \ {j} : pc'[k] = pc[k] /\ plan'[k] = plan[k]
      /\ pc' \in [Job -> Position] /\ plan'[j] = Planned(src, j)
      /\ plan' = [k \in Job |-> plan'[k]]
  BY DEF Goto, IInv, TypeInv, Position
<1>3. j \notin DOMAIN groups /\ DOMAIN groups \subseteq Job
  BY DEF IInv, GroupInv
<1>4. TypeInv'
  BY <1>1, <1>2 DEF IInv, TypeInv
<1>5. JobInv'
  <2>1. ~ (j > token)
    BY DEF IInv, JobInv
  <2> QED BY <1>1, <1>2, <2>1, PlannedIsPlan DEF IInv, JobInv
<1>6. GroupInv'
  <2>1. \A g \in DOMAIN groups : g # j /\ pc'[g] = pc[g] /\ plan'[g] = plan[g]
    BY <1>2, <1>3
  <2>2. p = "planned" => \A g \in DOMAIN groups : Active(g) => jgen[g] # jgen[j]
    BY DEF ActiveGroups, IInv, GroupInv, Active
  <2>3. \A k \in Job : fence.token = k =>
          /\ pc'[k] \in {"clean", "ready", "planned"} => \A g \in DOMAIN groups : Active(g)
          /\ pc'[k] \in {"planned", "loading"} =>
               \A g \in DOMAIN groups : Active(g) => jgen[g] # jgen[k]
          /\ pc'[k] = "loading" => Loading(k)
    BY <1>2, <2>2 DEF IInv, GroupInv
  <2>4. \A g \in DOMAIN groups :
          /\ groups[g] = [state |-> groups[g].state, gen |-> jgen[g], tables |-> plan'[g]]
          /\ groups[g].state \in {"loading", "active"}
          /\ g <= fence.token /\ jgen[g] <= fence.gen
          /\ pc'[g] \in {"loading", "serving", "stopped"} /\ DOMAIN plan'[g] # {}
    BY <2>1 DEF IInv, GroupInv
  <2> QED BY <1>1, <2>3, <2>4 DEF IInv, GroupInv, Active, Loading
<1>7. ManagedInv' /\ LogInv' /\ PhysInv'
  BY <1>1, <1>2, <1>3, TargetStays DEF IInv, TypeInv
<1>8. LoadedInv'
  BY <1>1, <1>2 DEF IInv, LoadedInv
<1> QED BY <1>4, <1>5, <1>6, <1>7, <1>8 DEF IInv

LEMMA ResumeStep ==
  ASSUME IInv, NEW j \in Job, Resume(j)
  PROVE  IInv'
<1>1. gen' \in Gen
  BY BoundsAssumption DEF Resume, BumpGeneration, IInv, TypeInv, Gen
<1>2. PICK p \in {"stopped", "serving", "refused"} : Goto(j, p)
  BY DEF Resume
<1> QED BY <1>1, <1>2, Plans DEF Resume, source

LEMMA PlanSnapshotStep ==
  ASSUME IInv, NEW j \in Job, PlanSnapshot(j)
  PROVE  IInv'
<1>1. gen' \in Gen /\ UNCHANGED <<src, ddl, token, target, jgen>>
  BY DEF PlanSnapshot, control, IInv, TypeInv
<1>2. CASE \A t \in Table : src[t] = NoTable
  BY <1>1, <1>2, Plans DEF PlanSnapshot
<1>3. CASE ~ \A t \in Table : src[t] = NoTable
  BY <1>1, <1>3, Plans DEF PlanSnapshot
<1> QED BY <1>2, <1>3

\* Somebody else's statement changes no record of the pipeline.
LEMMA MeddleStep ==
  ASSUME IInv, NEW n, Meddle(n)
  PROVE  IInv'
<1>1. /\ phys' = Put(phys, n, Foreign) /\ meddled' = meddled + 1 /\ meddled < MaxForeign
      /\ UNCHANGED <<src, ddl, gen, token, fence, groups, managed, log, pc, jgen, plan>>
  BY DEF Meddle, source, control, jobs
<1>2. meddled' \in 0 .. MaxForeign /\ meddled' # 0
  BY <1>1, BoundsAssumption DEF IInv, TypeInv
<1>3. TypeInv' /\ JobInv' /\ LoadedInv'
  BY <1>1, <1>2 DEF IInv, TypeInv, JobInv, LoadedInv
<1>4. GroupInv'
  BY <1>1 DEF IInv, GroupInv, Active, Loading
<1>5. LogInv'
  BY <1>1 DEF IInv, LogInv, IsRecord, Active
<1>6. ManagedInv'
  BY <1>1 DEF IInv, ManagedInv, IsShadowOf, IsTableOf, IsQuarantinedBy, Live, Active, Loading
<1>7. PhysInv'
  BY <1>1, <1>2 DEF PhysInv, Put
<1> QED BY <1>3, <1>4, <1>5, <1>6, <1>7 DEF IInv

LEMMA StopStep ==
  ASSUME IInv, NEW j \in Job, Stop(j)
  PROVE  IInv'
BY GivesUp DEF Stop

-----------------------------------------------------------------------------
(* Groups. *)

\* The owner of the fence has removed every group that still loaded.
LEMMA BeginGroupStep ==
  ASSUME IInv, NEW j \in Job, BeginGroup(j)
  PROVE  IInv'
<1>1. CASE ~(HoldsFence(j) /\ Canonical(plan[j]))
  BY <1>1, GivesUp DEF BeginGroup, target
<1>2. CASE HoldsFence(j) /\ Canonical(plan[j])
  <2>1. /\ groups' = Put(groups, j, Manifest(j)) /\ pc' = [pc EXCEPT ![j] = "loading"]
        /\ pc[j] = "planned" /\ fence.token = j /\ fence.gen = jgen[j]
        /\ UNCHANGED <<src, ddl, gen, token, fence, managed, phys, log, meddled, jgen, plan>>
    BY <1>2 DEF BeginGroup, HoldsFence, Goto, source, control
  <2>2. /\ pc'[j] = "loading" /\ \A k \in Job \ {j} : pc'[k] = pc[k]
        /\ pc' \in [Job -> Position]
    BY <2>1 DEF IInv, TypeInv, Position
  <2>3. j \notin DOMAIN groups /\ DOMAIN groups \subseteq Job /\ \A g \in DOMAIN groups : Active(g)
    BY <2>1 DEF IInv, GroupInv
  <2>4. /\ DOMAIN groups' = DOMAIN groups \cup {j} /\ groups'[j] = Manifest(j)
        /\ \A g \in DOMAIN groups : groups'[g] = groups[g]
        /\ groups' = [g \in DOMAIN groups' |-> groups'[g]]
    BY <2>1, <2>3 DEF Put
  <2>5. TypeInv'
    BY <2>1, <2>2 DEF IInv, TypeInv
  <2>6. JobInv'
    BY <2>1, <2>2 DEF IInv, JobInv
  <2>7. /\ groups'[j] = [state |-> "loading", gen |-> jgen[j], tables |-> plan[j]]
        /\ groups'[j].state = "loading"
    BY <2>4 DEF Manifest
  <2>8. /\ \A g \in DOMAIN groups : g # j /\ Active(g)'
        /\ ~ Active(j)' /\ Loading(j)' /\ \A g \in DOMAIN groups : ~ Loading(g)'
    BY <2>3, <2>4, <2>7 DEF Active, Loading
  <2>9. GroupInv'
    <3>1. \A g \in DOMAIN groups' :
            /\ groups'[g] = [state |-> groups'[g].state, gen |-> jgen[g], tables |-> plan[g]]
            /\ groups'[g].state \in {"loading", "active"}
            /\ g <= fence.token /\ jgen[g] <= fence.gen
            /\ pc'[g] \in {"loading", "serving", "stopped"} /\ DOMAIN plan[g] # {}
      <4>1. \A g \in DOMAIN groups :
              /\ groups'[g] = [state |-> groups'[g].state, gen |-> jgen[g], tables |-> plan[g]]
              /\ groups'[g].state \in {"loading", "active"}
              /\ g <= fence.token /\ jgen[g] <= fence.gen
              /\ pc'[g] \in {"loading", "serving", "stopped"} /\ DOMAIN plan[g] # {}
        BY <2>2, <2>3, <2>4 DEF IInv, GroupInv
      <4>2. j <= fence.token /\ jgen[j] <= fence.gen /\ DOMAIN plan[j] # {}
        BY <2>1 DEF IInv, JobInv, Job, TypeInv, Gen
      <4> QED BY <2>2, <2>4, <2>7, <4>1, <4>2
    <3>2. \A g \in DOMAIN groups' : groups'[g].state = "loading" => \A h \in DOMAIN groups' : h <= g
      <4>1. \A g \in DOMAIN groups' : groups'[g].state = "loading" => g = j
        BY <2>4, <2>8 DEF Loading
      <4> QED BY <2>1, <3>1, <4>1
    <3>3. \A k \in Job : fence.token = k =>
            /\ pc'[k] \in {"clean", "ready", "planned"} => \A g \in DOMAIN groups' : Active(g)'
            /\ pc'[k] \in {"planned", "loading"} =>
                 \A g \in DOMAIN groups' : Active(g)' => jgen[g] # jgen[k]
            /\ pc'[k] = "loading" => Loading(k)'
      BY <2>1, <2>2, <2>3, <2>4, <2>8 DEF IInv, GroupInv
    <3> QED BY <2>1, <2>3, <2>4, <3>1, <3>2, <3>3 DEF GroupInv
  <2>10. \A g \in Job : Live(g)' <=> Live(g)
    <3>1. \A g \in Job : Active(g)' <=> Active(g)
      BY <2>3, <2>4, <2>8 DEF Active
    <3> QED BY <2>4, <2>8, <3>1 DEF Live, Active
  <2>11. LogInv'
    <3>1. ASSUME NEW r \in log PROVE IsRecord(r)'
      <4>1. IsRecord(r)
        BY DEF IInv, LogInv
      <4>2. r.prevGroup \in DOMAIN groups
        BY <4>1 DEF IsRecord, Active
      <4> QED BY <2>1, <2>4, <2>8, <4>1, <4>2 DEF IsRecord
    <3> QED BY <2>1, <3>1 DEF IInv, LogInv
  <2>12. ManagedInv'
    <3>1. \A n \in DOMAIN managed, g \in Job, t \in Table : ~ IsShadowOf(n, g, t)
      BY <2>3 DEF IsShadowOf, Loading, Active
    <3>2. \A n \in DOMAIN managed, g \in Job, t \in Table : IsTableOf(n, g, t) => IsTableOf(n, g, t)'
      BY <2>1, <2>10 DEF IsTableOf
    <3>3. \A n \in DOMAIN managed, r \in log : IsQuarantinedBy(n, r) => IsQuarantinedBy(n, r)'
      BY <2>1 DEF IsQuarantinedBy
    <3> QED BY <2>1, <2>10, <3>1, <3>2, <3>3 DEF IInv, ManagedInv
  <2>13. LoadedInv'
    <3>1. \A t \in DOMAIN plan[j] : plan[j][t].shadow \notin DOMAIN managed
      <4>1. \A t \in DOMAIN plan[j] : plan[j][t].shadow \in DOMAIN managed =>
              IsShadowOf(plan[j][t].shadow, j, t)
        BY Classified DEF IInv
      <4> QED BY <2>3, <4>1 DEF IsShadowOf, Loading
    <3> QED BY <2>1, <2>2, <3>1 DEF LoadedInv
  <2>14. PhysInv'
    BY <2>1 DEF IInv, PhysInv
  <2> QED BY <2>5, <2>6, <2>9, <2>11, <2>12, <2>13, <2>14 DEF IInv
<1> QED BY <1>1, <1>2

\* The group that loads is the only one that does.
LEMMA OneLoads ==
  ASSUME IInv, NEW j \in Job, Loading(j)
  PROVE  \A g \in DOMAIN groups : g # j => Active(g)
<1>1. \A g \in DOMAIN groups : g \in Int /\ j \in Int
  BY DEF IInv, GroupInv, Job
<1> QED BY <1>1 DEF IInv, GroupInv, Loading, Active

\* Every group that loads is behind the owner of the fence that has none yet.
LEMMA LoadingIsStale ==
  ASSUME IInv, NEW j \in Job, fence.token = j, NEW g \in DOMAIN groups, Loading(g), g # j
  PROVE  g \in StaleGroups(j)
<1>1. /\ groups[g].gen = jgen[g] /\ g <= j /\ jgen[g] <= jgen[j]
      /\ groups[g].state = "loading" /\ g \in Job
  BY DEF IInv, GroupInv, JobInv, Loading
<1>2. g \in Int /\ j \in Int /\ jgen[g] \in Int /\ jgen[j] \in Int
  BY <1>1 DEF IInv, TypeInv, Job, Gen
<1> QED BY <1>1, <1>2 DEF StaleGroups

\* The cleanup leaves no group that loads, and no shadow.
LEMMA CleanupStaleStep ==
  ASSUME IInv, NEW j \in Job, CleanupStale(j)
  PROVE  IInv'
<1>1. CASE ~(HoldsFence(j) /\ \A g \in StaleGroups(j) : Cleanable(g, j))
  BY <1>1, GivesUp DEF CleanupStale, target
<1>2. CASE HoldsFence(j) /\ \A g \in StaleGroups(j) : Cleanable(g, j)
  <2>1. /\ groups' = Without(groups, StaleGroups(j))
        /\ managed' = Without(managed, DroppedShadows(j))
        /\ phys' = Without(phys, DroppedShadows(j))
        /\ pc' = [pc EXCEPT ![j] = "clean"] /\ pc[j] = "fenced"
        /\ fence.token = j /\ fence.gen = jgen[j]
        /\ UNCHANGED <<src, ddl, gen, token, fence, log, meddled, jgen, plan>>
    BY <1>2 DEF CleanupStale, HoldsFence, Goto, source, control
  <2>2. /\ pc'[j] = "clean" /\ \A k \in Job \ {j} : pc'[k] = pc[k]
        /\ pc' \in [Job -> Position]
    BY <2>1 DEF IInv, TypeInv, Position
  <2>3. j \notin DOMAIN groups /\ DOMAIN groups \subseteq Job
    BY <2>1 DEF IInv, GroupInv
  <2>4. \A g \in DOMAIN groups : g \in StaleGroups(j) <=> Loading(g)
    <3>1. \A g \in StaleGroups(j) : Loading(g)
      BY DEF StaleGroups, Loading
    <3>2. \A g \in DOMAIN groups : Loading(g) => g \in StaleGroups(j)
      BY <2>1, <2>3, LoadingIsStale
    <3> QED BY <3>1, <3>2
  <2>5. /\ DOMAIN groups' = {g \in DOMAIN groups : Active(g)}
        /\ \A g \in DOMAIN groups' : groups'[g] = groups[g]
        /\ groups' = [g \in DOMAIN groups' |-> groups'[g]]
    <3>1. \A g \in DOMAIN groups : Active(g) <=> g \notin StaleGroups(j)
      BY <2>4 DEF Loading, Active, IInv, GroupInv
    <3> QED BY <2>1, <3>1 DEF Without, Restrict
  <2>6. \A g \in Job : (Active(g)' <=> Active(g)) /\ (Live(g)' <=> Live(g))
    BY <2>5 DEF Active, Live
  <2>7. \A n \in DroppedShadows(j) : \E r, g : n = Shadow(r, g)
    <3> SUFFICES ASSUME NEW g \in StaleGroups(j), NEW t \in DOMAIN groups[g].tables
                 PROVE  \E r, h : groups[g].tables[t].shadow = Shadow(r, h)
      BY DEF DroppedShadows, ManifestShadows
    <3>1. g \in Job /\ groups[g].tables = plan[g]
      BY DEF StaleGroups, IInv, GroupInv
    <3> QED BY <3>1, EntriesDiffer DEF IInv, JobInv
  <2>8. /\ DOMAIN managed' = DOMAIN managed \ DroppedShadows(j)
        /\ \A n \in DOMAIN managed' : managed'[n] = managed[n]
        /\ managed' = [n \in DOMAIN managed' |-> managed'[n]]
    BY <2>1 DEF Without, Restrict
  <2>9. TypeInv'
    BY <2>1, <2>2 DEF IInv, TypeInv
  <2>10. JobInv'
    BY <2>1, <2>2 DEF IInv, JobInv
  <2>11. GroupInv'
    <3>1. \A g \in DOMAIN groups' : g \in Job /\ Active(g)' /\ g # j /\ g \in DOMAIN groups
      BY <2>3, <2>5, <2>6
    <3>2. \A g \in DOMAIN groups' :
            /\ groups'[g] = [state |-> groups'[g].state, gen |-> jgen[g], tables |-> plan[g]]
            /\ groups'[g].state = "active"
            /\ g <= fence.token /\ jgen[g] <= fence.gen
            /\ pc'[g] \in {"loading", "serving", "stopped"} /\ DOMAIN plan[g] # {}
      BY <2>2, <2>5, <3>1 DEF IInv, GroupInv, Active
    <3>3. \A k \in Job : fence.token = k =>
            /\ pc'[k] \in {"clean", "ready", "planned"} => \A g \in DOMAIN groups' : Active(g)'
            /\ pc'[k] \in {"planned", "loading"} =>
                 \A g \in DOMAIN groups' : Active(g)' => jgen[g] # jgen[k]
            /\ pc'[k] = "loading" => Loading(k)'
      BY <2>1, <2>2, <3>1
    <3> QED BY <2>1, <2>5, <3>1, <3>2, <3>3 DEF GroupInv
  <2>12. LogInv'
    <3>1. ASSUME NEW r \in log PROVE IsRecord(r)'
      <4>1. IsRecord(r)
        BY DEF IInv, LogInv
      <4>2. r.prevGroup \in Job
        BY <2>3, <4>1 DEF IsRecord, Active
      <4>3. PICK h \in DOMAIN groups : Active(h) /\ r.prevToken < h
        BY <4>1 DEF IsRecord
      <4>4. h \in DOMAIN groups' /\ Active(h)'
        BY <2>3, <2>5, <2>6, <4>3
      <4> QED BY <2>1, <2>6, <4>1, <4>2, <4>3, <4>4 DEF IsRecord
    <3> QED BY <2>1, <3>1 DEF IInv, LogInv
  <2>13. ManagedInv'
    <3>1. ASSUME NEW n \in DOMAIN managed', NEW g \in Job, NEW t \in Table, IsShadowOf(n, g, t)
          PROVE  FALSE
      <4>1. g \in StaleGroups(j) /\ groups[g].tables = plan[g]
        BY <2>4, <3>1 DEF IsShadowOf, Loading, IInv, GroupInv
      <4>2. n \in DroppedShadows(j)
        BY <3>1, <4>1 DEF IsShadowOf, DroppedShadows, ManifestShadows
      <4> QED BY <2>8, <4>2
    <3>2. \A n \in DOMAIN managed', g \in Job, t \in Table : IsTableOf(n, g, t) => IsTableOf(n, g, t)'
      BY <2>1, <2>6, <2>8 DEF IsTableOf
    <3>3. \A n \in DOMAIN managed', r \in log : IsQuarantinedBy(n, r) => IsQuarantinedBy(n, r)'
      BY <2>1, <2>8 DEF IsQuarantinedBy
    <3>4. \A g \in Job : Live(g)' => \A t \in DOMAIN plan[g] : Target(t) \in DOMAIN managed'
      BY <2>6, <2>7, <2>8, NamesDiffer DEF IInv, ManagedInv
    <3>5. \A r \in log : ~r.purged => r.name \in DOMAIN managed'
      <4>1. \A r \in log : \E t, x : r.name = QuarantineName(t, x)
        BY DEF IInv, LogInv, IsRecord
      <4> QED BY <2>7, <2>8, <4>1, NamesDiffer DEF IInv, ManagedInv
    <3> QED BY <2>1, <2>8, <3>1, <3>2, <3>3, <3>4, <3>5 DEF IInv, ManagedInv
  <2>14. LoadedInv'
    BY <2>1, <2>2 DEF LoadedInv
  <2>15. PhysInv'
    BY <2>1, <2>8 DEF IInv, PhysInv, Without, Restrict
  <2> QED BY <2>9, <2>10, <2>11, <2>12, <2>13, <2>14, <2>15 DEF IInv
<1> QED BY <1>1, <1>2

Field == {"group", "table", "name", "oid", "gen", "rel", "prevGroup", "tableGen", "fp",
          "prevToken", "token", "purged"}

\* A collection takes a relation with its record; the others have other names.
LEMMA CollectQuarantineStep ==
  ASSUME IInv, NEW j \in Job, CollectQuarantine(j)
  PROVE  IInv'
<1>1. PICK expired \in SUBSET {r \in log : ~r.purged} :
        IF HoldsFence(j) /\ \A r \in expired : Collectable(r, j)
        THEN /\ managed' = Without(managed, {r.name : r \in expired})
             /\ phys' = Without(phys, {r.name : r \in expired})
             /\ log' = (log \ expired) \cup {[r EXCEPT !.purged = TRUE] : r \in expired}
             /\ Goto(j, "ready")
        ELSE UNCHANGED <<managed, phys, log>> /\ Goto(j, "stopped")
  BY DEF CollectQuarantine
<1>2. CASE ~(HoldsFence(j) /\ \A r \in expired : Collectable(r, j))
  BY <1>1, <1>2, GivesUp DEF CollectQuarantine, target
<1>3. CASE HoldsFence(j) /\ \A r \in expired : Collectable(r, j)
  <2> DEFINE names == {r.name : r \in expired}
             purge(r) == [r EXCEPT !.purged = TRUE]
  <2>1. /\ managed' = Without(managed, names) /\ phys' = Without(phys, names)
        /\ log' = (log \ expired) \cup {purge(r) : r \in expired}
        /\ pc' = [pc EXCEPT ![j] = "ready"] /\ pc[j] = "clean" /\ fence.token = j
        /\ UNCHANGED <<src, ddl, gen, token, fence, groups, meddled, jgen, plan>>
    BY <1>1, <1>3 DEF CollectQuarantine, HoldsFence, Goto, source, control
  <2>2. /\ pc'[j] = "ready" /\ \A k \in Job \ {j} : pc'[k] = pc[k]
        /\ pc' \in [Job -> Position]
    BY <2>1 DEF IInv, TypeInv, Position
  <2>3. j \notin DOMAIN groups /\ DOMAIN groups \subseteq Job
    BY <2>1 DEF IInv, GroupInv
  <2>4. \A r \in log : IsRecord(r) /\ \E t, x : r.name = QuarantineName(t, x)
    BY DEF IInv, LogInv, IsRecord
  <2>5. \A r \in expired :
          /\ purge(r).purged = TRUE /\ HasFields(purge(r))
          /\ purge(r).name = r.name /\ purge(r).table = r.table /\ purge(r).oid = r.oid
          /\ purge(r).gen = r.gen /\ purge(r).rel = r.rel /\ purge(r).prevGroup = r.prevGroup
          /\ purge(r).tableGen = r.tableGen /\ purge(r).fp = r.fp
          /\ purge(r).prevToken = r.prevToken /\ purge(r).token = r.token
    <3> SUFFICES ASSUME NEW r \in expired
                 PROVE  /\ purge(r).purged = TRUE /\ HasFields(purge(r))
                        /\ purge(r).name = r.name /\ purge(r).table = r.table
                        /\ purge(r).oid = r.oid /\ purge(r).gen = r.gen /\ purge(r).rel = r.rel
                        /\ purge(r).prevGroup = r.prevGroup /\ purge(r).tableGen = r.tableGen
                        /\ purge(r).fp = r.fp /\ purge(r).prevToken = r.prevToken
                        /\ purge(r).token = r.token
      OBVIOUS
    <3>1. HasFields(r)
      BY <2>4 DEF IsRecord
    <3>2. /\ DOMAIN purge(r) = Field /\ purge(r) = [x \in DOMAIN purge(r) |-> purge(r)[x]]
          /\ \A x \in Field : x # "purged" => purge(r)[x] = r[x]
          /\ purge(r).purged = TRUE
      BY <3>1 DEF HasFields, Field
    <3> HIDE DEF purge
    <3>3. HasFields(purge(r))
      BY <3>2 DEF HasFields, Field
    <3> QED BY <3>2, <3>3 DEF Field
  <2> HIDE DEF purge
  <2>6. /\ DOMAIN managed' = DOMAIN managed \ names
        /\ \A n \in DOMAIN managed' : managed'[n] = managed[n]
        /\ managed' = [n \in DOMAIN managed' |-> managed'[n]]
    BY <2>1 DEF Without, Restrict
  <2>7. \A n \in names : \E t, x : n = QuarantineName(t, x)
    BY <2>4
  <2> HIDE DEF names
  <2>8. TypeInv'
    BY <2>1, <2>2 DEF IInv, TypeInv
  <2>9. JobInv'
    BY <2>1, <2>2 DEF IInv, JobInv
  <2>10. GroupInv'
    BY <2>1, <2>2, <2>3 DEF IInv, GroupInv, Active, Loading
  <2>11. LogInv'
    <3>1. ASSUME NEW r \in log' PROVE IsRecord(r)'
      <4>1. CASE r \in log
        BY <2>1, <2>4, <4>1 DEF IsRecord, Active
      <4>2. CASE \E q \in expired : r = purge(q)
        <5>1. PICK q \in expired : r = purge(q)
          BY <4>2
        <5>2. IsRecord(q)
          BY <2>4
        <5> QED BY <2>1, <2>5, <5>1, <5>2 DEF IsRecord, Active
      <4> QED BY <2>1, <4>1, <4>2
    <3>2. ASSUME NEW r \in log', NEW s \in log', r.name = s.name PROVE r = s
      <4>1. \A q \in log' : \E p \in log : p.name = q.name /\ q = IF p \in expired THEN purge(p) ELSE p
        BY <2>1, <2>5
      <4>2. PICK p \in log : p.name = r.name /\ r = IF p \in expired THEN purge(p) ELSE p
        BY <4>1
      <4>3. PICK q \in log : q.name = s.name /\ s = IF q \in expired THEN purge(q) ELSE q
        BY <4>1
      <4>4. p = q
        BY <3>2, <4>2, <4>3 DEF IInv, LogInv
      <4> QED BY <4>2, <4>3, <4>4
    <3> QED BY <3>1, <3>2 DEF LogInv
  <2>12. ManagedInv'
    <3>1. \A g \in Job : (Live(g)' <=> Live(g)) /\ (Loading(g)' <=> Loading(g))
      BY <2>1 DEF Live, Active, Loading
    <3>2. \A n \in DOMAIN managed', g \in Job, t \in Table :
            /\ IsShadowOf(n, g, t) => IsShadowOf(n, g, t)'
            /\ IsTableOf(n, g, t) => IsTableOf(n, g, t)'
      BY <2>1, <2>6, <3>1 DEF IsShadowOf, IsTableOf
    <3>3. \A n \in DOMAIN managed', r \in log :
            IsQuarantinedBy(n, r) => r \in log' /\ IsQuarantinedBy(n, r)'
      BY <2>1, <2>6 DEF IsQuarantinedBy, names
    <3>4. \A g \in Job : Live(g)' => \A t \in DOMAIN plan[g] : Target(t) \in DOMAIN managed'
      BY <2>6, <2>7, <3>1, NamesDiffer DEF IInv, ManagedInv
    <3>5. \A r \in log' : ~r.purged => r.name \in DOMAIN managed'
      <4> SUFFICES ASSUME NEW r \in log', ~r.purged PROVE r.name \in DOMAIN managed'
        OBVIOUS
      <4>1. r \in log /\ r \notin expired
        BY <2>1, <2>5
      <4>2. r.name \notin names
        BY <4>1 DEF IInv, LogInv, names
      <4> QED BY <2>6, <4>1, <4>2 DEF IInv, ManagedInv
    <3>6. \A n \in DOMAIN managed' :
            \/ \E g \in Job, t \in Table : IsShadowOf(n, g, t)'
            \/ \E g \in Job, t \in Table : IsTableOf(n, g, t)'
            \/ \E r \in log' : IsQuarantinedBy(n, r)'
      BY <2>6, <3>2, <3>3 DEF IInv, ManagedInv
    <3> QED BY <2>1, <2>6, <3>4, <3>5, <3>6 DEF ManagedInv
  <2>13. LoadedInv'
    BY <2>1, <2>2 DEF LoadedInv
  <2>14. PhysInv'
    BY <2>1, <2>6 DEF IInv, PhysInv, Without, Restrict
  <2> QED BY <2>8, <2>9, <2>10, <2>11, <2>12, <2>13, <2>14 DEF IInv
<1> QED BY <1>2, <1>3

\* The shadow is new, and the target is free or of the same source table.
LEMMA LoadTableStep ==
  ASSUME IInv, NEW j \in Job, NEW t \in Table, LoadTable(j, t)
  PROVE  IInv'
<1> DEFINE e == plan[j][t]
<1>1. CASE ~(HoldsFence(j) /\ Loadable(t, j))
  BY <1>1, GivesUp DEF LoadTable, target
<1>2. CASE HoldsFence(j) /\ Loadable(t, j)
  <2>1. /\ managed' = Put(managed, e.shadow, ShadowRecord(e, j))
        /\ phys' = Put(phys, e.shadow, e.shadow)
        /\ pc[j] = "loading" /\ fence.token = j
        /\ t \in DOMAIN plan[j] /\ e.shadow \notin DOMAIN managed
        /\ UNCHANGED <<src, ddl, gen, token, fence, groups, log, meddled, pc, jgen, plan>>
    BY <1>2 DEF LoadTable, Loaded, HoldsFence, source, control
  <2>2. /\ DOMAIN managed' = DOMAIN managed \cup {e.shadow}
        /\ managed'[e.shadow] = ShadowRecord(e, j)
        /\ \A n \in DOMAIN managed : managed'[n] = managed[n]
        /\ managed' = [n \in DOMAIN managed' |-> managed'[n]]
    BY <2>1 DEF Put
  <2>3. /\ Loading(j) /\ e.shadow = Shadow(e.rel, j)
        /\ \A u \in DOMAIN plan[j] : u # t => plan[j][u].shadow # e.shadow
    <3>1. Loading(j)
      BY <2>1 DEF IInv, GroupInv
    <3>2. \A u \in DOMAIN plan[j] :
            plan[j][u].shadow = Shadow(plan[j][u].rel, j) /\ (plan[j][u].rel = e.rel => u = t)
      BY <2>1, EntriesDiffer DEF IInv, JobInv
    <3> QED BY <2>1, <3>1, <3>2, NamesTell
  <2>4. TypeInv' /\ JobInv'
    BY <2>1 DEF IInv, TypeInv, JobInv
  <2>5. GroupInv'
    BY <2>1 DEF IInv, GroupInv, Active, Loading
  <2>6. LogInv'
    BY <2>1 DEF IInv, LogInv, IsRecord, Active
  <2>7. ManagedInv'
    <3>1. \A g \in Job : (Live(g)' <=> Live(g)) /\ (Loading(g)' <=> Loading(g))
      BY <2>1 DEF Live, Active, Loading
    <3>2. \A n \in DOMAIN managed, g \in Job, u \in Table :
            /\ IsShadowOf(n, g, u) => IsShadowOf(n, g, u)'
            /\ IsTableOf(n, g, u) => IsTableOf(n, g, u)'
      BY <2>1, <2>2, <3>1 DEF IsShadowOf, IsTableOf
    <3>3. \A n \in DOMAIN managed, r \in log : IsQuarantinedBy(n, r) => IsQuarantinedBy(n, r)'
      BY <2>1, <2>2 DEF IsQuarantinedBy
    <3>4. IsShadowOf(e.shadow, j, t)'
      BY <2>1, <2>2, <2>3, <3>1 DEF IsShadowOf, ShadowRecord
    <3>5. \A n \in DOMAIN managed' :
            \/ \E g \in Job, u \in Table : IsShadowOf(n, g, u)'
            \/ \E g \in Job, u \in Table : IsTableOf(n, g, u)'
            \/ \E r \in log' : IsQuarantinedBy(n, r)'
      BY <2>1, <2>2, <3>2, <3>3, <3>4 DEF IInv, ManagedInv
    <3> QED BY <2>1, <2>2, <3>1, <3>5 DEF IInv, ManagedInv
  <2>8. LoadedInv'
    <3>1. Target(t) \in DOMAIN managed => managed[Target(t)].rel = e.rel
      BY <1>2 DEF Loadable, TargetLoadable, Vacant, OwnTarget
    <3>2. \A u : Target(u) # e.shadow
      BY <2>3, NamesDiffer
    <3>3. ASSUME NEW u \in DOMAIN plan[j], plan[j][u].shadow \in DOMAIN managed',
                 Target(u) \in DOMAIN managed'
          PROVE  managed'[Target(u)].rel = plan[j][u].rel
      <4>1. Target(u) \in DOMAIN managed /\ managed'[Target(u)] = managed[Target(u)]
        BY <2>2, <3>2, <3>3
      <4>2. CASE u = t
        BY <3>1, <4>1, <4>2
      <4>3. CASE u # t
        BY <2>1, <2>2, <2>3, <3>3, <4>1, <4>3 DEF IInv, LoadedInv
      <4> QED BY <4>2, <4>3
    <3> QED BY <2>1, <3>3 DEF LoadedInv
  <2>9. PhysInv'
    <3>1. phys' = [n \in DOMAIN phys' |-> phys'[n]]
      BY <2>1 DEF Put
    <3>2. ASSUME meddled = 0 PROVE phys' = [n \in DOMAIN managed' |-> managed'[n].oid]
      <4>1. DOMAIN phys = DOMAIN managed /\ \A n \in DOMAIN managed : phys[n] = managed[n].oid
        BY <3>2 DEF IInv, PhysInv
      <4>2. ShadowRecord(e, j).oid = e.shadow
        BY DEF ShadowRecord
      <4> QED BY <2>1, <2>2, <4>1, <4>2 DEF Put
    <3> QED BY <2>1, <3>1, <3>2 DEF PhysInv
  <2> QED BY <2>4, <2>5, <2>6, <2>7, <2>8, <2>9 DEF IInv
<1> QED BY <1>1, <1>2

\* A displaced table belongs to the group that was activated last.
LEMMA DisplacedTable ==
  ASSUME IInv, NEW t \in ActiveTables
  PROVE  \E g \in Job : IsTableOf(Target(t), g, t)
BY Classified DEF IInv, ActiveTables

\* A table of the live group is active.
LEMMA LiveTable ==
  ASSUME NEW n \in DOMAIN managed, NEW g, NEW t \in Table, IsTableOf(n, g, t)
  PROVE  t \in ActiveTables
BY DEF IsTableOf, ActiveRecord, ActiveTables

\* What the records become when the tables change their names.
LEMMA RelocatedFields ==
  ASSUME NEW a, NEW b, NEW c, NEW d, NEW f, NEW s, NEW k, NEW s2, NEW k2
  PROVE  Relocated([group |-> a, oid |-> b, rel |-> c, gen |-> d, fp |-> f,
                    state |-> s, token |-> k], s2, k2)
           = [group |-> a, oid |-> b, rel |-> c, gen |-> d, fp |-> f, state |-> s2, token |-> k2]
<1> DEFINE r == [group |-> a, oid |-> b, rel |-> c, gen |-> d, fp |-> f, state |-> s, token |-> k]
           q == [r EXCEPT !.state = s2]
           u == [group |-> a, oid |-> b, rel |-> c, gen |-> d, fp |-> f, state |-> s2, token |-> k]
           v == [group |-> a, oid |-> b, rel |-> c, gen |-> d, fp |-> f, state |-> s2, token |-> k2]
<1>1. q = u
  OBVIOUS
<1>2. [r EXCEPT !.state = s2, !.token = k2] = [q EXCEPT !.token = k2]
  OBVIOUS
<1>3. [u EXCEPT !.token = k2] = v
  OBVIOUS
<1> HIDE DEF r, q, u
<1>4. [r EXCEPT !.state = s2, !.token = k2] = v
  BY <1>1, <1>2, <1>3
<1> QED BY <1>4 DEF r, Relocated

LEMMA RelocatedRecords ==
  /\ \A e, j : Relocated(ShadowRecord(e, j), "active", j) = ActiveRecord(e, j)
  /\ \A e, g, j : Relocated(ActiveRecord(e, g), "quarantined", j)
       = [group |-> g, oid |-> e.shadow, rel |-> e.rel, gen |-> e.gen, fp |-> e.fp,
          state |-> "quarantined", token |-> j]
<1>1. ASSUME NEW e, NEW j PROVE Relocated(ShadowRecord(e, j), "active", j) = ActiveRecord(e, j)
  BY RelocatedFields DEF ShadowRecord, ActiveRecord
<1>2. ASSUME NEW e, NEW g, NEW j
      PROVE  Relocated(ActiveRecord(e, g), "quarantined", j)
               = [group |-> g, oid |-> e.shadow, rel |-> e.rel, gen |-> e.gen, fp |-> e.fp,
                  state |-> "quarantined", token |-> j]
  BY RelocatedFields DEF ActiveRecord
<1> QED BY <1>1, <1>2

\* The record of a displaced table.
LEMMA DisplacedRecord ==
  ASSUME IInv, NEW j \in Job, fence.token = j, Loading(j), NEW t \in ActiveTables
  PROVE  \E g \in Job :
           /\ Active(g) /\ Live(g) /\ g < j /\ t \in DOMAIN plan[g]
           /\ managed[Target(t)] = ActiveRecord(plan[g][t], g)
           /\ plan[g][t].gen = jgen[g] /\ plan[g][t].shadow # Foreign
<1>1. PICK g \in Job : IsTableOf(Target(t), g, t)
  BY DisplacedTable
<1>2. /\ Active(g) /\ Live(g) /\ t \in DOMAIN plan[g]
      /\ managed[Target(t)] = ActiveRecord(plan[g][t], g)
  BY <1>1 DEF IsTableOf, Live
<1>3. g # j /\ g <= j /\ g \in Int /\ j \in Int
  BY <1>2 DEF IInv, GroupInv, Active, Loading, Job
<1>4. plan[g][t].gen = jgen[g] /\ plan[g][t].shadow # Foreign
  BY <1>2, EntriesDiffer DEF IInv, JobInv
<1> QED BY <1>2, <1>3, <1>4


\* The quarantine name of a displaced table.
Parked(t) == QuarantineName(t, managed[Target(t)])

\* The relations after an activation: each displaced table under its quarantine name,
\* each shadow under its target, the others where they were.
LEMMA Renames ==
  ASSUME IInv, NEW j \in Job, ActivateGroup(j), HoldsFence(j), CanActivate(j)
  PROVE  LET in == {Target(t) : t \in DOMAIN plan[j]}
             moved == {Target(t) : t \in ActiveTables} \cup {plan[j][t].shadow : t \in DOMAIN plan[j]}
             parked == {Parked(t) : t \in ActiveTables}
         IN /\ managed' = [n \in (DOMAIN managed \ moved) \cup in \cup parked |->
                  IF n \in parked THEN Relocated(managed[Target(n[2])], "quarantined", j)
                  ELSE IF n \in in THEN Relocated(managed[plan[j][n[2]].shadow], "active", j)
                  ELSE managed[n]]
            /\ phys' = [n \in (DOMAIN phys \ moved) \cup in \cup parked |->
                  IF n \in parked THEN phys[Target(n[2])]
                  ELSE IF n \in in THEN phys[plan[j][n[2]].shadow]
                  ELSE phys[n]]
            /\ log' = log \cup {LogRecord(t, j) : t \in ActiveTables}
            /\ groups' = MarkedActive(j)
            /\ pc' = [pc EXCEPT ![j] = "serving"]
            /\ UNCHANGED <<src, ddl, gen, token, fence, meddled, jgen, plan>>
BY DEF ActivateGroup, Renamed, Displaced, Parked, Goto, source, control

LEMMA RenamedTables ==
  ASSUME IInv, NEW j \in Job, ActivateGroup(j), HoldsFence(j), CanActivate(j)
  PROVE  /\ managed' = [n \in DOMAIN managed' |-> managed'[n]]
         /\ phys' = [n \in DOMAIN phys' |-> phys'[n]]
         /\ \A t \in ActiveTables :
              /\ Parked(t) \in DOMAIN managed' /\ Parked(t) \in DOMAIN phys'
              /\ managed'[Parked(t)] = Relocated(managed[Target(t)], "quarantined", j)
              /\ phys'[Parked(t)] = phys[Target(t)]
         /\ \A t \in DOMAIN plan[j] :
              /\ Target(t) \in DOMAIN managed' /\ Target(t) \in DOMAIN phys'
              /\ managed'[Target(t)] = Relocated(managed[plan[j][t].shadow], "active", j)
              /\ phys'[Target(t)] = phys[plan[j][t].shadow]
         /\ \A n \in DOMAIN managed' \cup DOMAIN phys' :
              \/ \E t \in ActiveTables : n = Parked(t)
              \/ \E t \in DOMAIN plan[j] : n = Target(t)
              \/ /\ \A t \in ActiveTables : n # Target(t)
                 /\ \A t \in DOMAIN plan[j] : n # plan[j][t].shadow
                 /\ n \in DOMAIN managed' => n \in DOMAIN managed /\ managed'[n] = managed[n]
                 /\ n \in DOMAIN phys' => n \in DOMAIN phys /\ phys'[n] = phys[n]
         /\ \A n :
              /\ \A t \in ActiveTables : n # Target(t) /\ n # Parked(t)
              /\ \A t \in DOMAIN plan[j] : n # Target(t) /\ n # plan[j][t].shadow
              => /\ n \in DOMAIN managed => n \in DOMAIN managed' /\ managed'[n] = managed[n]
                 /\ n \in DOMAIN phys => n \in DOMAIN phys' /\ phys'[n] = phys[n]
<1> DEFINE in == {Target(t) : t \in DOMAIN plan[j]}
           moved == {Target(t) : t \in ActiveTables} \cup {plan[j][t].shadow : t \in DOMAIN plan[j]}
           parked == {Parked(t) : t \in ActiveTables}
           dm == (DOMAIN managed \ moved) \cup in \cup parked
           dp == (DOMAIN phys \ moved) \cup in \cup parked
<1>1. /\ DOMAIN managed' = dm /\ DOMAIN phys' = dp
      /\ managed' = [n \in DOMAIN managed' |-> managed'[n]]
      /\ phys' = [n \in DOMAIN phys' |-> phys'[n]]
      /\ \A n \in dm : managed'[n] =
           IF n \in parked THEN Relocated(managed[Target(n[2])], "quarantined", j)
           ELSE IF n \in in THEN Relocated(managed[plan[j][n[2]].shadow], "active", j)
           ELSE managed[n]
      /\ \A n \in dp : phys'[n] =
           IF n \in parked THEN phys[Target(n[2])]
           ELSE IF n \in in THEN phys[plan[j][n[2]].shadow]
           ELSE phys[n]
  BY Renames, Zenon
<1>2. /\ \A t \in ActiveTables : Parked(t) \in parked /\ Parked(t) \in dm /\ Parked(t) \in dp
                                 /\ Parked(t)[2] = t
      /\ \A t \in DOMAIN plan[j] : /\ Target(t) \in in /\ Target(t) \in dm /\ Target(t) \in dp
                                   /\ Target(t)[2] = t /\ Target(t) \notin parked
  BY NamesHold, NamesDiffer DEF Parked
<1>3. /\ \A n : n \in dm => n \in parked \/ n \in in \/ (n \in DOMAIN managed /\ n \notin moved)
      /\ \A n : n \in dp => n \in parked \/ n \in in \/ (n \in DOMAIN phys /\ n \notin moved)
      /\ \A n : n \notin moved /\ n \in DOMAIN managed => n \in dm
      /\ \A n : n \notin moved /\ n \in DOMAIN phys => n \in dp
  OBVIOUS
<1>4. /\ \A n : n \in parked <=> \E t \in ActiveTables : n = Parked(t)
      /\ \A n : n \in in <=> \E t \in DOMAIN plan[j] : n = Target(t)
      /\ \A n : n \notin moved <=> /\ \A t \in ActiveTables : n # Target(t)
                                   /\ \A t \in DOMAIN plan[j] : n # plan[j][t].shadow
  OBVIOUS
<1> HIDE DEF in, moved, parked, dm, dp
<1> QED BY <1>1, <1>2, <1>3, <1>4

\* No record has the name that a displaced table gets: the record's table was lost by a
\* group before the live one.
LEMMA FreshName ==
  ASSUME IInv, NEW r \in log, NEW t \in ActiveTables
  PROVE  r.name # Parked(t)
<1>1. PICK g \in Job : IsTableOf(Target(t), g, t)
  BY DisplacedTable
<1>2. Live(g) /\ managed[Target(t)].token = g
  BY <1>1 DEF IsTableOf, ActiveRecord
<1>3. /\ r.name = QuarantineName(r.table, [rel |-> r.rel, gen |-> r.tableGen, fp |-> r.fp,
                                           token |-> r.prevToken])
      /\ r.prevToken \in DOMAIN groups
  BY DEF IInv, LogInv, IsRecord, Active
<1>4. PICK h \in DOMAIN groups : Active(h) /\ r.prevToken < h
  BY DEF IInv, LogInv, IsRecord
<1>5. h <= g /\ h \in Int /\ g \in Int /\ r.prevToken \in Int
  BY <1>2, <1>3, <1>4 DEF Live, Active, IInv, GroupInv, Job
<1>6. r.prevToken # g
  BY <1>4, <1>5
<1>7. r.name = Parked(t) => r.prevToken = g
  BY <1>2, <1>3 DEF Parked, QuarantineName
<1> QED BY <1>6, <1>7

\* The record that an activation writes for a displaced table.
LEMMA NewRecord ==
  ASSUME IInv, NEW j \in Job, fence.token = j, Loading(j), NEW t \in ActiveTables
  PROVE  \E g \in Job, r \in {LogRecord(t, j)} :
           /\ Live(g) /\ g < j /\ r = LogRecord(t, j)
           /\ HasFields(r) /\ r.table = t /\ r.name = Parked(t)
           /\ r.name = QuarantineName(t, [rel |-> r.rel, gen |-> r.tableGen, fp |-> r.fp,
                                          token |-> g])
           /\ r.gen = jgen[j] /\ r.token = j /\ r.oid # Foreign /\ r.purged = FALSE
           /\ r.prevGroup = g /\ r.tableGen = jgen[g] /\ r.prevToken = g
           /\ Relocated(managed[Target(t)], "quarantined", j) = QuarantinedRecord(r)
<1>1. PICK g \in Job :
        /\ Active(g) /\ Live(g) /\ g < j /\ t \in DOMAIN plan[g]
        /\ managed[Target(t)] = ActiveRecord(plan[g][t], g)
        /\ plan[g][t].gen = jgen[g] /\ plan[g][t].shadow # Foreign
  BY DisplacedRecord
<1> DEFINE e == plan[g][t]
           a == ActiveRecord(e, g)
           r == [group |-> j, table |-> t, name |-> Parked(t), oid |-> e.shadow, gen |-> jgen[j],
                 rel |-> e.rel, prevGroup |-> g, tableGen |-> jgen[g], fp |-> e.fp,
                 prevToken |-> g, token |-> j, purged |-> FALSE]
<1>2. /\ a.group = g /\ a.oid = e.shadow /\ a.rel = e.rel /\ a.gen = jgen[g] /\ a.fp = e.fp
      /\ a.token = g
  BY <1>1 DEF ActiveRecord
<1>3. LogRecord(t, j) = r
  <2> HIDE DEF a
  <2> QED BY <1>1, <1>2 DEF LogRecord, Parked, a
<1>4. /\ r.table = t /\ r.name = Parked(t) /\ r.oid = e.shadow /\ r.gen = jgen[j] /\ r.rel = e.rel
      /\ r.prevGroup = g /\ r.tableGen = jgen[g] /\ r.fp = e.fp /\ r.prevToken = g
      /\ r.token = j /\ r.purged = FALSE /\ r.group = j
  OBVIOUS
<1>5. HasFields(r)
  BY DEF HasFields
<1>6. Parked(t) = QuarantineName(t, [rel |-> e.rel, gen |-> jgen[g], fp |-> e.fp, token |-> g])
  <2> HIDE DEF a
  <2> QED BY <1>1, <1>2 DEF Parked, QuarantineName, a
<1>7. Relocated(managed[Target(t)], "quarantined", j)
        = [group |-> g, oid |-> e.shadow, rel |-> e.rel, gen |-> jgen[g], fp |-> e.fp,
           state |-> "quarantined", token |-> j]
  BY <1>1, RelocatedRecords
<1> HIDE DEF r, a
<1>8. QuarantinedRecord(r)
        = [group |-> g, oid |-> e.shadow, rel |-> e.rel, gen |-> jgen[g], fp |-> e.fp,
           state |-> "quarantined", token |-> j]
  BY <1>4 DEF QuarantinedRecord
<1> QED BY <1>1, <1>3, <1>4, <1>5, <1>6, <1>7, <1>8

\* The group becomes the live one, its tables take their names, and the tables of the
\* group before it go into quarantine under names that no record has.
LEMMA ActivateGroupStep ==
  ASSUME IInv, NEW j \in Job, ActivateGroup(j)
  PROVE  IInv'
<1>1. CASE ~(HoldsFence(j) /\ CanActivate(j))
  BY <1>1, GivesUp DEF ActivateGroup, target
<1>2. CASE HoldsFence(j) /\ CanActivate(j)
  <2>1. /\ log' = log \cup {LogRecord(t, j) : t \in ActiveTables}
        /\ groups' = [groups EXCEPT ![j].state = "active"] /\ pc' = [pc EXCEPT ![j] = "serving"]
        /\ UNCHANGED <<src, ddl, gen, token, fence, meddled, jgen, plan>>
    BY <1>2, Renames DEF MarkedActive
  <2>2. /\ pc[j] = "loading" /\ fence.token = j /\ Loading(j)
        /\ \A t \in DOMAIN plan[j] : plan[j][t].shadow \in DOMAIN managed
        /\ \A t \in ActiveTables : Parked(t) \notin DOMAIN managed
    <3>1. pc[j] = "loading" /\ fence.token = j
      BY <1>2 DEF ActivateGroup, HoldsFence
    <3>2. Loading(j)
      BY <3>1 DEF IInv, GroupInv
    <3>3. \A t \in DOMAIN plan[j] : plan[j][t].shadow \in DOMAIN managed
      BY DEF ActivateGroup, Loaded
    <3>4. \A t \in ActiveTables : Parked(t) \notin DOMAIN managed
      BY <1>2 DEF CanActivate, Displaced, Vacant, Parked
    <3> QED BY <3>1, <3>2, <3>3, <3>4
  <2>3. /\ DOMAIN groups' = DOMAIN groups /\ groups' = [g \in DOMAIN groups' |-> groups'[g]]
        /\ \A g \in DOMAIN groups : g # j => groups'[g] = groups[g]
        /\ groups'[j] = [state |-> "active", gen |-> jgen[j], tables |-> plan[j]]
        /\ groups'[j].state = "active"
    <3>1. /\ j \in DOMAIN groups /\ groups = [g \in DOMAIN groups |-> groups[g]]
          /\ groups[j] = [state |-> groups[j].state, gen |-> jgen[j], tables |-> plan[j]]
      BY <2>2 DEF IInv, GroupInv, Loading
    <3>2. groups' = [g \in DOMAIN groups |->
                       IF g = j THEN [groups[j] EXCEPT !.state = "active"] ELSE groups[g]]
      BY <2>1, <3>1
    <3>3. [groups[j] EXCEPT !.state = "active"]
            = [state |-> "active", gen |-> jgen[j], tables |-> plan[j]]
      BY <3>1
    <3> QED BY <3>1, <3>2, <3>3
  <2>4. /\ \A g : Active(g)' <=> g \in DOMAIN groups
        /\ \A g \in DOMAIN groups : groups'[g].state = "active"
        /\ \A g : Active(g) => Active(g)'
    BY <2>2, <2>3, OneLoads DEF Active
  <2>5. \A g \in DOMAIN groups : g \in Int /\ j \in Int /\ g <= j
    BY <2>2 DEF IInv, GroupInv, Loading, Job
  <2>6. \A g : Live(g)' <=> g = j
    BY <2>2, <2>3, <2>4, <2>5 DEF Live, Active, Loading
  <2>7. TypeInv' /\ JobInv'
    BY <2>1, <2>2 DEF IInv, TypeInv, JobInv, Position
  <2>8. GroupInv'
    <3>1. \A g \in DOMAIN groups : pc'[g] \in {"loading", "serving", "stopped"}
      BY <2>1, <2>2 DEF IInv, GroupInv, TypeInv
    <3>2. \A g \in DOMAIN groups : groups'[g] = [state |-> groups'[g].state, gen |-> jgen[g], tables |-> plan[g]]
      <4> SUFFICES ASSUME NEW g \in DOMAIN groups
                   PROVE  groups'[g] = [state |-> groups'[g].state, gen |-> jgen[g], tables |-> plan[g]]
        OBVIOUS
      <4>1. CASE g = j
        BY <2>3, <4>1
      <4>2. CASE g # j
        BY <2>3, <4>2 DEF IInv, GroupInv
      <4> QED BY <4>1, <4>2
    <3>3. pc'[j] = "serving"
      BY <2>1 DEF IInv, TypeInv
    <3> QED BY <2>1, <2>2, <2>3, <2>4, <3>1, <3>2, <3>3 DEF IInv, GroupInv, Loading
  <2>9. \A t \in ActiveTables : \E g \in Job, r \in log' :
          /\ Live(g) /\ r = LogRecord(t, j) /\ r.prevToken = g /\ r.purged = FALSE
          /\ IsRecord(r)' /\ r.table = t /\ r.name = Parked(t)
          /\ managed'[Parked(t)] = QuarantinedRecord(r)
    <3> SUFFICES ASSUME NEW t \in ActiveTables
                 PROVE  \E g \in Job, r \in log' :
                          /\ Live(g) /\ r = LogRecord(t, j) /\ r.prevToken = g /\ r.purged = FALSE
                          /\ IsRecord(r)' /\ r.table = t /\ r.name = Parked(t)
                          /\ managed'[Parked(t)] = QuarantinedRecord(r)
      OBVIOUS
    <3>1. PICK g \in Job, r \in {LogRecord(t, j)} :
            /\ Live(g) /\ g < j /\ r = LogRecord(t, j)
            /\ HasFields(r) /\ r.table = t /\ r.name = Parked(t)
            /\ r.name = QuarantineName(t, [rel |-> r.rel, gen |-> r.tableGen, fp |-> r.fp,
                                           token |-> g])
            /\ r.gen = jgen[j] /\ r.token = j /\ r.oid # Foreign /\ r.purged = FALSE
            /\ r.prevGroup = g /\ r.tableGen = jgen[g] /\ r.prevToken = g
            /\ Relocated(managed[Target(t)], "quarantined", j) = QuarantinedRecord(r)
      BY <2>2, NewRecord
    <3>3. r \in log'
      BY <2>1, <3>1
    <3>4. managed'[Parked(t)] = QuarantinedRecord(r)
      BY <1>2, <3>1, RenamedTables
    <3>5. jgen[j] \in Nat /\ j \in Nat /\ g \in Nat /\ jgen[j] <= fence.gen
      BY <2>2 DEF IInv, TypeInv, Job, Gen, JobInv
    <3>6. Active(g)' /\ Active(j)' /\ g < j /\ j \in DOMAIN groups'
      BY <2>2, <2>3, <2>4, <3>1 DEF Live, Active, Loading
    <3>7. IsRecord(r)'
      BY <2>1, <2>2, <3>1, <3>5, <3>6 DEF IsRecord
    <3> QED BY <3>1, <3>3, <3>4, <3>7
  <2>10. LogInv'
    <3>1. \A r \in log : IsRecord(r)'
      BY <2>1, <2>3, <2>4 DEF IInv, LogInv, IsRecord
    <3>2. \A r \in log' : r \in log \/ \E t \in ActiveTables : r = LogRecord(t, j)
      BY <2>1
    <3>3. \A r \in log' : IsRecord(r)'
      BY <2>9, <3>1, <3>2
    <3>4. \A r \in log, t \in ActiveTables : r.name # LogRecord(t, j).name
      BY <2>9, FreshName
    <3>5. \A t, u \in ActiveTables : LogRecord(t, j).name = LogRecord(u, j).name => t = u
      BY <2>9, NamesTell DEF Parked
    <3>6. \A r, s \in log' : r.name = s.name => r = s
      BY <3>2, <3>4, <3>5 DEF IInv, LogInv
    <3> QED BY <3>3, <3>6 DEF LogInv
  <2>11. ManagedInv'
    <3>1. \A r \in log : \E t, x : r.name = QuarantineName(t, x)
      BY DEF IInv, LogInv, IsRecord
    <3>3. \A t \in DOMAIN plan[j] : IsTableOf(Target(t), j, t)'
      <4> SUFFICES ASSUME NEW t \in DOMAIN plan[j] PROVE IsTableOf(Target(t), j, t)'
        OBVIOUS
      <4>1. managed[plan[j][t].shadow] = ShadowRecord(plan[j][t], j)
        BY <2>2, Classified DEF IInv, IsShadowOf
      <4>2. managed'[Target(t)] = ActiveRecord(plan[j][t], j)
        BY <1>2, <4>1, RenamedTables, RelocatedRecords
      <4> QED BY <2>1, <2>6, <4>2 DEF IsTableOf, ActiveRecord, Target
    <3>4. ASSUME NEW n \in DOMAIN managed, \A t \in ActiveTables : n # Target(t),
                 \A t \in DOMAIN plan[j] : n # plan[j][t].shadow
          PROVE  \E r \in log : IsQuarantinedBy(n, r)
      <4>1. ASSUME NEW g \in Job, NEW t \in Table, IsShadowOf(n, g, t) PROVE FALSE
        <5>1. g = j
          BY <2>2, <4>1, OneLoads DEF IsShadowOf, Loading, Active
        <5> QED BY <3>4, <4>1, <5>1 DEF IsShadowOf
      <4>2. ASSUME NEW g \in Job, NEW t \in Table, IsTableOf(n, g, t) PROVE FALSE
        <5>1. t \in ActiveTables /\ n = Target(t)
          BY <4>2, LiveTable DEF IsTableOf
        <5> QED BY <3>4, <5>1
      <4> QED BY <4>1, <4>2 DEF IInv, ManagedInv
    <3>5. ASSUME NEW n \in DOMAIN managed'
          PROVE  \/ \E g \in Job, t \in Table : IsTableOf(n, g, t)'
                 \/ \E r \in log' : IsQuarantinedBy(n, r)'
      <4>1. CASE \E t \in ActiveTables : n = Parked(t)
        <5>1. PICK t \in ActiveTables : n = Parked(t)
          BY <4>1
        <5> QED BY <2>9, <5>1 DEF IsQuarantinedBy
      <4>2. CASE \E t \in DOMAIN plan[j] : n = Target(t)
        <5>1. PICK t \in DOMAIN plan[j] : n = Target(t)
          BY <4>2
        <5>2. t \in Table
          BY EntriesDiffer DEF IInv, JobInv
        <5> QED BY <3>3, <5>1, <5>2 DEF Target
      <4>3. CASE /\ \A t \in ActiveTables : n # Target(t)
                 /\ \A t \in DOMAIN plan[j] : n # plan[j][t].shadow
                 /\ n \in DOMAIN managed /\ managed'[n] = managed[n]
        <5>1. PICK r \in log : IsQuarantinedBy(n, r)
          BY <3>4, <4>3
        <5> QED BY <2>1, <4>3, <5>1 DEF IsQuarantinedBy
      <4> QED BY <1>2, <4>1, <4>2, <4>3, RenamedTables
    <3>6. ASSUME NEW r \in log, ~ r.purged PROVE r.name \in DOMAIN managed'
      <4>1. r.name \in DOMAIN managed
        BY <3>6 DEF IInv, ManagedInv
      <4>2. \A t \in ActiveTables : r.name # Target(t) /\ r.name # Parked(t)
        BY <2>2, <3>1, <4>1, NamesDiffer
      <4>3. \A t \in DOMAIN plan[j] : r.name # Target(t) /\ r.name # plan[j][t].shadow
        <5>1. \A t \in DOMAIN plan[j] : plan[j][t].shadow = Shadow(plan[j][t].rel, j)
          BY EntriesDiffer DEF IInv, JobInv
        <5> QED BY <3>1, <5>1, NamesDiffer
      <4> QED BY <1>2, <4>1, <4>2, <4>3, RenamedTables
    <3>7. \A r \in log' : ~ r.purged => r.name \in DOMAIN managed'
      <4> SUFFICES ASSUME NEW r \in log', ~ r.purged PROVE r.name \in DOMAIN managed'
        OBVIOUS
      <4>1. CASE r \in log
        BY <3>6, <4>1
      <4>2. CASE r \notin log
        <5>1. PICK t \in ActiveTables : r = LogRecord(t, j)
          BY <2>1, <4>2
        <5> QED BY <1>2, <2>9, <5>1, RenamedTables
      <4> QED BY <4>1, <4>2
    <3>8. \A g \in Job : Live(g)' => \A t \in DOMAIN plan'[g] : Target(t) \in DOMAIN managed'
      BY <1>2, <2>1, <2>6, RenamedTables
    <3>9. managed' = [n \in DOMAIN managed' |-> managed'[n]]
      BY <1>2, RenamedTables
    <3> QED BY <3>5, <3>7, <3>8, <3>9 DEF ManagedInv, Target
  <2>12. LoadedInv'
    <3>1. pc'[j] = "serving"
      BY <2>1 DEF IInv, TypeInv
    <3> QED BY <2>1, <2>2, <3>1 DEF LoadedInv
  <2>13. PhysInv'
    <3>1. phys' = [n \in DOMAIN phys' |-> phys'[n]]
      BY <1>2, RenamedTables
    <3>2. ASSUME meddled = 0 PROVE phys' = [n \in DOMAIN managed' |-> managed'[n].oid]
      <4>1. DOMAIN phys = DOMAIN managed /\ \A n \in DOMAIN managed : phys[n] = managed[n].oid
        BY <3>2 DEF IInv, PhysInv
      <4>2. \A t \in ActiveTables : managed'[Parked(t)].oid = managed[Target(t)].oid
        <5> SUFFICES ASSUME NEW t \in ActiveTables
                     PROVE  managed'[Parked(t)].oid = managed[Target(t)].oid
          OBVIOUS
        <5>1. PICK g \in Job : managed[Target(t)] = ActiveRecord(plan[g][t], g)
          BY <2>2, DisplacedRecord
        <5>2. managed'[Parked(t)].oid = plan[g][t].shadow
          BY <1>2, <5>1, RenamedTables, RelocatedRecords
        <5> QED BY <5>1, <5>2 DEF ActiveRecord
      <4>3. \A t \in DOMAIN plan[j] : managed'[Target(t)].oid = managed[plan[j][t].shadow].oid
        <5> SUFFICES ASSUME NEW t \in DOMAIN plan[j]
                     PROVE  managed'[Target(t)].oid = managed[plan[j][t].shadow].oid
          OBVIOUS
        <5>1. managed[plan[j][t].shadow] = ShadowRecord(plan[j][t], j)
          BY <2>2, Classified DEF IInv, IsShadowOf
        <5>2. managed'[Target(t)] = ActiveRecord(plan[j][t], j)
          BY <1>2, <5>1, RenamedTables, RelocatedRecords
        <5> QED BY <5>1, <5>2 DEF ActiveRecord, ShadowRecord
      <4>4. \A t \in ActiveTables : Target(t) \in DOMAIN managed
        BY DEF ActiveTables
      <4>5. ASSUME NEW n \in DOMAIN managed' \cup DOMAIN phys'
            PROVE  n \in DOMAIN managed' /\ n \in DOMAIN phys' /\ phys'[n] = managed'[n].oid
        <5>1. CASE \E t \in ActiveTables : n = Parked(t)
          BY <1>2, <4>1, <4>2, <4>4, <5>1, RenamedTables
        <5>2. CASE \E t \in DOMAIN plan[j] : n = Target(t)
          BY <1>2, <2>2, <4>1, <4>3, <5>2, RenamedTables
        <5>3. CASE /\ ~ \E t \in ActiveTables : n = Parked(t)
                   /\ ~ \E t \in DOMAIN plan[j] : n = Target(t)
          BY <1>2, <4>1, <4>5, <5>3, RenamedTables
        <5> QED BY <5>1, <5>2, <5>3
      <4> QED BY <3>1, <4>5
    <3> QED BY <2>1, <3>1, <3>2 DEF PhysInv
  <2> QED BY <2>7, <2>8, <2>10, <2>11, <2>12, <2>13 DEF IInv
<1> QED BY <1>1, <1>2

-----------------------------------------------------------------------------
(* The invariant holds of every behaviour. *)

LEMMA NextIInv ==
  ASSUME IInv, [Next]_vars
  PROVE  IInv'
<1>1. CASE UNCHANGED vars
  <2>1. UNCHANGED <<src, ddl, gen, token, fence, groups, managed, phys, log, meddled, pc, jgen, plan>>
    BY <1>1 DEF vars, source, control, target, jobs
  <2>2. TypeInv'
    BY <2>1 DEF IInv, TypeInv
  <2> QED BY <2>1, <2>2, OutsideSteps DEF target, jobs
<1>2. CASE \E t \in Table : DropTable(t) \/ CreateTable(t) \/ AlterTable(t)
  BY <1>2, SourceSteps
<1>3. CASE RequestRebuild \/ StartJob
  BY <1>3, RequestRebuildStep, StartJobStep
<1>4. CASE \E n \in DOMAIN phys \cup {Target(t) : t \in Table} : Meddle(n)
  BY <1>4, MeddleStep
<1>5. CASE \E j \in Job : Step(j) \/ Stop(j)
  <2>1. PICK j \in Job : Step(j) \/ Stop(j)
    BY <1>5
  <2> QED BY <2>1, ActivateFenceStep, CleanupStaleStep, CollectQuarantineStep, ResumeStep,
             PlanSnapshotStep, BeginGroupStep, LoadTableStep, ActivateGroupStep, StopStep DEF Step
<1> QED BY <1>1, <1>2, <1>3, <1>4, <1>5 DEF Next

\* The inductive invariant holds of every behaviour of the groups.
THEOREM IInvAlways == Spec => []IInv
<1>1. Init => IInv
  BY InitIInv
<1>2. IInv /\ [Next]_vars => IInv'
  BY NextIInv
<1> QED BY <1>1, <1>2, PTL DEF Spec

-----------------------------------------------------------------------------
(* What the invariant says of the target. *)

\* There is one live group.
LEMMA OneLive ==
  ASSUME IInv, NEW g, NEW h, Live(g), Live(h)
  PROVE  g = h /\ g \in Job
<1>1. g \in Int /\ h \in Int /\ g \in Job
  BY DEF IInv, GroupInv, Live, Active, Job
<1> QED BY <1>1 DEF Live, Active

\* Readers see exactly the tables of the group that was activated last.
LEMMA LiveTables ==
  ASSUME IInv
  PROVE  ActiveTablesAreOneGroup
<1>1. \A g : g \in LiveGroup <=> Live(g)
  BY DEF LiveGroup, Live, Active
<1>2. \A t \in ActiveTables : \E g \in LiveGroup : IsTableOf(Target(t), g, t)
  BY <1>1, DisplacedTable DEF IsTableOf
<1>3. ASSUME NEW g \in LiveGroup
      PROVE  /\ ActiveTables = DOMAIN groups[g].tables
             /\ \A t \in ActiveTables : MatchesActivation(t, groups[g].tables[t], g)
  <2>1. Live(g) /\ g \in Job
    BY <1>1, OneLive
  <2>2. groups[g].tables = plan[g] /\ IsPlan(plan[g], jgen[g], g)
    BY <2>1 DEF IInv, GroupInv, JobInv, Live, Active
  <2>3. \A t \in ActiveTables : IsTableOf(Target(t), g, t)
    BY <1>1, <1>2, <2>1, OneLive
  <2>4. ASSUME NEW t \in DOMAIN plan[g] PROVE t \in ActiveTables
    <3>1. t \in Table /\ Target(t) \in DOMAIN managed
      BY <2>1, <2>2 DEF IsPlan, IInv, ManagedInv
    <3>2. PICK h \in Job : IsTableOf(Target(t), h, t)
      BY <3>1, Classified DEF IInv
    <3> QED BY <3>1, <3>2, LiveTable
  <2>5. ActiveTables = DOMAIN plan[g]
    BY <2>3, <2>4 DEF IsTableOf
  <2>6. \A t \in ActiveTables : MatchesActivation(t, plan[g][t], g)
    <3> SUFFICES ASSUME NEW t \in ActiveTables PROVE MatchesActivation(t, plan[g][t], g)
      OBVIOUS
    <3>1. managed[Target(t)] = ActiveRecord(plan[g][t], g)
      BY <2>3 DEF IsTableOf
    <3> QED BY <3>1 DEF MatchesActivation, ActiveRecord
  <2> QED BY <2>2, <2>5, <2>6
<1> QED BY <1>2, <1>3 DEF ActiveTablesAreOneGroup

LEMMA FenceIsHeld ==
  ASSUME IInv, NEW j \in Job, HoldsFence(j)
  PROVE  fence.token = j /\ fence.gen = jgen[j]
BY DEF HoldsFence

\* The records of the log, the managed tables and the relations agree.
LEMMA RecordsAgree ==
  ASSUME IInv
  PROVE  QuarantineIsCollectable
<1> SUFFICES ASSUME meddled = 0, NEW j \in Job, HoldsFence(j), NEW r \in log, ~ r.purged
             PROVE  Collectable(r, j)
  BY DEF QuarantineIsCollectable
<1>1. IsRecord(r) /\ r.name \in DOMAIN managed
  BY DEF IInv, LogInv, ManagedInv
<1>2. r.gen <= jgen[j] /\ r.token <= j
  BY <1>1, FenceIsHeld DEF IsRecord
<1>3. r.name = QuarantineName(r.table, [rel |-> r.rel, gen |-> r.tableGen, fp |-> r.fp,
                                        token |-> r.prevToken])
  BY <1>1 DEF IsRecord
<1>4. \A s \in log : s.name = r.name => s = r
  BY DEF IInv, LogInv
<1>5. managed[r.name] = QuarantinedRecord(r)
  <2>1. PICK s \in log : IsQuarantinedBy(r.name, s)
    BY <1>1, <1>3, Classified DEF IInv
  <2> QED BY <1>4, <2>1 DEF IsQuarantinedBy
<1>6. IsManaged(r.name) /\ SameRelation(r.name)
  BY <1>1 DEF IInv, PhysInv, IsManaged, SameRelation
<1> QED BY <1>2, <1>3, <1>4, <1>5, <1>6 DEF Collectable, QuarantinedRecord

\* Every shadow is in the manifest of a group that loads, as that group recorded it.
LEMMA ShadowsListed ==
  ASSUME IInv
  PROVE  ShadowsAreAccountedFor
<1>1. ASSUME NEW n \in DOMAIN managed, managed[n].state = "shadow"
      PROVE  \E g \in Job, t \in Table : IsShadowOf(n, g, t)
  <2>1. \A g \in Job, t \in Table : ~ IsTableOf(n, g, t)
    BY <1>1 DEF IsTableOf, ActiveRecord
  <2>2. \A r \in log : ~ IsQuarantinedBy(n, r)
    BY <1>1 DEF IsQuarantinedBy, QuarantinedRecord
  <2> QED BY <1>1, <2>1, <2>2 DEF IInv, ManagedInv
<1>2. \A g \in DOMAIN groups : groups[g].tables = plan[g] /\ groups[g].gen = jgen[g]
  BY DEF IInv, GroupInv
<1>3. ASSUME NEW n \in DOMAIN managed, managed[n].state = "shadow"
      PROVE  /\ managed[n].group \in DOMAIN groups
             /\ groups[managed[n].group].state = "loading"
             /\ n \in ManifestShadows(managed[n].group)
  <2>1. PICK g \in Job, t \in Table : IsShadowOf(n, g, t)
    BY <1>1, <1>3
  <2>2. managed[n].group = g
    BY <2>1 DEF IsShadowOf, ShadowRecord
  <2> QED BY <1>2, <2>1, <2>2 DEF IsShadowOf, Loading, ManifestShadows
<1>4. ASSUME meddled = 0, NEW j \in Job, HoldsFence(j), NEW g \in StaleGroups(j)
      PROVE  Cleanable(g, j)
  <2>1. g \in DOMAIN groups /\ g \in Job /\ groups[g].gen <= jgen[j] /\ g <= j
    BY <1>2, <1>4, FenceIsHeld DEF StaleGroups, IInv, GroupInv
  <2>2. /\ DOMAIN phys = DOMAIN managed
        /\ \A n \in DOMAIN managed : phys[n] = managed[n].oid
    BY <1>4 DEF IInv, PhysInv
  <2>3. ASSUME NEW t \in DOMAIN plan[g], ~ Vacant(plan[g][t].shadow)
        PROVE  /\ IsManaged(plan[g][t].shadow) /\ SameRelation(plan[g][t].shadow)
               /\ managed[plan[g][t].shadow] = ShadowRecord(plan[g][t], g)
    <3>1. plan[g][t].shadow \in DOMAIN managed
      BY <2>2, <2>3 DEF Vacant
    <3>2. IsShadowOf(plan[g][t].shadow, g, t)
      BY <2>1, <3>1, Classified DEF IInv
    <3> QED BY <2>2, <3>1, <3>2 DEF IsManaged, SameRelation, IsShadowOf
  <2>4. \A t \in DOMAIN plan[g] :
          \/ Vacant(plan[g][t].shadow)
          \/ /\ IsManaged(plan[g][t].shadow) /\ SameRelation(plan[g][t].shadow)
             /\ managed[plan[g][t].shadow]
                  = [group |-> g, oid |-> managed[plan[g][t].shadow].oid, rel |-> plan[g][t].rel,
                     gen |-> plan[g][t].gen, fp |-> plan[g][t].fp, state |-> "shadow", token |-> g]
    <3> SUFFICES ASSUME NEW t \in DOMAIN plan[g], NEW n, n = plan[g][t].shadow, ~ Vacant(n)
                 PROVE  /\ IsManaged(n) /\ SameRelation(n)
                        /\ managed[n]
                             = [group |-> g, oid |-> managed[n].oid, rel |-> plan[g][t].rel,
                                gen |-> plan[g][t].gen, fp |-> plan[g][t].fp,
                                state |-> "shadow", token |-> g]
      OBVIOUS
    <3>1. IsManaged(n) /\ SameRelation(n) /\ managed[n] = ShadowRecord(plan[g][t], g)
      BY <2>3
    <3>2. managed[n].oid = plan[g][t].shadow
      BY <3>1 DEF ShadowRecord
    <3> QED BY <3>1, <3>2 DEF ShadowRecord
  <2>5. \A n \in DOMAIN managed : managed[n].group = g /\ managed[n].state = "shadow"
                                    => n \in ManifestShadows(g)
    BY <1>3
  <2> QED BY <1>2, <2>1, <2>4, <2>5 DEF Cleanable
<1> QED BY <1>3, <1>4 DEF ShadowsAreAccountedFor

\* The owner of the fence finds its own manifest, the tables of an earlier generation
\* under their targets and a free quarantine name for each.
LEMMA OwnerProceeds ==
  ASSUME IInv
  PROVE  OwnerIsNotBlocked
<1> SUFFICES ASSUME meddled = 0, NEW j \in Job, HoldsFence(j), pc[j] = "loading"
             PROVE  /\ \A t \in DOMAIN plan[j] \ Loaded(j) :
                         \/ Loadable(t, j)
                         \/ IsManaged(Target(t)) /\ managed[Target(t)].rel # plan[j][t].rel
                    /\ Loaded(j) = DOMAIN plan[j] => CanActivate(j)
  BY DEF OwnerIsNotBlocked
<1>1. fence.token = j /\ fence.gen = jgen[j] /\ Loading(j)
  BY FenceIsHeld DEF IInv, GroupInv
<1>2. /\ DOMAIN phys = DOMAIN managed
      /\ \A n : IsManaged(n) <=> n \in DOMAIN managed
      /\ \A n : Vacant(n) <=> n \notin DOMAIN managed
  BY DEF IInv, PhysInv, IsManaged, Vacant
<1>3. /\ j \in DOMAIN groups /\ groups[j].state = "loading"
      /\ groups[j].gen = jgen[j] /\ groups[j].tables = plan[j]
  BY <1>1 DEF IInv, GroupInv, Loading
<1>4. Registered(j)
  <2>1. DOMAIN plan[j] # {}
    BY DEF IInv, JobInv
  <2>2. /\ \A t \in DOMAIN plan[j] : plan[j][t].shadow = Shadow(plan[j][t].rel, j)
        /\ \A t, u \in DOMAIN plan[j] : plan[j][t].rel = plan[j][u].rel => t = u
    BY EntriesDiffer DEF IInv, JobInv
  <2>3. Canonical(plan[j])
    BY <2>1, <2>2, NamesDiffer, NamesTell DEF Canonical
  <2> QED BY <1>3, <2>3 DEF Registered
<1>5. \A t \in DOMAIN plan[j] : plan[j][t].gen = jgen[j] /\ t \in Table
  BY EntriesDiffer DEF IInv, JobInv
<1>6. ASSUME NEW t \in Table, Target(t) \in DOMAIN managed
      PROVE  /\ t \in ActiveTables
             /\ managed[Target(t)].state = "active" /\ managed[Target(t)].token <= j
             /\ managed[Target(t)].gen < jgen[j]
  <2>1. PICK g \in Job : IsTableOf(Target(t), g, t)
    BY <1>6, Classified DEF IInv
  <2>2. t \in ActiveTables
    BY <1>6, <2>1, LiveTable
  <2>3. PICK h \in Job :
          /\ Active(h) /\ h < j /\ managed[Target(t)] = ActiveRecord(plan[h][t], h)
          /\ plan[h][t].gen = jgen[h]
    BY <1>1, <2>2, DisplacedRecord
  <2>4. /\ managed[Target(t)].state = "active" /\ managed[Target(t)].token = h
        /\ managed[Target(t)].gen = jgen[h]
    BY <2>3 DEF ActiveRecord
  <2>5. jgen[h] <= jgen[j] /\ jgen[h] # jgen[j]
    BY <1>1, <2>3 DEF IInv, GroupInv, Active
  <2>6. h \in Int /\ j \in Int /\ jgen[h] \in Int /\ jgen[j] \in Int
    BY DEF IInv, TypeInv, Job, Gen
  <2> QED BY <2>2, <2>3, <2>4, <2>5, <2>6
<1>7. ASSUME NEW t \in DOMAIN plan[j] \ Loaded(j),
             ~ (IsManaged(Target(t)) /\ managed[Target(t)].rel # plan[j][t].rel)
      PROVE  Loadable(t, j)
  <2>1. IsMember(t, j)
    BY <1>3 DEF IsMember
  <2>2. ShadowReplaceable(plan[j][t], j)
    BY <1>2 DEF ShadowReplaceable, Loaded
  <2>3. TargetLoadable(t, plan[j][t], j)
    <3>1. CASE Target(t) \notin DOMAIN managed
      BY <1>2, <3>1 DEF TargetLoadable
    <3>2. CASE Target(t) \in DOMAIN managed
      <4>1. OwnTarget(t, plan[j][t], j)
        BY <1>2, <1>5, <1>6, <1>7, <3>2 DEF OwnTarget
      <4>2. managed[Target(t)].gen < jgen[j] /\ plan[j][t].gen = jgen[j] /\ jgen[j] \in Int
        BY <1>5, <1>6, <3>2 DEF IInv, TypeInv, Gen
      <4>3. managed[Target(t)].gen # plan[j][t].gen
        BY <4>2
      <4> QED BY <4>1, <4>3 DEF TargetLoadable
    <3> QED BY <3>1, <3>2
  <2> QED BY <1>3, <1>4, <2>1, <2>2, <2>3 DEF Loadable
<1>8. ASSUME Loaded(j) = DOMAIN plan[j]
      PROVE  CanActivate(j)
  <2>1. ASSUME NEW t \in DOMAIN plan[j] PROVE Pending(t, plan[j][t], j)
    <3> DEFINE n == plan[j][t].shadow
    <3>1. n \in DOMAIN managed
      BY <1>8 DEF Loaded
    <3>2. managed[n] = ShadowRecord(plan[j][t], j)
      BY <3>1, Classified DEF IInv, IsShadowOf
    <3>3. managed[n].oid = n /\ managed[n].token = j /\ managed[n].token <= j
      BY <3>2 DEF ShadowRecord, Job
    <3>4. managed[n] = [group |-> j, oid |-> managed[n].oid, rel |-> plan[j][t].rel,
                        gen |-> plan[j][t].gen, fp |-> plan[j][t].fp, state |-> "shadow",
                        token |-> managed[n].token]
      BY <3>2, <3>3 DEF ShadowRecord
    <3>5. Target(t) \in DOMAIN managed =>
            OwnTarget(t, plan[j][t], j) /\ managed[Target(t)].gen < plan[j][t].gen
      <4> SUFFICES ASSUME Target(t) \in DOMAIN managed
                   PROVE  OwnTarget(t, plan[j][t], j) /\ managed[Target(t)].gen < plan[j][t].gen
        OBVIOUS
      <4>1. managed[Target(t)].rel = plan[j][t].rel
        BY <1>1, <3>1 DEF IInv, LoadedInv
      <4> QED BY <1>2, <1>5, <1>6, <4>1 DEF OwnTarget
    <3> HIDE DEF n
    <3>6. IsManaged(n) /\ (Target(t) \notin DOMAIN managed => Vacant(Target(t)))
      BY <1>2, <3>1
    <3> QED BY <3>3, <3>4, <3>5, <3>6 DEF Pending, n
  <2>2. ASSUME NEW t \in ActiveTables
        PROVE  /\ IsManaged(Target(t)) /\ managed[Target(t)].token <= j
               /\ Vacant(QuarantineName(t, managed[Target(t)]))
    <3>1. t \in Table /\ Target(t) \in DOMAIN managed
      BY DEF ActiveTables
    <3>2. Parked(t) \notin DOMAIN managed
      <4>1. Parked(t) \in DOMAIN managed => \E r \in log : r.name = Parked(t)
        BY Classified DEF IInv, Parked, IsQuarantinedBy
      <4> QED BY <4>1, FreshName
    <3> QED BY <1>2, <1>6, <3>1, <3>2 DEF Parked
  <2> QED BY <1>3, <1>4, <2>1, <2>2 DEF CanActivate, IsExact, Displaced
<1> QED BY <1>7, <1>8

\* No step drops a relation that the pipeline did not create.
LEMMA ForeignStays ==
  ASSUME IInv, [Next]_vars, HasForeign
  PROVE  HasForeign'
<1>1. PICK n \in DOMAIN phys : phys[n] = Foreign
  BY DEF HasForeign, Range
<1> SUFFICES \E m \in DOMAIN phys' : phys'[m] = Foreign
  BY DEF HasForeign, Range
<1>2. \A m \in DOMAIN managed : managed[m].oid # Foreign
  BY Classified DEF IInv
<1>3. ASSUME NEW m, Meddle(m) PROVE \E k \in DOMAIN phys' : phys'[k] = Foreign
  BY <1>3 DEF Meddle, Put
<1>4. ASSUME NEW j \in Job, CleanupStale(j) PROVE \E m \in DOMAIN phys' : phys'[m] = Foreign
  <2>1. CASE ~(HoldsFence(j) /\ \A g \in StaleGroups(j) : Cleanable(g, j))
    BY <1>1, <1>4, <2>1 DEF CleanupStale
  <2>2. CASE HoldsFence(j) /\ \A g \in StaleGroups(j) : Cleanable(g, j)
    <3>1. phys' = Without(phys, DroppedShadows(j))
      BY <1>4, <2>2 DEF CleanupStale
    <3>2. ASSUME NEW g \in StaleGroups(j), NEW t \in DOMAIN groups[g].tables,
                 n = groups[g].tables[t].shadow
          PROVE  FALSE
      <4>1. IsManaged(n) /\ SameRelation(n)
        BY <1>1, <2>2, <3>2 DEF Cleanable, Vacant
      <4> QED BY <1>1, <1>2, <4>1 DEF IsManaged, SameRelation
    <3>3. n \notin DroppedShadows(j)
      BY <3>2 DEF DroppedShadows, ManifestShadows
    <3> QED BY <1>1, <3>1, <3>3 DEF Without, Restrict
  <2> QED BY <2>1, <2>2
<1>5. ASSUME NEW j \in Job, CollectQuarantine(j) PROVE \E m \in DOMAIN phys' : phys'[m] = Foreign
  <2>1. PICK expired \in SUBSET {r \in log : ~ r.purged} :
          \/ phys' = phys
          \/ /\ phys' = Without(phys, {r.name : r \in expired})
             /\ \A r \in expired : Collectable(r, j)
    BY <1>5 DEF CollectQuarantine
  <2>2. \A r \in expired : Collectable(r, j) => n # r.name
    BY <1>1, <1>2 DEF Collectable, IsManaged, SameRelation
  <2> QED BY <1>1, <2>1, <2>2 DEF Without, Restrict
<1>6. ASSUME NEW j \in Job, NEW t \in Table, LoadTable(j, t)
      PROVE  \E m \in DOMAIN phys' : phys'[m] = Foreign
  <2>1. CASE ~(HoldsFence(j) /\ Loadable(t, j))
    BY <1>1, <1>6, <2>1 DEF LoadTable
  <2>2. CASE HoldsFence(j) /\ Loadable(t, j)
    <3>1. phys' = Put(phys, plan[j][t].shadow, plan[j][t].shadow)
      BY <1>6, <2>2 DEF LoadTable
    <3>2. plan[j][t].shadow \notin DOMAIN managed
      BY <1>6 DEF LoadTable, Loaded
    <3>3. plan[j][t].shadow \notin DOMAIN phys
      BY <2>2, <3>2 DEF Loadable, ShadowReplaceable, Vacant, IsManaged
    <3> QED BY <1>1, <3>1, <3>3 DEF Put
  <2> QED BY <2>1, <2>2
<1>7. ASSUME NEW j \in Job, ActivateGroup(j) PROVE \E m \in DOMAIN phys' : phys'[m] = Foreign
  <2>1. CASE ~(HoldsFence(j) /\ CanActivate(j))
    BY <1>1, <1>7, <2>1 DEF ActivateGroup
  <2>2. CASE HoldsFence(j) /\ CanActivate(j)
    <3>1. CASE \E t \in ActiveTables : n = Target(t)
      BY <1>1, <1>7, <2>2, <3>1, RenamedTables
    <3>2. CASE \E t \in DOMAIN plan[j] : n = plan[j][t].shadow
      BY <1>1, <1>7, <2>2, <3>2, RenamedTables
    <3>3. CASE /\ ~ \E t \in ActiveTables : n = Target(t)
               /\ ~ \E t \in DOMAIN plan[j] : n = plan[j][t].shadow
      <4>1. \A t \in ActiveTables : n # Parked(t)
        BY <1>1, <2>2 DEF CanActivate, Displaced, Vacant, Parked
      <4>2. \A t \in DOMAIN plan[j] : n # Target(t)
        <5> SUFFICES ASSUME NEW t \in DOMAIN plan[j], n = Target(t) PROVE FALSE
          OBVIOUS
        <5>1. OwnTarget(t, plan[j][t], j)
          BY <1>1, <2>2 DEF CanActivate, Pending, Vacant
        <5>2. t \in Table
          BY EntriesDiffer DEF IInv, JobInv
        <5>3. t \in ActiveTables
          BY <5>1, <5>2 DEF OwnTarget, IsManaged, ActiveTables
        <5> QED BY <3>3, <5>3
      <4> QED BY <1>1, <1>7, <2>2, <3>3, <4>1, <4>2, RenamedTables
    <3> QED BY <3>1, <3>2, <3>3
  <2> QED BY <2>1, <2>2
<1>8. ASSUME phys' = phys PROVE \E m \in DOMAIN phys' : phys'[m] = Foreign
  BY <1>1, <1>8
<1>9. CASE UNCHANGED vars
  BY <1>8, <1>9 DEF vars, target
<1>10. CASE \E t \in Table : DropTable(t) \/ CreateTable(t) \/ AlterTable(t)
  BY <1>8, <1>10 DEF DropTable, CreateTable, AlterTable, SourceDdl, target
<1>11. CASE RequestRebuild \/ StartJob
  BY <1>8, <1>11 DEF RequestRebuild, StartJob, target
<1>12. CASE \E j \in Job : Step(j) \/ Stop(j)
  <2>1. PICK j \in Job : Step(j) \/ Stop(j)
    BY <1>12
  <2>2. CASE ActivateFence(j) \/ BeginGroup(j)
    BY <1>8, <2>2 DEF ActivateFence, BeginGroup
  <2>3. CASE Resume(j) \/ PlanSnapshot(j) \/ Stop(j)
    BY <1>8, <2>3 DEF Resume, PlanSnapshot, Stop, target
  <2> QED BY <1>4, <1>5, <1>6, <1>7, <2>1, <2>2, <2>3 DEF Step
<1> QED BY <1>3, <1>9, <1>10, <1>11, <1>12 DEF Next

-----------------------------------------------------------------------------
(* The properties. *)

\* Readers see the tables of exactly one snapshot group, the one that was activated
\* last (activate_snapshot_group).
THEOREM ReadersSeeOneGroup == Spec => []ActiveTablesAreOneGroup
BY IInvAlways, LiveTables, PTL

\* The collection of quarantined tables never finds its records in disagreement
\* (garbage_collect_quarantined_tables).
THEOREM QuarantineIsAlwaysCollectable == Spec => []QuarantineIsCollectable
BY IInvAlways, RecordsAgree, PTL

\* What a dead job left is listed in its manifest and can be cleaned up
\* (cleanup_stale_snapshot_groups).
THEOREM ShadowsAreAlwaysListed == Spec => []ShadowsAreAccountedFor
BY IInvAlways, ShadowsListed, PTL

\* The owner of the fence is not refused by what earlier owners left
\* (begin_snapshot_apply, activate_snapshot_group).
THEOREM OwnersProceed == Spec => []OwnerIsNotBlocked
BY IInvAlways, OwnerProceeds, PTL

\* Nobody else's relation is dropped, whatever name it has (validate_relation_identity).
THEOREM ForeignIsKept == Spec => ForeignNeverDropped
<1>1. IInv /\ [Next]_vars => [HasForeign => HasForeign']_vars
  BY ForeignStays
<1> QED BY <1>1, IInvAlways, PTL DEF Spec, ForeignNeverDropped
=============================================================================
