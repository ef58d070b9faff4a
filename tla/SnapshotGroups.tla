---------------------------- MODULE SnapshotGroups ----------------------------
(***************************************************************************)
(* How a pipeline replaces its target tables: snapshot groups, shadow      *)
(* tables, activation, quarantine, the cleanup of what dead jobs left, and *)
(* the garbage collection of quarantined tables.                           *)
(*                                                                         *)
(* A job is the holder of one fencing token and registers at most one      *)
(* snapshot group, so job, token and group id are one number.  Every       *)
(* operation on the target is one transaction that locks the exact fence   *)
(* first; a transaction whose answer is lost is its step followed by Stop. *)
(* A relation's oid is the shadow name it was created under, which no      *)
(* other relation ever has, or Foreign for a relation of somebody else.    *)
(***************************************************************************)
EXTENDS Naturals, FiniteSets, Functions

CONSTANTS
  Table,        \* tables: a source table and the target name it is mapped to
  Fingerprint,  \* schema fingerprints of a source table
  NoTable,      \* the source has no such table
  Foreign,      \* oid of a relation that the pipeline did not create
  MaxToken,     \* bound: jobs ever started
  MaxGen,       \* bound: last snapshot generation ever requested
  MaxDdl,       \* bound: source DDL statements
  MaxForeign    \* bound: target statements of somebody else

ASSUME BoundsAssumption ==
  /\ MaxToken \in Nat /\ MaxGen \in Nat \ {0} /\ MaxDdl \in Nat /\ MaxForeign \in Nat
  /\ Table # {} /\ Fingerprint # {}

\* PostgreSQL gives a relation of somebody else an oid of its own.
ASSUME ForeignAssumption ==
  \A t \in Table, i \in 0..MaxDdl, j \in 1..MaxToken : Foreign # <<"shadow", <<t, i>>, j>>

VARIABLES
  \* Source database.
  src,      \* the catalog: [rel, fp] of each table, or NoTable
  pub,      \* relation ids in the publication
  ddl,      \* number of DDL statements so far
  \* Control database.
  gen,      \* pipelines.snapshot_generation
  token,    \* last fencing token granted
  \* Target database.
  fence,    \* pipeline_state: the activated [gen, token]
  groups,   \* snapshot_groups and snapshot_group_tables, by group id
  managed,  \* managed_tables, by relation name
  phys,     \* pg_class: oid by relation name
  log,      \* snapshot_reconciliation_log
  meddled,  \* number of statements of somebody else
  \* Jobs.
  pc, jgen, \* position in run_standalone, PipelineFence.topology_generation
  plan      \* plan_inventory: the planned tables

source == <<src, pub, ddl>>
control == <<gen, token>>
target == <<fence, groups, managed, phys, log, meddled>>
jobs == <<pc, jgen, plan>>
vars == <<source, control, target, jobs>>

Job == 1..MaxToken
Gen == 1..MaxGen
Goto(j, p) == pc' = [pc EXCEPT ![j] = p]

Put(f, k, v) == [x \in DOMAIN f \cup {k} |-> IF x = k THEN v ELSE f[x]]
Without(f, keys) == Restrict(f, DOMAIN f \ keys)
EmptyFunction == [x \in {} |-> x]

-----------------------------------------------------------------------------
(* Names. *)

Target(t) == <<"target", t>>

\* plan_tables: the shadow of a table is named after its relation id and the
\* token of the job that plans it.
Shadow(rel, j) == <<"shadow", rel, j>>

\* quarantine_name: a digest of the target name and of the record it had.
QuarantineName(t, r) == <<"quarantine", t, r.rel, r.gen, r.fp, r.token>>

Vacant(n) == n \notin DOMAIN phys /\ n \notin DOMAIN managed

\* RelationState::Managed.
IsManaged(n) == n \in DOMAIN phys /\ n \in DOMAIN managed

ActiveTables ==
  {t \in Table : Target(t) \in DOMAIN managed /\ managed[Target(t)].state = "active"}

\* plan_inventory: what job j plans for a source catalog c.
Planned(c, j) ==
  [t \in {u \in Table : c[u] # NoTable} |->
     [rel |-> c[t].rel, fp |-> c[t].fp, gen |-> jgen[j], shadow |-> Shadow(c[t].rel, j)]]

-----------------------------------------------------------------------------
Init ==
  /\ \E present \in SUBSET Table, f \in Fingerprint :
       src = [t \in Table |-> IF t \in present THEN [rel |-> <<t, 0>>, fp |-> f] ELSE NoTable]
  /\ pub = {} /\ ddl = 0
  /\ gen = 1 /\ token = 0
  /\ fence = [gen |-> 0, token |-> 0]
  /\ groups = EmptyFunction /\ managed = EmptyFunction /\ phys = EmptyFunction
  /\ log = {} /\ meddled = 0
  /\ pc = [j \in Job |-> "idle"] /\ jgen = [j \in Job |-> 1]
  /\ plan = [j \in Job |-> EmptyFunction]

-----------------------------------------------------------------------------
(* Clients of the source, operators and foreign users of the target. *)

SourceDdl(t, row) ==
  /\ ddl < MaxDdl
  /\ src' = [src EXCEPT ![t] = row]
  /\ ddl' = ddl + 1
  /\ UNCHANGED <<control, target, jobs>>

\* PostgreSQL takes a dropped table out of the publication.
DropTable(t) ==
  /\ src[t] # NoTable
  /\ SourceDdl(t, NoTable)
  /\ pub' = pub \ {src[t].rel}

\* A new table, or one that was dropped under the same name: a new relation id.
CreateTable(t) ==
  /\ src[t] = NoTable
  /\ \E f \in Fingerprint : SourceDdl(t, [rel |-> <<t, ddl + 1>>, fp |-> f])
  /\ UNCHANGED pub

AlterTable(t) ==
  /\ src[t] # NoTable
  /\ \E f \in Fingerprint \ {src[t].fp} : SourceDdl(t, [src[t] EXCEPT !.fp = f])
  /\ UNCHANGED pub

\* request_pipeline_rebuild, by a user or by a job that met a barrier.
BumpGeneration == gen < MaxGen /\ gen' = gen + 1
RequestRebuild ==
  /\ BumpGeneration
  /\ UNCHANGED <<source, token, target, jobs>>

\* start_pipeline: a new token, and the generation in the list that the
\* runtime read last.
StartJob ==
  /\ token < MaxToken
  /\ token' = token + 1
  /\ Goto(token + 1, "start")
  /\ \E g \in 1..gen : jgen' = [jgen EXCEPT ![token + 1] = g]
  /\ UNCHANGED <<source, gen, target, plan>>

\* Somebody else creates a table where the pipeline wants one, or puts one in
\* the place of a table of the pipeline.
Meddle(n) ==
  /\ meddled < MaxForeign
  /\ phys' = Put(phys, n, Foreign)
  /\ meddled' = meddled + 1
  /\ UNCHANGED <<source, control, fence, groups, managed, log, jobs>>

-----------------------------------------------------------------------------
(* Start of a job. *)

\* lock_pipeline_fence accepts only the exact generation and token.
HoldsGeneration(j) == fence.gen = jgen[j]
HoldsFence(j) == fence = [gen |-> jgen[j], token |-> j]

\* The condition of the upsert in activate_pipeline_fence.
FenceAdvances(j) == jgen[j] >= fence.gen /\ j >= fence.token

ActivateFence(j) ==
  /\ pc[j] = "start"
  /\ IF FenceAdvances(j)
     THEN fence' = [gen |-> jgen[j], token |-> j] /\ Goto(j, "fenced")
     ELSE UNCHANGED fence /\ Goto(j, "stopped")
  /\ UNCHANGED <<source, control, groups, managed, phys, log, meddled, jgen, plan>>

\* cleanup_stale_snapshot_groups: the loading groups that the fence overtook.
StaleGroups(j) ==
  {g \in DOMAIN groups : /\ groups[g].state = "loading"
                         /\ \/ groups[g].gen < jgen[j]
                            \/ groups[g].gen = jgen[j] /\ g < j}

ManifestShadows(g) == {groups[g].tables[t].shadow : t \in DOMAIN groups[g].tables}

\* validate_relation_identity: the relation is still the one that was recorded.
SameName(n) == TRUE
SameRelation(n) == phys[n] = managed[n].oid

\* validate_cleanup_request, validate_shadow_ownership and the search for
\* shadows that the manifest does not list.
Cleanable(g, j) ==
  /\ groups[g].gen <= jgen[j] /\ g <= j
  /\ \A t \in DOMAIN groups[g].tables :
       LET e == groups[g].tables[t] IN
       Vacant(e.shadow) \/ /\ IsManaged(e.shadow)
                           /\ managed[e.shadow] = [group |-> g, oid |-> managed[e.shadow].oid,
                                rel |-> e.rel, gen |-> e.gen, fp |-> e.fp,
                                state |-> "shadow", token |-> g]
                           /\ SameRelation(e.shadow)
  /\ \A n \in DOMAIN managed :
       managed[n].group = g /\ managed[n].state = "shadow" => n \in ManifestShadows(g)

DropsNothing(j) == {}
DroppedShadows(j) == UNION {ManifestShadows(g) : g \in StaleGroups(j)}

CleanupStale(j) ==
  /\ pc[j] = "fenced"
  /\ IF HoldsFence(j) /\ \A g \in StaleGroups(j) : Cleanable(g, j)
     THEN /\ groups' = Without(groups, StaleGroups(j))
          /\ managed' = Without(managed, DroppedShadows(j))
          /\ phys' = Without(phys, DroppedShadows(j))
          /\ Goto(j, "clean")
     ELSE UNCHANGED <<groups, managed, phys>> /\ Goto(j, "stopped")
  /\ UNCHANGED <<source, control, fence, log, meddled, jgen, plan>>

\* garbage_collect_quarantined_tables: the record, the name it implies, the
\* managed table and the relation agree.
Collectable(r, j) ==
  /\ r.gen <= jgen[j] /\ r.token <= j
  /\ r.name = QuarantineName(r.table, [rel |-> r.rel, gen |-> r.tableGen, fp |-> r.fp,
                                       token |-> r.prevToken])
  /\ IsManaged(r.name)
  /\ managed[r.name] = [group |-> r.prevGroup, oid |-> r.oid, rel |-> r.rel,
                        gen |-> r.tableGen, fp |-> r.fp, state |-> "quarantined",
                        token |-> r.token]
  /\ SameRelation(r.name)
  /\ \A s \in log : s.name = r.name /\ ~s.purged => s = r

\* Which records are old enough, and how many one pass takes, is left open.
CollectQuarantine(j) ==
  /\ pc[j] = "clean"
  /\ \E expired \in SUBSET {r \in log : ~r.purged} :
       IF HoldsFence(j) /\ \A r \in expired : Collectable(r, j)
       THEN /\ managed' = Without(managed, {r.name : r \in expired})
            /\ phys' = Without(phys, {r.name : r \in expired})
            /\ log' = (log \ expired) \cup {[r EXCEPT !.purged = TRUE] : r \in expired}
            /\ Goto(j, "ready")
       ELSE UNCHANGED <<managed, phys, log>> /\ Goto(j, "stopped")
  /\ UNCHANGED <<source, control, fence, groups, meddled, jgen, plan>>

-----------------------------------------------------------------------------
(* Resume: the generation has a checkpoint, which its activation wrote. *)

ActiveGroups(g) == {h \in DOMAIN groups : groups[h].state = "active" /\ groups[h].gen = g}

\* matches_activation, for manifest entry e of table t in group g.
MatchesActivation(t, e, g) ==
  LET r == managed[Target(t)] IN
  r.group = g /\ r.rel = e.rel /\ r.gen = e.gen /\ r.fp = e.fp

\* validate_managed_identity, validate_managed_fence and require_state.
OwnTarget(t, e, j) ==
  LET n == Target(t) IN
  IsManaged(n) /\ managed[n].rel = e.rel /\ managed[n].token <= j /\ managed[n].state = "active"

\* validate_publication against the catalog.
SourceRelations == {src[t].rel : t \in {u \in Table : src[u] # NoTable}}
PublicationDrift == pub # SourceRelations

\* validate_active_snapshot_group: one group, the exact table manifest, every
\* table active.
ResumeAccepted(j) ==
  \E g \in DOMAIN groups :
    /\ ActiveGroups(jgen[j]) = {g} /\ g <= j
    /\ groups[g].tables = Planned(src, j)
    /\ \A t \in DOMAIN groups[g].tables :
         LET e == Planned(src, j)[t] IN
         OwnTarget(t, e, j) /\ MatchesActivation(t, e, g) /\ Vacant(e.shadow)

\* prepare_resume, after the checks of the slot.
Resume(j) ==
  /\ pc[j] = "ready" /\ ActiveGroups(jgen[j]) # {}
  /\ plan' = [plan EXCEPT ![j] = Planned(src, j)]
  /\ IF PublicationDrift
     THEN BumpGeneration /\ Goto(j, "stopped")
     ELSE /\ UNCHANGED gen
          /\ Goto(j, IF HoldsFence(j) /\ ResumeAccepted(j) THEN "serving" ELSE "refused")
  /\ UNCHANGED <<source, token, target, jgen>>

-----------------------------------------------------------------------------
(* Initial snapshot. *)

\* ensure_publication: created, or altered to list exactly the tables.
EnsurePublication == pub' = SourceRelations

\* prepare_initial_snapshot: the publication lists the planned tables before
\* the snapshot, and the catalog is the same in the snapshot.
PlanSnapshot(j) ==
  /\ pc[j] = "ready" /\ ActiveGroups(jgen[j]) = {}
  /\ plan' = [plan EXCEPT ![j] = Planned(src, j)]
  /\ IF \A t \in Table : src[t] = NoTable
     THEN UNCHANGED pub /\ Goto(j, "stopped")
     ELSE EnsurePublication /\ Goto(j, "planned")
  /\ UNCHANGED <<src, ddl, control, target, jgen>>

\* canonical_request: some tables, and no name or relation twice.
Canonical(tables) ==
  /\ DOMAIN tables # {}
  /\ \A t, u \in DOMAIN tables :
       /\ tables[t].shadow # Target(u)
       /\ t # u => tables[t].rel # tables[u].rel /\ tables[t].shadow # tables[u].shadow

\* insert_snapshot_group: the rows of the group and of its tables.
Manifest(j) == [state |-> "loading", gen |-> jgen[j], tables |-> plan[j]]

\* begin_snapshot_group registers the manifest.
BeginGroup(j) ==
  /\ pc[j] = "planned"
  /\ IF HoldsFence(j) /\ Canonical(plan[j])
     THEN groups' = Put(groups, j, Manifest(j)) /\ Goto(j, "loading")
     ELSE UNCHANGED groups /\ Goto(j, "stopped")
  /\ UNCHANGED <<source, control, fence, managed, phys, log, meddled, jgen, plan>>

\* load_snapshot_group: a group that is registered and whose rows make a
\* canonical request.
Registered(g) == g \in DOMAIN groups /\ Canonical(groups[g].tables)

\* validate_apply_membership: the plan of a table is its entry in the manifest.
IsMember(t, j) ==
  groups[j].gen = jgen[j] /\ t \in DOMAIN groups[j].tables /\ groups[j].tables[t] = plan[j][t]

\* validate_target_for_load.
TargetLoadable(t, e, j) ==
  \/ Vacant(Target(t))
  \/ OwnTarget(t, e, j) /\ ~(managed[Target(t)].gen = e.gen /\ managed[Target(t)].fp = e.fp)

\* validate_shadow_for_rebuild: there is none, or one that may be replaced.
ShadowReplaceable(e, j) ==
  \/ Vacant(e.shadow)
  \/ /\ IsManaged(e.shadow) /\ managed[e.shadow].rel = e.rel
     /\ managed[e.shadow].state = "shadow" /\ managed[e.shadow].token <= j
     /\ \/ managed[e.shadow].group # j /\ managed[e.shadow].token < j
        \/ /\ managed[e.shadow].group = j
           /\ managed[e.shadow].gen = e.gen /\ managed[e.shadow].fp = e.fp

Loaded(j) == {t \in DOMAIN plan[j] : plan[j][t].shadow \in DOMAIN managed}
Loadable(t, j) ==
  /\ Registered(j) /\ IsMember(t, j) /\ groups[j].state = "loading"
  /\ TargetLoadable(t, plan[j][t], j) /\ ShadowReplaceable(plan[j][t], j)

\* register_shadow.
ShadowRecord(e, j) ==
  [group |-> j, oid |-> e.shadow, rel |-> e.rel, gen |-> e.gen, fp |-> e.fp,
   state |-> "shadow", token |-> j]

\* begin_snapshot_apply, the COPY and its commit.
LoadTable(j, t) ==
  /\ pc[j] = "loading" /\ t \in DOMAIN plan[j] \ Loaded(j)
  /\ LET e == plan[j][t] IN
     IF HoldsFence(j) /\ Loadable(t, j)
     THEN /\ managed' = Put(managed, e.shadow, ShadowRecord(e, j))
          /\ phys' = Put(phys, e.shadow, e.shadow)
          /\ UNCHANGED pc
     ELSE UNCHANGED <<managed, phys>> /\ Goto(j, "stopped")
  /\ UNCHANGED <<source, control, fence, groups, log, meddled, jgen, plan>>

-----------------------------------------------------------------------------
(* Activation. *)

\* classify_table: the shadow is complete, and the target is free or an older
\* generation of the same table.
Pending(t, e, j) ==
  /\ IsManaged(e.shadow)
  /\ managed[e.shadow] = [group |-> j, oid |-> managed[e.shadow].oid, rel |-> e.rel,
                          gen |-> e.gen, fp |-> e.fp, state |-> "shadow",
                          token |-> managed[e.shadow].token]
  /\ managed[e.shadow].token <= j
  /\ \/ Vacant(Target(t))
     \/ OwnTarget(t, e, j) /\ managed[Target(t)].gen < e.gen

\* The active tables that leave their name: replaced ones, and the stale ones
\* that the request does not name (load_stale_active_tables).
ReplacedOnly(j) == ActiveTables \cap DOMAIN plan[j]
Displaced(j) == ActiveTables

\* validate_exact_request.
IsExact(j) == Registered(j) /\ groups[j].gen = jgen[j] /\ groups[j].tables = plan[j]

CanActivate(j) ==
  /\ IsExact(j) /\ groups[j].state = "loading"
  /\ \A t \in DOMAIN plan[j] : Pending(t, plan[j][t], j)
  /\ \A t \in Displaced(j) :
       /\ IsManaged(Target(t)) /\ managed[Target(t)].token <= j
       /\ Vacant(QuarantineName(t, managed[Target(t)]))

\* relocate_metadata: the record moves with the relation, under the new token.
KeepsToken(r, state, j) == [r EXCEPT !.state = state]
Relocated(r, state, j) == [r EXCEPT !.state = state, !.token = j]

\* record_reconciliation.
LogRecord(t, j) ==
  LET r == managed[Target(t)] IN
  [group |-> j, table |-> t, name |-> QuarantineName(t, r), oid |-> r.oid, gen |-> jgen[j],
   rel |-> r.rel, prevGroup |-> r.group, tableGen |-> r.gen, fp |-> r.fp,
   prevToken |-> r.token, token |-> j, purged |-> FALSE]

\* ALTER TABLE ... RENAME and relocate_metadata of the whole group, in one
\* transaction: f is phys or managed, At what it holds for a moved relation.
Renamed(f, j, AtQuarantine(_), AtTarget(_)) ==
  LET out == {Target(t) : t \in Displaced(j)}
      in == {Target(t) : t \in DOMAIN plan[j]}
      parked == {QuarantineName(t, managed[Target(t)]) : t \in Displaced(j)}
      kept == DOMAIN f \ (out \cup {plan[j][t].shadow : t \in DOMAIN plan[j]})
  IN [n \in kept \cup in \cup parked |->
        IF n \in parked THEN AtQuarantine(n[2])
        ELSE IF n \in in THEN AtTarget(n[2]) ELSE f[n]]

\* mark_snapshot_group_active.
MarkedActive(j) == [groups EXCEPT ![j].state = "active"]

\* activate_snapshot_group.
ActivateGroup(j) ==
  /\ pc[j] = "loading" /\ Loaded(j) = DOMAIN plan[j]
  /\ IF HoldsFence(j) /\ CanActivate(j)
     THEN /\ LET Parked(t) == Relocated(managed[Target(t)], "quarantined", j)
                 Promoted(t) == Relocated(managed[plan[j][t].shadow], "active", j)
             IN managed' = Renamed(managed, j, Parked, Promoted)
          /\ LET Parked(t) == phys[Target(t)]
                 Promoted(t) == phys[plan[j][t].shadow]
             IN phys' = Renamed(phys, j, Parked, Promoted)
          /\ log' = log \cup {LogRecord(t, j) : t \in Displaced(j)}
          /\ groups' = MarkedActive(j)
          /\ Goto(j, "serving")
     ELSE UNCHANGED <<managed, phys, log, groups>> /\ Goto(j, "stopped")
  /\ UNCHANGED <<source, control, fence, meddled, jgen, plan>>

\* Crash, cancellation, lease loss or another error.
Stop(j) ==
  /\ pc[j] \notin {"idle", "stopped", "refused"}
  /\ Goto(j, "stopped")
  /\ UNCHANGED <<source, control, target, jgen, plan>>

-----------------------------------------------------------------------------
Step(j) ==
  \/ ActivateFence(j) \/ CleanupStale(j) \/ CollectQuarantine(j)
  \/ Resume(j) \/ PlanSnapshot(j) \/ BeginGroup(j)
  \/ \E t \in Table : LoadTable(j, t)
  \/ ActivateGroup(j)

Next ==
  \/ \E t \in Table : DropTable(t) \/ CreateTable(t) \/ AlterTable(t)
  \/ RequestRebuild \/ StartJob
  \/ \E n \in DOMAIN phys \cup {Target(t) : t \in Table} : Meddle(n)
  \/ \E j \in Job : Step(j) \/ Stop(j)

Spec == Init /\ [][Next]_vars

-----------------------------------------------------------------------------
(* Properties. *)

TypeOK ==
  /\ gen \in Gen /\ token \in 0..MaxToken /\ ddl \in 0..MaxDdl
  /\ fence.gen \in 0..MaxGen /\ fence.token \in 0..MaxToken
  /\ DOMAIN groups \subseteq Job
  /\ \A g \in DOMAIN groups : /\ groups[g].state \in {"loading", "active"}
                              /\ groups[g].gen \in Gen
                              /\ DOMAIN groups[g].tables \subseteq Table
  /\ \A n \in DOMAIN managed : /\ managed[n].group \in DOMAIN groups
                               /\ managed[n].token \in managed[n].group..MaxToken
                               /\ managed[n].gen = groups[managed[n].group].gen
                               /\ managed[n].state \in {"shadow", "active", "quarantined"}
  /\ pc \in [Job -> {"idle", "start", "fenced", "clean", "ready", "planned", "loading",
                     "serving", "refused", "stopped"}]
  /\ jgen \in [Job -> Gen] /\ meddled \in 0..MaxForeign

\* The group that was activated last.
LiveGroup == {g \in DOMAIN groups : /\ groups[g].state = "active"
                                    /\ \A h \in DOMAIN groups :
                                         groups[h].state = "active" => h <= g}

\* Readers see the tables of exactly one snapshot group: all of those in the
\* manifest of the group activated last, and no other table.
ActiveTablesAreOneGroup ==
  meddled = 0 =>
    /\ LiveGroup = {} => ActiveTables = {}
    /\ \A g \in LiveGroup :
         /\ ActiveTables = DOMAIN groups[g].tables
         /\ \A t \in ActiveTables : MatchesActivation(t, groups[g].tables[t], g)

\* A table that left its name stays in quarantine until a collection takes it,
\* and the collection never finds its records in disagreement: that would end
\* every later start of the pipeline.
QuarantineIsCollectable ==
  meddled = 0 => \A j \in Job : HoldsFence(j) => \A r \in log : ~r.purged => Collectable(r, j)

\* Whatever a dead job left can be cleaned up by the next one, and nothing is
\* left behind by a cleanup: every shadow is in the manifest of a group that
\* still loads.
ShadowsAreAccountedFor ==
  meddled = 0 =>
    /\ \A n \in DOMAIN managed : managed[n].state = "shadow" =>
         /\ managed[n].group \in DOMAIN groups
         /\ groups[managed[n].group].state = "loading"
         /\ n \in ManifestShadows(managed[n].group)
    /\ \A j \in Job : HoldsFence(j) => \A g \in StaleGroups(j) : Cleanable(g, j)

\* The owner of the fence is never refused by what earlier owners left: not
\* in the activation of tables it has loaded, and in the load only when the
\* target belongs to a source table that was dropped and created again.
OwnerIsNotBlocked ==
  meddled = 0 =>
    \A j \in Job : HoldsFence(j) /\ pc[j] = "loading" =>
      /\ \A t \in DOMAIN plan[j] \ Loaded(j) :
           \/ Loadable(t, j)
           \/ IsManaged(Target(t)) /\ managed[Target(t)].rel # plan[j][t].rel
      /\ Loaded(j) = DOMAIN plan[j] => CanActivate(j)

\* A relation that the pipeline did not create is never dropped by it, even
\* when it has the name of one that the pipeline did create.
HasForeign == Foreign \in Range(phys)
ForeignNeverDropped == [][HasForeign => HasForeign']_vars

\* validate_active_snapshot_group: a later lease may resume the group of an
\* earlier one while the table manifest is the same.
ResumesUnchangedCatalog ==
  \A j \in Job : pc[j] = "refused" /\ HoldsFence(j) =>
    \A g \in ActiveGroups(jgen[j]) :
      \/ DOMAIN groups[g].tables # DOMAIN plan[j]
      \/ \E t \in DOMAIN plan[j] : \/ groups[g].tables[t].rel # plan[j][t].rel
                                   \/ groups[g].tables[t].fp # plan[j][t].fp
=============================================================================
