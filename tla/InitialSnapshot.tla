--------------------------- MODULE InitialSnapshot ---------------------------
(***************************************************************************)
(* How a generation begins: prepare_initial_snapshot against a source that *)
(* goes on writing.  The job publishes the tables by name, creates the     *)
(* slot, imports the snapshot exported with it, copies the tables, and     *)
(* asks the target to activate them with the slot's consistent point as    *)
(* checkpoint.  What the copy does not hold, the stream must bring.        *)
(*                                                                         *)
(* One job at a time; jobs that overlap, and the slot they share, are in   *)
(* module Replication, the target's snapshot groups in SnapshotGroups.     *)
(* Transactions of the source write one row each.  PostgreSQL decides      *)
(* whether a change is published when it is written, resolves the names in *)
(* COPY and ALTER PUBLICATION by its current catalog, and reads catalog    *)
(* tables and rows at the transaction's snapshot.                          *)
(***************************************************************************)
EXTENDS Naturals, Sequences, FiniteSets

CONSTANTS
  Table,       \* qualified names in the pipeline's scope
  Writer,      \* sessions of the source that write
  MaxLog,      \* bound: commits of the source
  MaxRelation, \* bound: relations ever created
  MaxAttempts  \* bound: jobs

VARIABLES
  log,         \* commits: relation, kind, and whether it is published
  writing,     \* what each session has written and not yet committed
  catalog,     \* relation of each table, 0 when there is none
  publication, \* relations of the managed publication
  slot,        \* the pipeline's slot
  attempt,     \* the job
  attempts,    \* jobs so far
  activation,  \* the target's activation transaction, as a set of at most one
  live         \* what the target has activated, likewise

sourceVars == <<log, writing, catalog, publication>>
initialVars == <<sourceVars, slot, attempt, attempts, activation, live>>

NoWrite == [rel |-> 0, sent |-> FALSE]
NoSlot == [state |-> "absent", waits |-> {}, point |-> 0, catalog |-> <<>>]
NoAttempt == [step |-> "none"]

Existing(cat) == {t \in Table : cat[t] # 0}
Planned(cat) == [t \in Existing(cat) |-> cat[t]]
Relations == {catalog[t] : t \in Existing(catalog)}

InitialInit ==
  /\ log = <<>>
  /\ writing = [w \in Writer |-> NoWrite]
  /\ \E t \in Table : catalog = [u \in Table |-> IF u = t THEN 1 ELSE 0]
  /\ publication = {}
  /\ slot = NoSlot
  /\ attempt = NoAttempt /\ attempts = 0
  /\ activation = {} /\ live = {}

-----------------------------------------------------------------------------
(* The source. *)

InSource == UNCHANGED <<attempt, attempts, activation, live>>
Logged(r, kind, sent) == log' = Append(log, [rel |-> r, kind |-> kind, sent |-> sent])

WritesRow(w, t) ==
  /\ writing[w] = NoWrite /\ catalog[t] # 0
  /\ writing' = [writing EXCEPT ![w] = [rel |-> catalog[t], sent |-> catalog[t] \in publication]]
  /\ UNCHANGED <<log, catalog, publication, slot>> /\ InSource

CommitsRow(w) ==
  /\ writing[w] # NoWrite /\ Len(log) < MaxLog
  /\ Logged(writing[w].rel, "row", writing[w].sent)
  /\ writing' = [writing EXCEPT ![w] = NoWrite]
  /\ slot' = [slot EXCEPT !.waits = @ \ {w}]
  /\ UNCHANGED <<catalog, publication>> /\ InSource

\* DROP and TRUNCATE take an exclusive lock: no session has written to the
\* table, and the snapshot transaction has not copied it.
Lockable(t) ==
  /\ catalog[t] # 0
  /\ \A w \in Writer : writing[w].rel # catalog[t]
  /\ attempt.step = "loading" => t \notin DOMAIN attempt.rows

DropsTable(t) ==
  /\ Lockable(t) /\ Len(log) < MaxLog
  /\ Logged(catalog[t], "ddl", TRUE)
  /\ catalog' = [catalog EXCEPT ![t] = 0]
  /\ publication' = publication \ {catalog[t]}
  /\ UNCHANGED <<writing, slot>> /\ InSource

\* A relation gets an identifier no relation had before.
NewRelation ==
  1 + Cardinality({log[i].rel : i \in {k \in DOMAIN log : log[k].kind = "ddl"}} \cup Relations)
CreatesTable(t) ==
  /\ catalog[t] = 0 /\ NewRelation <= MaxRelation /\ Len(log) < MaxLog
  /\ Logged(NewRelation, "ddl", TRUE)
  /\ catalog' = [catalog EXCEPT ![t] = NewRelation]
  /\ UNCHANGED <<writing, publication, slot>> /\ InSource

TruncatesTable(t) ==
  /\ Lockable(t) /\ Len(log) < MaxLog
  /\ Logged(catalog[t], "truncate", catalog[t] \in publication)
  /\ UNCHANGED <<writing, catalog, publication, slot>> /\ InSource

\* The rows of a relation that a snapshot at a position holds.
Contents(r, point) ==
  {i \in 1 .. point :
     log[i].rel = r /\ log[i].kind = "row" /\
     \A k \in i .. point : ~(log[k].rel = r /\ log[k].kind = "truncate")}

\* CREATE_REPLICATION_SLOT reaches its consistent point once the transactions
\* it found have ended, those begun since may still be open; it does so even
\* when the job that asked has gone.
SlotIsReady ==
  /\ slot.state = "building" /\ slot.waits = {}
  /\ slot' = [slot EXCEPT !.state = "ready", !.point = Len(log), !.catalog = catalog]
  /\ UNCHANGED sourceVars /\ InSource

\* Unless its session ends first.
BuildingEnds ==
  /\ slot.state = "building" /\ attempt.step # "building"
  /\ slot' = NoSlot
  /\ UNCHANGED sourceVars /\ InSource

-----------------------------------------------------------------------------
(* The job. *)

InJob == UNCHANGED <<log, writing, catalog, attempts, live>>
Proceeds(next) == attempt' = next

\* run_standalone found no checkpoint of its generation, under the fence that
\* an open activation holds.
NewAttempt ==
  /\ attempt = NoAttempt /\ attempts < MaxAttempts
  /\ activation = {} /\ live = {}
  /\ attempts' = attempts + 1
  /\ Proceeds([step |-> "slot"])
  /\ UNCHANGED <<sourceVars, slot, activation, live>>

\* A leftover slot is dropped: no checkpoint refers to it.  One in use stops
\* the job.
DropOrphanSlot ==
  /\ attempt.step = "slot"
  /\ IF slot.state = "building"
     THEN Proceeds(NoAttempt) /\ UNCHANGED slot
     ELSE Proceeds([step |-> "inventory"]) /\ slot' = NoSlot
  /\ UNCHANGED <<publication, activation>> /\ InJob

\* inspect_tables and plan_inventory; without a table the job fails.
TakesInventory ==
  /\ attempt.step = "inventory"
  /\ Proceeds(IF Existing(catalog) = {} THEN NoAttempt
              ELSE [step |-> "publish", plan |-> Planned(catalog)])
  /\ UNCHANGED <<slot, publication, activation>> /\ InJob

\* ensure_publication compares and sets the members by name; it fails when a
\* table is gone.  The capture triggers skip it (pg2cb.internal_ddl), so it
\* is no barrier.
PublishedNames == {t \in Existing(catalog) : catalog[t] \in publication}
MembershipMatches(names) == PublishedNames = names
Members(names) == {catalog[t] : t \in names}
EnsurePublication ==
  LET names == DOMAIN attempt.plan IN
  /\ attempt.step = "publish"
  /\ IF names \subseteq Existing(catalog)
     THEN /\ Proceeds([attempt EXCEPT !.step = "create"])
          /\ publication' = IF MembershipMatches(names) THEN publication ELSE Members(names)
     ELSE Proceeds(NoAttempt) /\ UNCHANGED publication
  /\ UNCHANGED <<slot, activation>> /\ InJob

\* SnapshotSlotGuard::create.
AsksForSlot ==
  /\ attempt.step = "create" /\ slot = NoSlot
  /\ Proceeds([attempt EXCEPT !.step = "building"])
  /\ slot' = [NoSlot EXCEPT !.state = "building", !.waits = {w \in Writer : writing[w] # NoWrite}]
  /\ UNCHANGED <<publication, activation>> /\ InJob

\* The snapshot is exported as long as the replication connection lasts.
ReceivesSlot ==
  /\ attempt.step = "building" /\ slot.state = "ready"
  /\ Proceeds([step |-> "exported", plan |-> attempt.plan, point |-> slot.point])
  /\ UNCHANGED <<slot, publication, activation>> /\ InJob

ExportIsLost ==
  /\ attempt.step = "exported"
  /\ Proceeds([attempt EXCEPT !.step = "lost"])
  /\ UNCHANGED <<slot, publication, activation>> /\ InJob

\* begin_at_exported_snapshot imports it, mark_reader_ready and release let
\* the replication connection go.
ImportsSnapshot ==
  /\ attempt.step = "exported"
  /\ Proceeds([attempt EXCEPT !.step = "imported"])
  /\ UNCHANGED <<slot, publication, activation>> /\ InJob

\* The plan made at the snapshot must be the one that was published, the
\* relations' identifiers included; otherwise InitialCatalogChanged.
SameNames == DOMAIN attempt.plan = Existing(slot.catalog)
CatalogUnchanged == attempt.plan = Planned(slot.catalog)
ComparesCatalog ==
  /\ attempt.step = "imported"
  /\ IF CatalogUnchanged
     THEN Proceeds([step |-> "loading", plan |-> Planned(slot.catalog),
                    point |-> attempt.point, rows |-> <<>>])
     ELSE Proceeds([attempt EXCEPT !.step = "lost"])
  /\ UNCHANGED <<slot, publication, activation>> /\ InJob

\* copy_text_table and the load of one shadow.  Under the old snapshot a
\* relation that was created or truncated after it is empty; a name that no
\* longer exists is an error.
Seen(r) ==
  IF \E k \in attempt.point + 1 .. Len(log) : log[k].rel = r /\ log[k].kind = "truncate"
  THEN {} ELSE Contents(r, attempt.point)
CopiesTable(t) ==
  /\ attempt.step = "loading"
  /\ t \in DOMAIN attempt.plan \ DOMAIN attempt.rows
  /\ catalog[t] # 0
  /\ Proceeds([attempt EXCEPT !.rows =
       [u \in DOMAIN attempt.rows \cup {t} |-> IF u = t THEN Seen(catalog[t]) ELSE attempt.rows[u]]])
  /\ UNCHANGED <<slot, publication, activation>> /\ InJob

\* snapshot.commit, preserve_slot_on_error, activate_snapshot_group.
AsksForActivation ==
  /\ attempt.step = "loading" /\ DOMAIN attempt.rows = DOMAIN attempt.plan
  /\ Proceeds([step |-> "activating"])
  /\ activation' = {[plan |-> attempt.plan, point |-> attempt.point, rows |-> attempt.rows]}
  /\ UNCHANGED <<slot, publication>> /\ InJob

\* The target's transaction ends, whether or not the job still listens.
ActivationEnds(committed) ==
  /\ activation # {}
  /\ live' = IF committed THEN activation ELSE {}
  /\ activation' = {}
  /\ UNCHANGED <<sourceVars, slot, attempt, attempts>>

\* The job goes on to stream from its checkpoint.
ActivationSucceeds ==
  /\ attempt.step = "activating" /\ live # {}
  /\ Proceeds([step |-> "streaming"])
  /\ UNCHANGED <<slot, publication, activation>> /\ InJob

\* An error or a cancellation inside the guarded block: the slot is dropped,
\* unless the activation may have been committed.  The drop itself may fail,
\* and fails on a slot in use.
PreservesSlot == attempt.step = "activating"
AttemptFails ==
  /\ attempt.step \in {"create", "building", "exported", "lost", "imported", "loading", "activating"}
  /\ Proceeds(NoAttempt)
  /\ \/ UNCHANGED slot
     \/ ~PreservesSlot /\ slot.state = "ready" /\ slot' = NoSlot
  /\ UNCHANGED <<publication, activation>> /\ InJob

\* The process ends, or an earlier step fails.
AttemptCrashes ==
  /\ attempt # NoAttempt
  /\ Proceeds(NoAttempt)
  /\ UNCHANGED <<slot, publication, activation>> /\ InJob

-----------------------------------------------------------------------------
InitialNext ==
  \/ \E w \in Writer : CommitsRow(w) \/ \E t \in Table : WritesRow(w, t)
  \/ \E t \in Table : DropsTable(t) \/ CreatesTable(t) \/ TruncatesTable(t) \/ CopiesTable(t)
  \/ SlotIsReady \/ BuildingEnds
  \/ NewAttempt \/ DropOrphanSlot \/ TakesInventory \/ EnsurePublication \/ AsksForSlot
  \/ ReceivesSlot \/ ExportIsLost \/ ImportsSnapshot \/ ComparesCatalog
  \/ AsksForActivation \/ ActivationSucceeds \/ AttemptFails \/ AttemptCrashes
  \/ \E committed \in BOOLEAN : ActivationEnds(committed)

InitialSpec == InitialInit /\ [][InitialNext]_initialVars

-----------------------------------------------------------------------------
(* Property. *)

\* Once a generation is active, whatever the source wrote or altered meanwhile
\* and wherever the job failed: its slot is there and starts at the
\* checkpoint, and of every table now in scope the target has exactly the
\* rows up to the checkpoint and the slot brings every later one, up to a DDL
\* or TRUNCATE after the checkpoint, which the stream holds as a barrier and
\* which replaces the generation.
Barrier(r, from, to) ==
  \E k \in from + 1 .. to :
    log[k].rel = r /\ log[k].kind # "row" /\ log[k].sent
SnapshotMeetsStream ==
  \A g \in live :
    /\ slot.state = "ready" /\ slot.point = g.point
    /\ \A t \in Existing(catalog) :
         LET r == catalog[t] IN
         \/ Barrier(r, g.point, Len(log))
         \/ /\ t \in DOMAIN g.plan /\ g.plan[t] = r
            /\ g.rows[t] = Contents(r, g.point)
            /\ \A k \in g.point + 1 .. Len(log) : log[k].rel = r => log[k].sent
=============================================================================
