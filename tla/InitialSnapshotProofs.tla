------------------------ MODULE InitialSnapshotProofs ------------------------
(***************************************************************************)
(* Proof about the module InitialSnapshot, for every set of tables and of  *)
(* writing sessions and every bound: once a generation is active, what its *)
(* copy does not hold the stream brings.                                   *)
(*                                                                         *)
(* The argument: a relation identifier is never used twice (IdInv), so a   *)
(* table that has the planned relation now has had it since the plan was   *)
(* made, and was published all the time (MemberInv).  CREATE_REPLICATION_  *)
(* SLOT waits for the sessions that wrote before (SlotInv), so every       *)
(* change of such a table after the consistent point is sent.  What        *)
(* happens to a table between the point and its copy is either not seen    *)
(* by the copy or a barrier in the stream (CopyInv).                       *)
(***************************************************************************)
EXTENDS InitialSnapshot, FiniteSetTheorems, SequenceTheorems, TLAPS

-----------------------------------------------------------------------------
(* The inductive invariant. *)

LogEntry == [rel : Nat, kind : {"row", "ddl", "truncate"}, sent : BOOLEAN]

\* The variables have their types, and the records their fields.
TypeInv ==
  /\ log \in Seq(LogEntry)
  /\ writing \in [Writer -> [rel : Nat, sent : BOOLEAN]]
  /\ catalog \in [Table -> Nat]
  /\ slot = [state |-> slot.state, waits |-> slot.waits, point |-> slot.point,
             catalog |-> slot.catalog]
  /\ slot.state \in {"absent", "building", "ready"}
  /\ slot.state = "absent" => slot = NoSlot

\* What the job holds at each of its steps.
AttemptInv ==
  \/ attempt.step \in {"none", "slot", "inventory", "activating", "streaming"}
  \/ /\ attempt.step \in {"publish", "create", "building"}
     /\ attempt = [step |-> attempt.step, plan |-> attempt.plan]
  \/ /\ attempt.step \in {"exported", "lost", "imported"}
     /\ attempt = [step |-> attempt.step, plan |-> attempt.plan, point |-> attempt.point]
  \/ /\ attempt.step = "loading"
     /\ attempt = [step |-> "loading", plan |-> attempt.plan, point |-> attempt.point,
                   rows |-> attempt.rows]

\* Identifiers of relations that exist or existed.
DdlRelations(l) == {l[i].rel : i \in {k \in DOMAIN l : l[k].kind = "ddl"}}
UsedIn(l, cat) == DdlRelations(l) \cup {cat[t] : t \in Existing(cat)}

\* Identifiers are handed out in turn, and no two tables have the same one.
IdInv ==
  /\ \E n \in Nat : UsedIn(log, catalog) = 1 .. n
  /\ \A t, u \in Table : catalog[t] # 0 /\ catalog[t] = catalog[u] => t = u

\* A plan maps tables to relations that exist or existed.
Planful(plan, used) == DOMAIN plan \subseteq Table /\ \A t \in DOMAIN plan : plan[t] \in used
HasPlan == attempt.step \in {"publish", "create", "building", "exported", "lost", "imported",
                             "loading"}
PlanInv == HasPlan => Planful(attempt.plan, UsedIn(log, catalog))

\* A table that still has its planned relation is a member of the publication.
Published(plan, cat, pub) == \A t \in DOMAIN plan : cat[t] = plan[t] => plan[t] \in pub
MemberInv ==
  HasPlan /\ attempt.step # "publish" => Published(attempt.plan, catalog, publication)

\* Barrier and Contents of the module InitialSnapshot, as functions of the log.
BarrierIn(l, r, from) ==
  \E k \in from + 1 .. Len(l) : l[k].rel = r /\ l[k].kind # "row" /\ l[k].sent
ContentsIn(l, r, point) ==
  {i \in 1 .. point :
     l[i].rel = r /\ l[i].kind = "row" /\
     \A k \in i .. point : ~(l[k].rel = r /\ l[k].kind = "truncate")}

\* The slot: what the sessions it does not wait for write is sent if it is to a
\* member of the publication, and so is what was written after its consistent
\* point; a table that has another relation than at that point got it by a DDL
\* that the stream holds.
WriteInv ==
  slot.state # "absent" =>
    \A w \in Writer \ slot.waits :
      writing[w] # NoWrite /\ writing[w].rel \in publication => writing[w].sent
SlotInv ==
  slot.state = "ready" =>
    /\ slot.waits = {} /\ slot.point \in Nat /\ slot.point <= Len(log)
    /\ slot.catalog \in [Table -> Nat]
    /\ \A t \in Existing(slot.catalog) : slot.catalog[t] \in UsedIn(log, catalog)
    /\ \A t \in Existing(catalog) :
         catalog[t] = slot.catalog[t] \/ BarrierIn(log, catalog[t], slot.point)
    /\ \A k \in slot.point + 1 .. Len(log) : log[k].rel \in publication => log[k].sent

\* The copy of a table holds its rows at the consistent point, unless a barrier
\* follows.
Copied(plan, point, rows, l, cat) ==
  \A t \in DOMAIN rows :
    cat[t] = plan[t] => rows[t] = ContentsIn(l, plan[t], point) \/ BarrierIn(l, plan[t], point)

\* The job and the slot belong together from the export on, and what was copied
\* is what SnapshotMeetsStream asks for.
CopyInv ==
  /\ attempt.step \in {"inventory", "publish", "create"} => slot = NoSlot
  /\ attempt.step \in {"exported", "lost", "imported", "loading"} =>
       slot.state = "ready" /\ attempt.point = slot.point
  /\ attempt.step = "loading" =>
       /\ attempt.plan = Planned(slot.catalog)
       /\ DOMAIN attempt.rows \subseteq DOMAIN attempt.plan
       /\ Copied(attempt.plan, attempt.point, attempt.rows, log, catalog)

\* The same of what is, or may get, activated.
Sound(g) ==
  /\ slot.state = "ready" /\ g.point = slot.point
  /\ g.plan = Planned(slot.catalog) /\ DOMAIN g.rows = DOMAIN g.plan
  /\ Published(g.plan, catalog, publication)
  /\ Copied(g.plan, g.point, g.rows, log, catalog)
ActiveInv ==
  /\ activation \cup live # {} => attempt.step \in {"none", "activating", "streaming"}
  /\ \A g \in activation \cup live : Sound(g)

IInv ==
  /\ TypeInv /\ AttemptInv /\ IdInv /\ PlanInv /\ MemberInv /\ WriteInv /\ SlotInv
  /\ CopyInv /\ ActiveInv

-----------------------------------------------------------------------------
(* The log, the catalog and relation identifiers. *)

\* What a commit adds to the log, and what it leaves as it was.
LEMMA AppendEntry ==
  ASSUME NEW l \in Seq(LogEntry), NEW e \in LogEntry
  PROVE  /\ Append(l, e) \in Seq(LogEntry)
         /\ Len(Append(l, e)) = Len(l) + 1 /\ Len(l) \in Nat
         /\ \A k \in 1 .. Len(l) : Append(l, e)[k] = l[k]
         /\ Append(l, e)[Len(l) + 1] = e
OBVIOUS

\* Barriers stay, and a DDL or TRUNCATE that is sent is one.
LEMMA BarrierStays ==
  ASSUME NEW l \in Seq(LogEntry), NEW e \in LogEntry, NEW r, NEW from \in Nat
  PROVE  /\ BarrierIn(l, r, from) => BarrierIn(Append(l, e), r, from)
         /\ from <= Len(l) /\ e.rel = r /\ e.kind # "row" /\ e.sent
              => BarrierIn(Append(l, e), r, from)
BY AppendEntry DEF BarrierIn

\* What a snapshot holds does not depend on what follows it.
LEMMA ContentsStay ==
  ASSUME NEW l \in Seq(LogEntry), NEW e \in LogEntry, NEW r,
         NEW point \in Nat, point <= Len(l)
  PROVE  ContentsIn(Append(l, e), r, point) = ContentsIn(l, r, point)
<1>1. \A k \in 1 .. point : Append(l, e)[k] = l[k]
  BY AppendEntry
<1>2. \A i \in 1 .. point : \A k \in i .. point : k \in 1 .. point
  OBVIOUS
<1> QED BY <1>1, <1>2 DEF ContentsIn

\* A commit uses no identifier but that of its DDL.
LEMMA DdlAppended ==
  ASSUME NEW l \in Seq(LogEntry), NEW e \in LogEntry
  PROVE  DdlRelations(Append(l, e))
           = IF e.kind = "ddl" THEN DdlRelations(l) \cup {e.rel} ELSE DdlRelations(l)
<1>1. DOMAIN Append(l, e) = DOMAIN l \cup {Len(l) + 1} /\ DOMAIN l = 1 .. Len(l)
  BY AppendEntry
<1>2. \A k \in DOMAIN l : Append(l, e)[k] = l[k]
  BY <1>1, AppendEntry
<1>3. Append(l, e)[Len(l) + 1] = e
  BY AppendEntry
<1> QED BY <1>1, <1>2, <1>3 DEF DdlRelations

\* The identifier of a new relation is none that was used before.
LEMMA NewIsFresh ==
  ASSUME IdInv
  PROVE  /\ NewRelation \in Nat \ {0} /\ NewRelation \notin UsedIn(log, catalog)
         /\ \E n \in Nat : UsedIn(log, catalog) \cup {NewRelation} = 1 .. n
         /\ 0 \notin UsedIn(log, catalog)
<1>1. PICK n \in Nat : UsedIn(log, catalog) = 1 .. n
  BY DEF IdInv
<1>2. NewRelation = 1 + Cardinality(1 .. n)
  BY <1>1 DEF NewRelation, UsedIn, DdlRelations, Relations
<1>3. Cardinality(1 .. n) = n
  BY <1>1, FS_Interval
<1>4. NewRelation = n + 1 /\ UsedIn(log, catalog) \cup {n + 1} = 1 .. n + 1
  BY <1>1, <1>2, <1>3
<1> QED BY <1>1, <1>4

-----------------------------------------------------------------------------
(* What the source may do to the log, the catalog and the publication. *)

Evolves ==
  /\ log' \in Seq(LogEntry) /\ catalog' \in [Table -> Nat] /\ Len(log) <= Len(log')
  /\ \A r : \A from \in Nat : BarrierIn(log, r, from) => BarrierIn(log', r, from)
  /\ \A r : \A point \in Nat :
       point <= Len(log) => ContentsIn(log', r, point) = ContentsIn(log, r, point)
  /\ UsedIn(log, catalog) \subseteq UsedIn(log', catalog')
  /\ \A t \in Table :
       catalog'[t] \in UsedIn(log, catalog) =>
         /\ catalog[t] = catalog'[t]
         /\ catalog[t] \in publication => catalog[t] \in publication'

SourceStep ==
  \/ \E w \in Writer : CommitsRow(w) \/ \E t \in Table : WritesRow(w, t)
  \/ \E t \in Table : DropsTable(t) \/ CreatesTable(t) \/ TruncatesTable(t)
  \/ SlotIsReady \/ BuildingEnds

\* No relation comes back under an identifier that was used, and a member leaves
\* the publication only with its table.
LEMMA SourceEvolves ==
  ASSUME TypeInv, IdInv, SourceStep
  PROVE  Evolves /\ IdInv'
<1>1. log \in Seq(LogEntry) /\ catalog \in [Table -> Nat] /\ Len(log) \in Nat
  BY DEF TypeInv
<1>2. 0 \notin UsedIn(log, catalog)
  BY NewIsFresh
<1>3. ASSUME NEW e \in LogEntry, log' = Append(log, e), catalog' \in [Table -> Nat],
             UsedIn(log, catalog) \subseteq UsedIn(log', catalog'),
             \A t \in Table :
               catalog'[t] \in UsedIn(log, catalog) =>
                 /\ catalog[t] = catalog'[t]
                 /\ catalog[t] \in publication => catalog[t] \in publication'
      PROVE  Evolves
  BY <1>1, <1>3, AppendEntry, BarrierStays, ContentsStay DEF Evolves
<1>4. CASE UNCHANGED <<log, catalog, publication>>
  BY <1>1, <1>4 DEF Evolves, IdInv, UsedIn, DdlRelations, Existing
<1>5. ASSUME NEW w \in Writer, CommitsRow(w) PROVE Evolves /\ IdInv'
  <2>1. PICK e \in LogEntry : e.kind = "row" /\ log' = Append(log, e)
    BY <1>5 DEF CommitsRow, Logged, LogEntry, TypeInv
  <2>2. UNCHANGED <<catalog, publication>>
    BY <1>5 DEF CommitsRow
  <2>3. UsedIn(log', catalog') = UsedIn(log, catalog)
    BY <1>1, <2>1, <2>2, DdlAppended DEF UsedIn
  <2> QED BY <1>1, <1>3, <2>1, <2>2, <2>3 DEF IdInv
<1>6. ASSUME NEW t \in Table, TruncatesTable(t) PROVE Evolves /\ IdInv'
  <2>1. PICK e \in LogEntry : e.kind = "truncate" /\ log' = Append(log, e)
    <3>1. catalog[t] \in Nat /\ (catalog[t] \in publication) \in BOOLEAN
      BY <1>1
    <3> QED BY <1>6, <3>1 DEF TruncatesTable, Logged, LogEntry
  <2>2. UNCHANGED <<catalog, publication>>
    BY <1>6 DEF TruncatesTable
  <2>3. UsedIn(log', catalog') = UsedIn(log, catalog)
    BY <1>1, <2>1, <2>2, DdlAppended DEF UsedIn
  <2> QED BY <1>1, <1>3, <2>1, <2>2, <2>3 DEF IdInv
<1>7. ASSUME NEW t \in Table, DropsTable(t) PROVE Evolves /\ IdInv'
  <2>1. PICK e \in LogEntry : e.kind = "ddl" /\ e.rel = catalog[t] /\ log' = Append(log, e)
    BY <1>1, <1>7 DEF DropsTable, Logged, LogEntry
  <2>2. /\ catalog' = [catalog EXCEPT ![t] = 0] /\ catalog[t] # 0
        /\ publication' = publication \ {catalog[t]}
    BY <1>7 DEF DropsTable, Lockable
  <2>3. UsedIn(log', catalog') = UsedIn(log, catalog)
    <3>1. DdlRelations(log') = DdlRelations(log) \cup {catalog[t]}
      BY <1>1, <2>1, DdlAppended
    <3>2. Existing(catalog') = Existing(catalog) \ {t} /\ t \in Existing(catalog)
      BY <1>1, <2>2 DEF Existing
    <3>3. \A u \in Existing(catalog') : catalog'[u] = catalog[u]
      BY <1>1, <2>2, <3>2 DEF Existing
    <3> QED BY <3>1, <3>2, <3>3 DEF UsedIn
  <2>4. \A u \in Table : catalog'[u] \in UsedIn(log, catalog) =>
          /\ catalog[u] = catalog'[u]
          /\ catalog[u] \in publication => catalog[u] \in publication'
    BY <1>1, <1>2, <2>2 DEF IdInv
  <2>5. IdInv'
    BY <1>1, <2>2, <2>3 DEF IdInv
  <2> QED BY <1>1, <1>3, <2>1, <2>2, <2>3, <2>4, <2>5
<1>8. ASSUME NEW t \in Table, CreatesTable(t) PROVE Evolves /\ IdInv'
  <2>1. PICK n \in Nat \ {0} : n = NewRelation /\ n \notin UsedIn(log, catalog)
    BY NewIsFresh
  <2>2. PICK e \in LogEntry : e.kind = "ddl" /\ e.rel = n /\ log' = Append(log, e)
    BY <1>8, <2>1 DEF CreatesTable, Logged, LogEntry
  <2>3. /\ catalog' = [catalog EXCEPT ![t] = n] /\ catalog[t] = 0
        /\ publication' = publication
    BY <1>8, <2>1 DEF CreatesTable
  <2>4. UsedIn(log', catalog') = UsedIn(log, catalog) \cup {n}
    <3>1. DdlRelations(log') = DdlRelations(log) \cup {n}
      BY <1>1, <2>2, DdlAppended
    <3>2. Existing(catalog') = Existing(catalog) \cup {t} /\ t \notin Existing(catalog)
      BY <1>1, <2>3 DEF Existing
    <3>3. catalog'[t] = n /\ \A u \in Existing(catalog) : catalog'[u] = catalog[u]
      BY <1>1, <2>3, <3>2 DEF Existing
    <3> QED BY <3>1, <3>2, <3>3 DEF UsedIn
  <2>5. \A u \in Table : catalog'[u] \in UsedIn(log, catalog) =>
          /\ catalog[u] = catalog'[u]
          /\ catalog[u] \in publication => catalog[u] \in publication'
    BY <1>1, <2>1, <2>3
  <2>6. \A u \in Table : catalog[u] # n
    BY <2>1 DEF UsedIn, Existing
  <2>7. IdInv'
    BY <1>1, <2>1, <2>3, <2>4, <2>6, NewIsFresh DEF IdInv
  <2> QED BY <1>1, <1>3, <2>2, <2>3, <2>4, <2>5, <2>7
<1> QED
  BY <1>4, <1>5, <1>6, <1>7, <1>8
  DEF SourceStep, WritesRow, SlotIsReady, BuildingEnds, sourceVars

\* What was planned, published and copied before such a step stays so.
LEMMA EvolvedPlan ==
  ASSUME Evolves, NEW plan, Planful(plan, UsedIn(log, catalog))
  PROVE  /\ Planful(plan, UsedIn(log', catalog'))
         /\ Published(plan, catalog, publication) => Published(plan, catalog', publication')
         /\ \A rows : \A point \in Nat :
              /\ point <= Len(log) /\ DOMAIN rows \subseteq DOMAIN plan
              /\ Copied(plan, point, rows, log, catalog)
              => Copied(plan, point, rows, log', catalog')
<1>1. Planful(plan, UsedIn(log', catalog'))
  BY DEF Evolves, Planful
<1>2. \A t \in DOMAIN plan :
        catalog'[t] = plan[t] =>
          catalog[t] = plan[t] /\ (plan[t] \in publication => plan[t] \in publication')
  BY DEF Evolves, Planful
<1>3. ASSUME NEW rows, NEW point \in Nat, point <= Len(log), DOMAIN rows \subseteq DOMAIN plan,
             Copied(plan, point, rows, log, catalog)
      PROVE  Copied(plan, point, rows, log', catalog')
  BY <1>2, <1>3 DEF Copied, Evolves
<1> QED BY <1>1, <1>2, <1>3 DEF Published

\* The plan made at the consistent point maps tables to used relations.
LEMMA PlannedIsPlanful ==
  ASSUME SlotInv, slot.state = "ready"
  PROVE  Planful(Planned(slot.catalog), UsedIn(log, catalog))
BY DEF SlotInv, Planful, Planned, Existing

\* A source step keeps the slot and its point, unless the slot was being built.
LEMMA SourceSlot ==
  ASSUME TypeInv, SourceStep
  PROVE  /\ UNCHANGED <<attempt, attempts, activation, live>>
         /\ slot'.state \in {"absent", "building", "ready"}
         /\ slot' = [state |-> slot'.state, waits |-> slot'.waits, point |-> slot'.point,
                     catalog |-> slot'.catalog]
         /\ slot'.state = "absent" => slot' = NoSlot
         /\ slot.state = "ready" =>
              slot'.state = "ready" /\ slot'.point = slot.point /\ slot'.catalog = slot.catalog
         /\ slot = NoSlot => slot' = NoSlot
<1>1. CASE SlotIsReady
  <2>1. /\ slot' = [state |-> "ready", waits |-> {}, point |-> Len(log), catalog |-> catalog]
        /\ slot.state = "building"
    BY <1>1 DEF SlotIsReady, TypeInv
  <2>2. UNCHANGED <<attempt, attempts, activation, live>>
    BY <1>1 DEF SlotIsReady, InSource
  <2>3. slot # NoSlot
    BY <2>1 DEF NoSlot
  <2> QED BY <2>1, <2>2, <2>3
<1>2. CASE BuildingEnds
  BY <1>2 DEF BuildingEnds, InSource, TypeInv, NoSlot
<1>3. ASSUME NEW w \in Writer, CommitsRow(w)
      PROVE  /\ UNCHANGED <<attempt, attempts, activation, live>>
             /\ slot' = [slot EXCEPT !.waits = slot.waits \ {w}]
  BY <1>3 DEF CommitsRow, InSource
<1>4. ASSUME NEW w \in Writer, slot' = [slot EXCEPT !.waits = slot.waits \ {w}]
      PROVE  /\ slot'.state = slot.state /\ slot'.point = slot.point
             /\ slot'.catalog = slot.catalog /\ slot'.waits = slot.waits \ {w}
             /\ slot' = [state |-> slot'.state, waits |-> slot'.waits,
                         point |-> slot'.point, catalog |-> slot'.catalog]
  BY <1>4 DEF TypeInv
<1>5. ASSUME NEW w \in Writer, CommitsRow(w), slot = NoSlot PROVE slot' = NoSlot
  BY <1>3, <1>4, <1>5 DEF NoSlot
<1>6. CASE UNCHANGED <<slot, attempt, attempts, activation, live>>
  BY <1>6 DEF TypeInv
<1>7. CASE \E w \in Writer : CommitsRow(w)
  BY <1>3, <1>4, <1>5, <1>7 DEF TypeInv
<1> QED
  BY <1>1, <1>2, <1>6, <1>7
  DEF SourceStep, WritesRow, DropsTable, CreatesTable, TruncatesTable, InSource

\* Sessions keep their types.
LEMMA SourceTypes ==
  ASSUME TypeInv, IdInv, SourceStep
  PROVE  TypeInv'
<1>1. writing' \in [Writer -> [rel : Nat, sent : BOOLEAN]]
  <2>1. CASE writing' = writing
    BY <2>1 DEF TypeInv
  <2>2. ASSUME NEW w \in Writer, CommitsRow(w)
        PROVE  writing' \in [Writer -> [rel : Nat, sent : BOOLEAN]]
    BY <2>2 DEF TypeInv, CommitsRow, NoWrite
  <2>3. ASSUME NEW w \in Writer, NEW t \in Table, WritesRow(w, t)
        PROVE  writing' \in [Writer -> [rel : Nat, sent : BOOLEAN]]
    <3>1. PICK x \in [rel : Nat, sent : BOOLEAN] : writing' = [writing EXCEPT ![w] = x]
      <4>1. catalog[t] \in Nat /\ (catalog[t] \in publication) \in BOOLEAN
        BY DEF TypeInv
      <4> QED BY <2>3, <4>1 DEF WritesRow
    <3> QED BY <3>1 DEF TypeInv
  <2> QED
    BY <2>1, <2>2, <2>3
    DEF SourceStep, DropsTable, CreatesTable, TruncatesTable, SlotIsReady, BuildingEnds, sourceVars
<1> QED BY <1>1, SourceSlot, SourceEvolves DEF TypeInv, Evolves

\* The source keeps the plan, the copy and what is active as the invariant says.
LEMMA SourceKeepsPlans ==
  ASSUME IInv, SourceStep
  PROVE  AttemptInv' /\ PlanInv' /\ MemberInv' /\ CopyInv' /\ ActiveInv'
<1>1. Evolves
  BY SourceEvolves DEF IInv
<1>2. /\ UNCHANGED <<attempt, activation, live>>
      /\ slot.state = "ready" =>
           slot'.state = "ready" /\ slot'.point = slot.point /\ slot'.catalog = slot.catalog
      /\ slot = NoSlot => slot' = NoSlot
  BY SourceSlot DEF IInv
<1>3. AttemptInv'
  BY <1>2 DEF IInv, AttemptInv
<1>4. PlanInv' /\ MemberInv'
  BY <1>1, <1>2, EvolvedPlan DEF IInv, PlanInv, MemberInv, HasPlan
<1>5. slot.state = "ready" => slot.point \in Nat /\ slot.point <= Len(log)
  BY DEF IInv, SlotInv
<1>6. CopyInv'
  <2>1. ASSUME attempt.step = "loading"
        PROVE  Copied(attempt.plan, attempt.point, attempt.rows, log', catalog')
    BY <1>1, <1>5, <2>1, EvolvedPlan DEF IInv, PlanInv, HasPlan, CopyInv
  <2> QED BY <1>2, <2>1 DEF IInv, CopyInv
<1>7. ActiveInv'
  <2>1. ASSUME NEW g \in activation \cup live PROVE Sound(g)'
    <3>1. Sound(g)
      BY DEF IInv, ActiveInv
    <3>2. Planful(g.plan, UsedIn(log, catalog))
      BY <3>1, PlannedIsPlanful DEF Sound, IInv
    <3> QED BY <1>1, <1>2, <1>5, <3>1, <3>2, EvolvedPlan DEF Sound
  <2> QED BY <1>2, <2>1 DEF IInv, ActiveInv
<1> QED BY <1>3, <1>4, <1>6, <1>7

\* Sessions that the slot does not wait for began after the publication was made.
LEMMA SourceKeepsWrites ==
  ASSUME IInv, SourceStep
  PROVE  WriteInv'
<1> USE DEF IInv, TypeInv, WriteInv
<1>1. ASSUME NEW w \in Writer, CommitsRow(w) PROVE WriteInv'
  BY <1>1 DEF CommitsRow
<1>2. ASSUME NEW w \in Writer, NEW t \in Table, WritesRow(w, t) PROVE WriteInv'
  BY <1>2 DEF WritesRow
<1>3. ASSUME NEW t \in Table, DropsTable(t) PROVE WriteInv'
  BY <1>3 DEF DropsTable
<1>4. ASSUME NEW t \in Table, CreatesTable(t) \/ TruncatesTable(t) PROVE WriteInv'
  BY <1>4 DEF CreatesTable, TruncatesTable
<1>5. CASE SlotIsReady
  BY <1>5 DEF SlotIsReady, sourceVars
<1>6. CASE BuildingEnds
  BY <1>6 DEF BuildingEnds, sourceVars, NoSlot
<1> QED BY <1>1, <1>2, <1>3, <1>4, <1>5, <1>6 DEF SourceStep

\* Everything after the consistent point is sent or comes after a barrier.
LEMMA SourceKeepsSlot ==
  ASSUME IInv, SourceStep
  PROVE  SlotInv'
<1>1. /\ log \in Seq(LogEntry) /\ catalog \in [Table -> Nat] /\ Len(log) \in Nat
      /\ writing \in [Writer -> [rel : Nat, sent : BOOLEAN]]
  BY DEF IInv, TypeInv
<1>2. Evolves
  BY SourceEvolves DEF IInv
<1>3. CASE SlotIsReady
  <2>1. /\ UNCHANGED <<log, catalog, publication>>
        /\ slot' = [state |-> "ready", waits |-> {}, point |-> Len(log), catalog |-> catalog]
    BY <1>3 DEF SlotIsReady, sourceVars, IInv, TypeInv
  <2>2. \A t \in Existing(catalog) : catalog[t] \in UsedIn(log, catalog)
    BY DEF UsedIn
  <2> QED BY <1>1, <2>1, <2>2 DEF SlotInv
<1>4. CASE BuildingEnds
  BY <1>4 DEF BuildingEnds, SlotInv, NoSlot
<1>5. ASSUME NEW e \in LogEntry, log' = Append(log, e), publication' \subseteq publication,
             slot'.state = slot.state, slot'.point = slot.point,
             slot'.catalog = slot.catalog, slot'.waits \subseteq slot.waits,
             slot.state = "ready" =>
               /\ e.rel \in publication' => e.sent
               /\ \A t \in Existing(catalog') :
                    catalog'[t] = catalog[t] \/ BarrierIn(log', catalog'[t], slot.point)
      PROVE  SlotInv'
  <2> SUFFICES ASSUME slot.state = "ready" PROVE SlotInv'
    BY <1>5 DEF SlotInv
  <2>1. /\ slot.waits = {} /\ slot.point \in Nat /\ slot.point <= Len(log)
        /\ slot.catalog \in [Table -> Nat]
    BY DEF IInv, SlotInv
  <2>2. slot'.point <= Len(log')
    BY <1>1, <1>2, <1>5, <2>1, AppendEntry
  <2>3. \A t \in Existing(slot.catalog) : slot.catalog[t] \in UsedIn(log', catalog')
    BY <1>2 DEF IInv, SlotInv, Evolves
  <2>4. \A t \in Existing(catalog') :
          catalog'[t] = slot.catalog[t] \/ BarrierIn(log', catalog'[t], slot.point)
    <3> SUFFICES ASSUME NEW t \in Existing(catalog'), catalog'[t] = catalog[t]
                 PROVE  catalog'[t] = slot.catalog[t] \/ BarrierIn(log', catalog'[t], slot.point)
      BY <1>5
    <3>1. t \in Existing(catalog)
      BY DEF Existing
    <3> QED BY <1>2, <2>1, <3>1 DEF IInv, SlotInv, Evolves
  <2>5. \A k \in slot.point + 1 .. Len(log') : log'[k].rel \in publication' => log'[k].sent
    <3> SUFFICES ASSUME NEW k \in slot.point + 1 .. Len(log'), log'[k].rel \in publication'
                 PROVE  log'[k].sent
      OBVIOUS
    <3>1. CASE k = Len(log) + 1
      BY <1>1, <1>5, <3>1, AppendEntry
    <3>2. CASE k # Len(log) + 1
      <4>1. k \in slot.point + 1 .. Len(log) /\ k \in 1 .. Len(log)
        BY <1>1, <1>5, <2>1, <3>2, AppendEntry
      <4>2. log'[k] = log[k]
        BY <1>1, <1>5, <4>1, AppendEntry
      <4> QED BY <1>5, <4>1, <4>2 DEF IInv, SlotInv
    <3> QED BY <3>1, <3>2
  <2> QED BY <1>5, <2>1, <2>2, <2>3, <2>4, <2>5 DEF SlotInv
<1>6. ASSUME NEW w \in Writer, CommitsRow(w) PROVE SlotInv'
  <2>1. PICK e \in LogEntry :
          e.rel = writing[w].rel /\ e.sent = writing[w].sent /\ log' = Append(log, e)
    BY <1>1, <1>6 DEF CommitsRow, Logged, LogEntry
  <2>2. slot.state = "ready" /\ e.rel \in publication => e.sent
    BY <1>6, <2>1 DEF IInv, WriteInv, SlotInv, CommitsRow
  <2>3. UNCHANGED <<catalog, publication>>
    BY <1>6 DEF CommitsRow
  <2>4. /\ slot'.state = slot.state /\ slot'.point = slot.point
        /\ slot'.catalog = slot.catalog /\ slot'.waits \subseteq slot.waits
    BY <1>6 DEF CommitsRow, IInv, TypeInv
  <2> QED BY <1>5, <2>1, <2>2, <2>3, <2>4
<1>7. ASSUME NEW t \in Table, TruncatesTable(t) PROVE SlotInv'
  <2>1. PICK e \in LogEntry :
          e.rel = catalog[t] /\ e.sent = (catalog[t] \in publication) /\ log' = Append(log, e)
    <3>1. catalog[t] \in Nat /\ (catalog[t] \in publication) \in BOOLEAN
      BY <1>1
    <3> QED BY <1>7, <3>1 DEF TruncatesTable, Logged, LogEntry
  <2>2. UNCHANGED <<catalog, publication, slot>>
    BY <1>7 DEF TruncatesTable
  <2> QED BY <1>5, <2>1, <2>2
<1>8. ASSUME NEW t \in Table, DropsTable(t) PROVE SlotInv'
  <2>1. PICK e \in LogEntry : e.sent /\ log' = Append(log, e)
    BY <1>1, <1>8 DEF DropsTable, Logged, LogEntry
  <2>2. /\ UNCHANGED slot /\ publication' \subseteq publication
        /\ \A u \in Existing(catalog') : catalog'[u] = catalog[u]
    BY <1>1, <1>8 DEF DropsTable, Existing
  <2> QED BY <1>5, <2>1, <2>2
<1>9. ASSUME NEW t \in Table, CreatesTable(t) PROVE SlotInv'
  <2>1. PICK n \in Nat \ {0} : n = NewRelation
    BY NewIsFresh DEF IInv
  <2>2. PICK e \in LogEntry :
          e.kind = "ddl" /\ e.rel = n /\ e.sent /\ log' = Append(log, e)
    BY <1>9, <2>1 DEF CreatesTable, Logged, LogEntry
  <2>3. /\ UNCHANGED <<publication, slot>>
        /\ catalog'[t] = n /\ \A u \in Table \ {t} : catalog'[u] = catalog[u]
    BY <1>1, <1>9, <2>1 DEF CreatesTable
  <2>4. slot.state = "ready" => BarrierIn(log', n, slot.point)
    BY <1>1, <2>2, BarrierStays DEF IInv, SlotInv
  <2> QED BY <1>5, <2>2, <2>3, <2>4 DEF Existing
<1>10. ASSUME NEW w \in Writer, NEW t \in Table, WritesRow(w, t) PROVE SlotInv'
  BY <1>10 DEF WritesRow, IInv, SlotInv
<1> QED BY <1>3, <1>4, <1>6, <1>7, <1>8, <1>9, <1>10 DEF SourceStep

-----------------------------------------------------------------------------
(* The steps of the job. *)

LEMMA InitIInv ==
  ASSUME InitialInit
  PROVE  IInv
<1>1. PICK t \in Table : catalog = [u \in Table |-> IF u = t THEN 1 ELSE 0]
  BY DEF InitialInit
<1>2. /\ log = <<>> /\ slot = NoSlot /\ attempt = NoAttempt
      /\ writing = [w \in Writer |-> NoWrite] /\ activation = {} /\ live = {}
  BY DEF InitialInit
<1>3. TypeInv
  BY <1>1, <1>2 DEF TypeInv, NoSlot, NoWrite
<1>4. IdInv
  <2>1. Existing(catalog) = {t} /\ catalog[t] = 1
    BY <1>1 DEF Existing
  <2>2. DdlRelations(log) = {}
    BY <1>2 DEF DdlRelations
  <2>3. UsedIn(log, catalog) = 1 .. 1
    BY <2>1, <2>2 DEF UsedIn
  <2> QED BY <1>1, <2>3 DEF IdInv
<1>5. AttemptInv /\ PlanInv /\ MemberInv /\ CopyInv
  BY <1>2 DEF AttemptInv, PlanInv, MemberInv, HasPlan, CopyInv, NoAttempt
<1>6. WriteInv /\ SlotInv /\ ActiveInv
  BY <1>2 DEF WriteInv, SlotInv, ActiveInv, NoSlot
<1> QED BY <1>3, <1>4, <1>5, <1>6 DEF IInv

\* A step that leaves the source alone.
LEMMA SourceStays ==
  ASSUME IInv, UNCHANGED <<log, writing, catalog>>
  PROVE  /\ IdInv'
         /\ UNCHANGED slot => TypeInv'
         /\ UNCHANGED <<slot, publication>> => WriteInv' /\ SlotInv'
         /\ UNCHANGED <<slot, publication, activation, live>>
            /\ (activation \cup live # {} => attempt'.step \in {"none", "activating", "streaming"})
            => ActiveInv'
<1>1. IdInv'
  BY DEF IInv, IdInv
<1>2. UNCHANGED slot => TypeInv'
  BY DEF IInv, TypeInv
<1>3. UNCHANGED <<slot, publication>> => WriteInv'
  BY DEF IInv, WriteInv
<1>4. UNCHANGED <<slot, publication>> => SlotInv'
  BY DEF IInv, SlotInv
<1>5. ASSUME UNCHANGED <<slot, publication, activation, live>>,
             activation \cup live # {} => attempt'.step \in {"none", "activating", "streaming"}
      PROVE  ActiveInv'
  BY <1>5 DEF IInv, ActiveInv, Sound
<1> QED BY <1>1, <1>2, <1>3, <1>4, <1>5

\* A step of the job that changes only what it holds.
LEMMA OnlyAttempt ==
  ASSUME IInv, UNCHANGED <<log, writing, catalog, publication, slot, activation, live>>,
         AttemptInv', PlanInv', MemberInv', CopyInv',
         activation \cup live # {} => attempt'.step \in {"none", "activating", "streaming"}
  PROVE  IInv'
BY SourceStays DEF IInv

\* The job ends, and leaves the slot or drops it.
LEMMA Ends ==
  ASSUME IInv, UNCHANGED <<log, writing, catalog, publication, activation, live>>,
         attempt' = NoAttempt,
         UNCHANGED slot \/ (slot' = NoSlot /\ activation \cup live = {})
  PROVE  IInv'
<1>1. AttemptInv' /\ PlanInv' /\ MemberInv' /\ CopyInv' /\ attempt'.step = "none"
  BY DEF AttemptInv, PlanInv, MemberInv, HasPlan, CopyInv, NoAttempt
<1>2. CASE UNCHANGED slot
  BY <1>1, <1>2, OnlyAttempt
<1>3. CASE slot' = NoSlot /\ activation \cup live = {}
  <2>1. TypeInv' /\ IdInv'
    BY <1>3, SourceStays DEF IInv, TypeInv, NoSlot
  <2>2. WriteInv' /\ SlotInv'
    BY <1>3 DEF WriteInv, SlotInv, NoSlot
  <2>3. ActiveInv'
    BY <1>3 DEF ActiveInv
  <2> QED BY <1>1, <2>1, <2>2, <2>3 DEF IInv
<1> QED BY <1>2, <1>3

LEMMA NewAttemptStep ==
  ASSUME IInv, NewAttempt
  PROVE  IInv'
<1>1. /\ UNCHANGED <<log, writing, catalog, publication, slot, activation, live>>
      /\ activation = {} /\ live = {} /\ attempt' = [step |-> "slot"]
  BY DEF NewAttempt, sourceVars, Proceeds
<1>2. AttemptInv' /\ PlanInv' /\ MemberInv' /\ CopyInv'
  BY <1>1 DEF AttemptInv, PlanInv, MemberInv, HasPlan, CopyInv
<1> QED BY <1>1, <1>2, OnlyAttempt

LEMMA DropOrphanSlotStep ==
  ASSUME IInv, DropOrphanSlot
  PROVE  IInv'
<1>1. /\ UNCHANGED <<log, writing, catalog, publication, activation, live>>
      /\ attempt.step = "slot" /\ activation \cup live = {}
  BY DEF DropOrphanSlot, InJob, IInv, ActiveInv
<1>2. CASE slot.state = "building"
  BY <1>1, <1>2, Ends DEF DropOrphanSlot, Proceeds
<1>3. CASE slot.state # "building"
  <2>1. attempt' = [step |-> "inventory"] /\ slot' = NoSlot
    BY <1>3 DEF DropOrphanSlot, Proceeds
  <2>2. AttemptInv' /\ PlanInv' /\ MemberInv' /\ CopyInv'
    BY <2>1 DEF AttemptInv, PlanInv, MemberInv, HasPlan, CopyInv
  <2>3. TypeInv' /\ IdInv'
    BY <1>1, <2>1, SourceStays DEF IInv, TypeInv, NoSlot
  <2>4. WriteInv' /\ SlotInv' /\ ActiveInv'
    BY <1>1, <2>1 DEF WriteInv, SlotInv, ActiveInv, NoSlot
  <2> QED BY <2>2, <2>3, <2>4 DEF IInv
<1> QED BY <1>2, <1>3

LEMMA TakesInventoryStep ==
  ASSUME IInv, TakesInventory
  PROVE  IInv'
<1>1. /\ UNCHANGED <<log, writing, catalog, publication, slot, activation, live>>
      /\ attempt.step = "inventory" /\ activation \cup live = {} /\ slot = NoSlot
  BY DEF TakesInventory, InJob, IInv, ActiveInv, CopyInv
<1>2. CASE attempt' = NoAttempt
  BY <1>1, <1>2, Ends
<1>3. CASE attempt' = [step |-> "publish", plan |-> Planned(catalog)]
  <2>1. Planful(Planned(catalog), UsedIn(log, catalog))
    BY DEF Planful, Planned, UsedIn, Existing
  <2>2. AttemptInv' /\ PlanInv' /\ MemberInv' /\ CopyInv'
    BY <1>1, <1>3, <2>1 DEF AttemptInv, PlanInv, MemberInv, HasPlan, CopyInv
  <2> QED BY <1>1, <2>2, OnlyAttempt
<1> QED BY <1>2, <1>3 DEF TakesInventory, Proceeds

\* All planned tables are members, whether by comparison or by setting them.
LEMMA EnsurePublicationStep ==
  ASSUME IInv, EnsurePublication
  PROVE  IInv'
<1>1. /\ UNCHANGED <<log, writing, catalog, slot, activation, live>>
      /\ attempt.step = "publish" /\ activation \cup live = {} /\ slot = NoSlot
      /\ attempt = [step |-> "publish", plan |-> attempt.plan]
  BY DEF EnsurePublication, InJob, IInv, ActiveInv, CopyInv, AttemptInv
<1>2. CASE ~(DOMAIN attempt.plan \subseteq Existing(catalog))
  BY <1>1, <1>2, Ends DEF EnsurePublication, Proceeds
<1>3. CASE DOMAIN attempt.plan \subseteq Existing(catalog)
  <2>1. /\ attempt' = [step |-> "create", plan |-> attempt.plan]
        /\ publication' = IF MembershipMatches(DOMAIN attempt.plan) THEN publication
                          ELSE Members(DOMAIN attempt.plan)
    BY <1>1, <1>3 DEF EnsurePublication, Proceeds
  <2>2. \A t \in DOMAIN attempt.plan : catalog[t] \in publication'
    BY <2>1 DEF MembershipMatches, PublishedNames, Members
  <2>3. AttemptInv' /\ PlanInv' /\ CopyInv'
    BY <1>1, <2>1 DEF AttemptInv, PlanInv, HasPlan, CopyInv, IInv
  <2>4. MemberInv'
    BY <1>1, <2>1, <2>2 DEF MemberInv, Published
  <2>5. WriteInv' /\ SlotInv' /\ ActiveInv'
    BY <1>1 DEF WriteInv, SlotInv, ActiveInv, NoSlot
  <2> QED BY <1>1, <2>3, <2>4, <2>5, SourceStays DEF IInv
<1> QED BY <1>2, <1>3

\* The slot waits for every session that has written.
LEMMA AsksForSlotStep ==
  ASSUME IInv, AsksForSlot
  PROVE  IInv'
<1>1. /\ UNCHANGED <<log, writing, catalog, publication, activation, live>>
      /\ attempt.step = "create" /\ activation \cup live = {}
      /\ attempt = [step |-> "create", plan |-> attempt.plan]
  BY DEF AsksForSlot, InJob, IInv, ActiveInv, AttemptInv
<1>2. /\ attempt' = [step |-> "building", plan |-> attempt.plan]
      /\ slot' = [state |-> "building", waits |-> {w \in Writer : writing[w] # NoWrite},
                  point |-> 0, catalog |-> <<>>]
  BY <1>1 DEF AsksForSlot, Proceeds, NoSlot
<1>3. AttemptInv' /\ PlanInv' /\ MemberInv' /\ CopyInv'
  BY <1>1, <1>2 DEF AttemptInv, PlanInv, MemberInv, HasPlan, CopyInv, IInv
<1>4. TypeInv' /\ IdInv'
  BY <1>1, <1>2, SourceStays DEF IInv, TypeInv
<1>5. WriteInv' /\ SlotInv' /\ ActiveInv'
  BY <1>1, <1>2 DEF WriteInv, SlotInv, ActiveInv
<1> QED BY <1>3, <1>4, <1>5 DEF IInv

LEMMA ReceivesSlotStep ==
  ASSUME IInv, ReceivesSlot
  PROVE  IInv'
<1>1. /\ UNCHANGED <<log, writing, catalog, publication, slot, activation, live>>
      /\ attempt.step = "building" /\ activation \cup live = {} /\ slot.state = "ready"
      /\ attempt' = [step |-> "exported", plan |-> attempt.plan, point |-> slot.point]
  BY DEF ReceivesSlot, InJob, IInv, ActiveInv, Proceeds
<1>2. AttemptInv' /\ PlanInv' /\ MemberInv' /\ CopyInv'
  BY <1>1 DEF AttemptInv, PlanInv, MemberInv, HasPlan, CopyInv, IInv
<1> QED BY <1>1, <1>2, OnlyAttempt

\* The export is lost or imported, or the catalogs differ.
LEMMA ExportStep ==
  ASSUME IInv, ExportIsLost \/ ImportsSnapshot \/ (ComparesCatalog /\ ~CatalogUnchanged)
  PROVE  IInv'
<1>1. /\ UNCHANGED <<log, writing, catalog, publication, slot, activation, live>>
      /\ attempt.step \in {"exported", "imported"} /\ activation \cup live = {}
      /\ attempt = [step |-> attempt.step, plan |-> attempt.plan, point |-> attempt.point]
  BY DEF ExportIsLost, ImportsSnapshot, ComparesCatalog, InJob, IInv, ActiveInv, AttemptInv
<1>2. PICK s \in {"lost", "imported"} :
        attempt' = [step |-> s, plan |-> attempt.plan, point |-> attempt.point]
  BY <1>1 DEF ExportIsLost, ImportsSnapshot, ComparesCatalog, Proceeds
<1>3. AttemptInv' /\ PlanInv' /\ MemberInv' /\ CopyInv'
  BY <1>1, <1>2 DEF AttemptInv, PlanInv, MemberInv, HasPlan, CopyInv, IInv
<1> QED BY <1>1, <1>3, OnlyAttempt

LEMMA ComparesCatalogStep ==
  ASSUME IInv, ComparesCatalog, CatalogUnchanged
  PROVE  IInv'
<1>1. /\ UNCHANGED <<log, writing, catalog, publication, slot, activation, live>>
      /\ attempt.step = "imported" /\ activation \cup live = {}
      /\ attempt.plan = Planned(slot.catalog)
      /\ attempt' = [step |-> "loading", plan |-> attempt.plan, point |-> attempt.point,
                     rows |-> <<>>]
  BY DEF ComparesCatalog, CatalogUnchanged, InJob, IInv, ActiveInv, Proceeds
<1>2. AttemptInv' /\ PlanInv' /\ MemberInv'
  BY <1>1 DEF AttemptInv, PlanInv, MemberInv, HasPlan, IInv
<1>3. CopyInv'
  BY <1>1 DEF CopyInv, Copied, IInv
<1> QED BY <1>1, <1>2, <1>3, OnlyAttempt

\* A copy of the planned relation holds its rows at the consistent point, or the
\* TRUNCATE that emptied it is in the stream.
LEMMA CopiesTableStep ==
  ASSUME IInv, NEW t \in Table, CopiesTable(t)
  PROVE  IInv'
<1>1. /\ UNCHANGED <<log, writing, catalog, publication, slot, activation, live>>
      /\ attempt.step = "loading" /\ activation \cup live = {}
      /\ slot.state = "ready" /\ attempt.point = slot.point
      /\ attempt = [step |-> "loading", plan |-> attempt.plan, point |-> attempt.point,
                    rows |-> attempt.rows]
      /\ t \in DOMAIN attempt.plan
  BY DEF CopiesTable, InJob, IInv, ActiveInv, AttemptInv, CopyInv
<1> DEFINE rows == [u \in DOMAIN attempt.rows \cup {t} |->
                      IF u = t THEN Seen(catalog[t]) ELSE attempt.rows[u]]
<1>2. attempt' = [step |-> "loading", plan |-> attempt.plan, point |-> attempt.point,
                  rows |-> rows]
  BY <1>1 DEF CopiesTable, Proceeds
<1>3. ASSUME catalog[t] = attempt.plan[t]
      PROVE  \/ Seen(catalog[t]) = ContentsIn(log, attempt.plan[t], attempt.point)
             \/ BarrierIn(log, attempt.plan[t], attempt.point)
  <2>1. CASE \E k \in attempt.point + 1 .. Len(log) :
               log[k].rel = catalog[t] /\ log[k].kind = "truncate"
    <3>1. catalog[t] \in publication
      BY <1>1, <1>3 DEF IInv, MemberInv, HasPlan, Published
    <3> QED BY <1>1, <1>3, <2>1, <3>1 DEF IInv, SlotInv, BarrierIn
  <2>2. CASE ~ \E k \in attempt.point + 1 .. Len(log) :
                 log[k].rel = catalog[t] /\ log[k].kind = "truncate"
    BY <1>3, <2>2 DEF Seen, Contents, ContentsIn
  <2> QED BY <2>1, <2>2
<1>4. Copied(attempt.plan, attempt.point, rows, log, catalog)
  BY <1>1, <1>3 DEF IInv, CopyInv, Copied
<1>5. DOMAIN rows \subseteq DOMAIN attempt.plan
  BY <1>1 DEF IInv, CopyInv
<1> HIDE DEF rows
<1>6. AttemptInv' /\ PlanInv' /\ MemberInv'
  BY <1>1, <1>2 DEF AttemptInv, PlanInv, MemberInv, HasPlan, IInv
<1>7. CopyInv'
  BY <1>1, <1>2, <1>4, <1>5 DEF CopyInv, IInv
<1> QED BY <1>1, <1>2, <1>6, <1>7, OnlyAttempt

LEMMA AsksForActivationStep ==
  ASSUME IInv, AsksForActivation
  PROVE  IInv'
<1>1. /\ UNCHANGED <<log, writing, catalog, publication, slot, live>>
      /\ attempt.step = "loading" /\ activation \cup live = {}
      /\ attempt' = [step |-> "activating"]
      /\ activation' = {[plan |-> attempt.plan, point |-> attempt.point, rows |-> attempt.rows]}
      /\ DOMAIN attempt.rows = DOMAIN attempt.plan
  BY DEF AsksForActivation, InJob, IInv, ActiveInv, Proceeds
<1>2. AttemptInv' /\ PlanInv' /\ MemberInv' /\ CopyInv'
  BY <1>1 DEF AttemptInv, PlanInv, MemberInv, HasPlan, CopyInv
<1>3. ActiveInv'
  <2>1. /\ slot.state = "ready" /\ attempt.point = slot.point
        /\ attempt.plan = Planned(slot.catalog)
        /\ Copied(attempt.plan, attempt.point, attempt.rows, log, catalog)
        /\ Published(attempt.plan, catalog, publication)
    BY <1>1 DEF IInv, CopyInv, MemberInv, HasPlan
  <2> QED BY <1>1, <2>1 DEF ActiveInv, Sound
<1> QED BY <1>1, <1>2, <1>3, SourceStays DEF IInv

LEMMA ActivationEndsStep ==
  ASSUME IInv, NEW committed \in BOOLEAN, ActivationEnds(committed)
  PROVE  IInv'
<1>1. /\ UNCHANGED <<log, writing, catalog, publication, slot, attempt>>
      /\ activation # {} /\ activation' = {} /\ live' \subseteq activation
  BY DEF ActivationEnds, sourceVars
<1>2. AttemptInv' /\ PlanInv' /\ MemberInv' /\ CopyInv'
  BY <1>1 DEF AttemptInv, PlanInv, MemberInv, HasPlan, CopyInv, IInv
<1>3. ActiveInv'
  BY <1>1 DEF ActiveInv, Sound, IInv
<1> QED BY <1>1, <1>2, <1>3, SourceStays DEF IInv

LEMMA ActivationSucceedsStep ==
  ASSUME IInv, ActivationSucceeds
  PROVE  IInv'
<1>1. /\ UNCHANGED <<log, writing, catalog, publication, slot, activation, live>>
      /\ attempt' = [step |-> "streaming"]
  BY DEF ActivationSucceeds, InJob, Proceeds
<1>2. AttemptInv' /\ PlanInv' /\ MemberInv' /\ CopyInv'
  BY <1>1 DEF AttemptInv, PlanInv, MemberInv, HasPlan, CopyInv
<1> QED BY <1>1, <1>2, OnlyAttempt

\* The slot is dropped only where nothing can be, or be about to get, activated.
LEMMA AttemptFailsStep ==
  ASSUME IInv, AttemptFails
  PROVE  IInv'
<1>1. /\ UNCHANGED <<log, writing, catalog, publication, activation, live>>
      /\ attempt' = NoAttempt
  BY DEF AttemptFails, InJob, Proceeds
<1>2. UNCHANGED slot \/ (slot' = NoSlot /\ activation \cup live = {})
  BY DEF AttemptFails, PreservesSlot, IInv, ActiveInv
<1> QED BY <1>1, <1>2, Ends

LEMMA AttemptCrashesStep ==
  ASSUME IInv, AttemptCrashes
  PROVE  IInv'
BY Ends DEF AttemptCrashes, InJob, Proceeds

-----------------------------------------------------------------------------
LEMMA NextIInv ==
  ASSUME IInv, [InitialNext]_initialVars
  PROVE  IInv'
<1>1. CASE SourceStep
  BY <1>1, SourceEvolves, SourceTypes, SourceKeepsPlans, SourceKeepsWrites, SourceKeepsSlot
  DEF IInv
<1>2. CASE UNCHANGED initialVars
  <2>1. UNCHANGED <<log, writing, catalog, publication, slot, attempt, activation, live>>
    BY <1>2 DEF initialVars, sourceVars
  <2>2. AttemptInv' /\ PlanInv' /\ MemberInv' /\ CopyInv'
    BY <2>1 DEF IInv, AttemptInv, PlanInv, MemberInv, HasPlan, CopyInv
  <2> QED BY <2>1, <2>2, OnlyAttempt DEF IInv, ActiveInv
<1>3. CASE \E t \in Table : CopiesTable(t)
  BY <1>3, CopiesTableStep
<1>4. CASE ComparesCatalog
  BY <1>4, ExportStep, ComparesCatalogStep
<1>5. CASE \E committed \in BOOLEAN : ActivationEnds(committed)
  BY <1>5, ActivationEndsStep
<1> QED
  BY <1>1, <1>2, <1>3, <1>4, <1>5, NewAttemptStep, DropOrphanSlotStep, TakesInventoryStep,
     EnsurePublicationStep, AsksForSlotStep, ReceivesSlotStep, ExportStep,
     AsksForActivationStep, ActivationSucceedsStep, AttemptFailsStep, AttemptCrashesStep
  DEF InitialNext, SourceStep

\* The inductive invariant holds in every state that InitialSpec can reach.
THEOREM IInvAlways == InitialSpec => []IInv
<1>1. InitialInit => IInv
  BY InitIInv
<1>2. IInv /\ [InitialNext]_initialVars => IInv'
  BY NextIInv
<1> QED BY <1>1, <1>2, PTL DEF InitialSpec

LEMMA SoundMeetsStream ==
  ASSUME IInv
  PROVE  SnapshotMeetsStream
<1> SUFFICES ASSUME NEW g \in live
             PROVE  /\ slot.state = "ready" /\ slot.point = g.point
                    /\ \A t \in Existing(catalog) :
                         LET r == catalog[t] IN
                         \/ Barrier(r, g.point, Len(log))
                         \/ /\ t \in DOMAIN g.plan /\ g.plan[t] = r
                            /\ g.rows[t] = Contents(r, g.point)
                            /\ \A k \in g.point + 1 .. Len(log) : log[k].rel = r => log[k].sent
  BY DEF SnapshotMeetsStream
<1>1. Sound(g)
  BY DEF IInv, ActiveInv
<1>2. slot.state = "ready" /\ slot.point = g.point
  BY <1>1 DEF Sound
<1>3. ASSUME NEW t \in Existing(catalog), ~ Barrier(catalog[t], g.point, Len(log))
      PROVE  /\ t \in DOMAIN g.plan /\ g.plan[t] = catalog[t]
             /\ g.rows[t] = Contents(catalog[t], g.point)
             /\ \A k \in g.point + 1 .. Len(log) : log[k].rel = catalog[t] => log[k].sent
  <2>1. ~ BarrierIn(log, catalog[t], g.point)
    BY <1>3 DEF Barrier, BarrierIn
  <2>2. catalog[t] = slot.catalog[t] /\ catalog[t] # 0 /\ t \in Table
    BY <1>2, <2>1 DEF IInv, SlotInv, Existing
  <2>3. t \in DOMAIN g.plan /\ g.plan[t] = catalog[t]
    BY <1>1, <2>2 DEF Sound, Planned, Existing
  <2>4. g.rows[t] = ContentsIn(log, catalog[t], g.point)
    BY <1>1, <2>1, <2>3 DEF Sound, Copied
  <2>5. catalog[t] \in publication
    BY <1>1, <2>3 DEF Sound, Published
  <2>6. \A k \in g.point + 1 .. Len(log) : log[k].rel = catalog[t] => log[k].sent
    BY <1>2, <2>5 DEF IInv, SlotInv
  <2> QED BY <2>3, <2>4, <2>6 DEF Contents, ContentsIn
<1> QED BY <1>2, <1>3

\* Wherever the job fails and whatever the source does meanwhile, a generation
\* that is active has its slot at its checkpoint, and of every table in scope the
\* rows up to the checkpoint, with every later one in the stream, up to a barrier
\* (prepare_initial_snapshot, SnapshotSlotGuard, ensure_publication).
THEOREM GenerationsBeginExactly == InitialSpec => []SnapshotMeetsStream
<1>1. IInv => SnapshotMeetsStream
  BY SoundMeetsStream
<1> QED BY <1>1, IInvAlways, PTL
=============================================================================
