------------------------------ MODULE Normalize ------------------------------
(***************************************************************************)
(* The row path of one table: the source changes rows, the normalizer folds *)
(* the changes of a batch into at most one staging row per lineage, and the *)
(* apply statements of execute_apply turn the target table from what the    *)
(* source was at the start of the batch into what it is at the end.         *)
(*                                                                          *)
(* A row is its primary key and one further column; a change event may     *)
(* leave that column out when it did not change (UnchangedToast).  A live  *)
(* lineage's key column always equals its current key, so it is not kept   *)
(* twice.                                                                   *)
(***************************************************************************)
EXTENDS Naturals, Sequences

CONSTANTS
  Key,         \* primary keys
  Value,       \* values of the other column
  Toast,       \* Cell::UnchangedToast
  NoRow,       \* the key has no row
  NoKey,       \* Option<Key>::None
  MaxChanges   \* bound: row changes in one batch

ASSUME ValuesAssumption ==
  /\ Toast \notin Value /\ NoRow \notin Value /\ Toast # NoRow
  /\ NoKey \notin Key
  /\ MaxChanges \in Nat

Cell == Value \cup {Toast}
Table == [Key -> Value \cup {NoRow}]

VARIABLES
  table,    \* source: the table now
  target,   \* target: the table as the last committed batch left it
  norm,     \* the Normalizer of the batch
  changes,  \* number of changes pushed into it
  moved,    \* history: a primary key was changed in this batch
  refused   \* push returned AmbiguousSequence; the batch can never be applied

vars == <<table, target, norm, changes, moved, refused>>

-----------------------------------------------------------------------------
(* The normalizer. *)

\* lineages: one entry per row the batch touches; live: current_by_key;
\* origins: origin_by_key (0 when the map has no entry).
EmptyNormalizer ==
  [lineages |-> <<>>, live |-> [k \in Key |-> 0], origins |-> [k \in Key |-> 0]]

Lineage == [origin : Key \cup {NoKey}, current : Key \cup {NoKey}, cells : Cell]

\* new_baseline: a row that existed before the batch, contents unknown.
NewBaseline(n, k, alive) ==
  LET i == Len(n.lineages) + 1 IN
  [lineages |-> Append(n.lineages, [origin |-> k,
                                    current |-> IF alive THEN k ELSE NoKey,
                                    cells |-> Toast]),
   live |-> IF alive THEN [n.live EXCEPT ![k] = i] ELSE n.live,
   origins |-> [n.origins EXCEPT ![k] = i]]

\* insert: revive the dead lineage that started at this key, or start a new one.
Revives(n, k) == n.origins[k] # 0 /\ n.lineages[n.origins[k]].current = NoKey
PushInsert(n, k, v) ==
  LET i == IF Revives(n, k) THEN n.origins[k] ELSE Len(n.lineages) + 1 IN
  [n EXCEPT !.lineages =
              IF Revives(n, k)
              THEN [@ EXCEPT ![i].current = k, ![i].cells = v]
              ELSE Append(@, [origin |-> NoKey, current |-> k, cells |-> v]),
            !.live[k] = i]

\* A change to a key that is not live but was, or is, another lineage's origin.
LostBaseline(n, k) == n.live[k] = 0 /\ n.origins[k] # 0

\* A column that the event leaves out keeps the lineage's value.
Overwrite(stored, incoming) == incoming
MergeCell(stored, incoming) == IF incoming = Toast THEN stored ELSE incoming

\* update: the destination of a primary-key change must not be live, and must
\* not be the batch-start key of another lineage.
TakesOrigin(n, i, k) == FALSE
TakenOrigin(n, i, k) == n.origins[k] # 0 /\ n.origins[k] # i
WithBaseline(n, k, alive) ==
  IF n.live[k] = 0 THEN NewBaseline(n, k, alive) ELSE n
UpdateRefused(n, old, new) ==
  \/ LostBaseline(n, old)
  \/ LET m == WithBaseline(n, old, TRUE) IN
     old # new /\ (m.live[new] # 0 \/ TakenOrigin(m, m.live[old], new))
PushUpdate(n, old, new, cell) ==
  LET m == WithBaseline(n, old, TRUE)
      i == m.live[old]
  IN [m EXCEPT !.lineages[i].current = new,
               !.lineages[i].cells = MergeCell(@, cell),
               !.live = [@ EXCEPT ![old] = 0, ![new] = i]]

\* delete: the lineage is dead; its baseline is recorded when it is new.
PushDelete(n, k) ==
  LET m == WithBaseline(n, k, FALSE)
      i == IF n.live[k] = 0 THEN m.origins[k] ELSE n.live[k]
  IN [m EXCEPT !.lineages[i].current = NoKey, !.live[k] = 0]

\* finish: which lineages leave a staging row ...
Emits(n, i) ==
  LET l == n.lineages[i] IN
  \/ l.current # NoKey
  \/ l.origin # NoKey /\ n.live[l.origin] = 0

\* ... and which one.
StagingRow(n, i) ==
  LET l == n.lineages[i] IN
  IF l.current = NoKey
  THEN [op |-> "D", key |-> l.origin, cell |-> Toast, old |-> NoKey]
  ELSE IF l.origin \in {NoKey, l.current}
  THEN [op |-> "U", key |-> l.current, cell |-> l.cells, old |-> NoKey]
  ELSE [op |-> "M", key |-> l.current, cell |-> l.cells, old |-> l.origin]

\* The staging table: staging rows by lineage.
Staging(n) ==
  [i \in {j \in DOMAIN n.lineages : Emits(n, j)} |-> StagingRow(n, i)]

-----------------------------------------------------------------------------
(* The apply statements of plan_apply, on a target table t and a staging    *)
(* table s.                                                                  *)

\* validation_sql.
ValidBatch(t, s) ==
  /\ \A i \in DOMAIN s :
       /\ s[i].op = "M" => /\ s[i].old # s[i].key
                           /\ (t[s[i].key] = NoRow) # (t[s[i].old] = NoRow)
       /\ s[i].op = "U" /\ t[s[i].key] = NoRow => s[i].cell # Toast
  /\ \A i, j \in DOMAIN s : i # j => s[i].key # s[j].key
  /\ \A i, j \in DOMAIN s : i # j /\ s[i].op = "M" /\ s[j].op = "M" => s[i].old # s[j].old

Rows(s, op) == {s[i] : i \in {j \in DOMAIN s : s[j].op = op}}

\* delete_sql, and delete_moved_sql on the old keys.
DeleteKeys(t, keys) == [k \in Key |-> IF k \in keys THEN NoRow ELSE t[k]]

\* move_sql: copy the old row under its new key; columns that were left out
\* come from the old row.
MoveRows(t, moves) ==
  [k \in Key |->
     IF t[k] = NoRow /\ \E r \in moves : r.key = k /\ t[r.old] # NoRow
     THEN LET r == CHOOSE r \in moves : r.key = k /\ t[r.old] # NoRow
          IN MergeCell(t[r.old], r.cell)
     ELSE t[k]]

\* update_sql and insert_sql; a column left out is NULL in an inserted row.
UpsertRows(t, upserts) ==
  [k \in Key |->
     IF \E r \in upserts : r.key = k
     THEN LET r == CHOOSE r \in upserts : r.key = k
          IN IF t[k] = NoRow THEN r.cell ELSE MergeCell(t[k], r.cell)
     ELSE t[k]]

\* The order of the statements in execute_apply.
ApplyBatch(t, s) ==
  LET deleted == DeleteKeys(t, {r.key : r \in Rows(s, "D")})
      copied == MoveRows(deleted, Rows(s, "M"))
      vacated == DeleteKeys(copied, {r.old : r \in Rows(s, "M")})
  IN UpsertRows(vacated, Rows(s, "U"))

-----------------------------------------------------------------------------
Init ==
  /\ table \in Table /\ target = table
  /\ norm = EmptyNormalizer /\ changes = 0
  /\ moved = FALSE /\ refused = FALSE

Push(n, isMove) ==
  /\ norm' = n /\ refused' = FALSE
  /\ changes' = changes + 1
  /\ moved' = (moved \/ isMove)
  /\ UNCHANGED target

Refuse(isMove) ==
  /\ refused' = TRUE
  /\ changes' = changes + 1
  /\ moved' = (moved \/ isMove)
  /\ UNCHANGED <<target, norm>>

Accepting == ~refused /\ changes < MaxChanges

\* INSERT on the source and Normalizer::insert.
Insert(k, v) ==
  /\ Accepting /\ table[k] = NoRow
  /\ table' = [table EXCEPT ![k] = v]
  /\ IF norm.live[k] # 0 THEN Refuse(FALSE) ELSE Push(PushInsert(norm, k, v), FALSE)

\* UPDATE on the source and Normalizer::update.  The event carries the old key
\* when the key changes, and the value unless it is unchanged.
Update(k, new, v, cell) ==
  /\ Accepting /\ table[k] # NoRow
  /\ new = k \/ table[new] = NoRow
  /\ cell = v \/ (cell = Toast /\ v = table[k])
  /\ table' = [table EXCEPT ![k] = NoRow, ![new] = v]
  /\ IF UpdateRefused(norm, k, new)
     THEN Refuse(new # k)
     ELSE Push(PushUpdate(norm, k, new, cell), new # k)

\* DELETE on the source and Normalizer::delete.
Delete(k) ==
  /\ Accepting /\ table[k] # NoRow
  /\ table' = [table EXCEPT ![k] = NoRow]
  /\ IF LostBaseline(norm, k) THEN Refuse(FALSE) ELSE Push(PushDelete(norm, k), FALSE)

\* execute_apply commits the batch and the next one starts.
Apply ==
  /\ ~refused /\ changes > 0
  /\ ValidBatch(target, Staging(norm))
  /\ target' = ApplyBatch(target, Staging(norm))
  /\ norm' = EmptyNormalizer /\ changes' = 0 /\ moved' = FALSE
  /\ UNCHANGED <<table, refused>>

Next ==
  \/ \E k \in Key, v \in Value : Insert(k, v)
  \/ \E k, new \in Key, v \in Value : \E cell \in {v, Toast} : Update(k, new, v, cell)
  \/ \E k \in Key : Delete(k)
  \/ Apply

Spec == Init /\ [][Next]_vars

-----------------------------------------------------------------------------
(* Properties. *)

TypeOK ==
  /\ table \in Table /\ target \in Table
  /\ norm.lineages \in Seq(Lineage) /\ Len(norm.lineages) <= changes
  /\ norm.live \in [Key -> 0..Len(norm.lineages)]
  /\ norm.origins \in [Key -> 0..Len(norm.lineages)]
  /\ changes \in 0..MaxChanges /\ moved \in BOOLEAN /\ refused \in BOOLEAN

\* A batch without changes of a primary key is never refused as ambiguous; a
\* batch that is accepted passes validation_sql, so that it is not rejected
\* after the WAL was consumed, and applying it to the target gives exactly the
\* source's rows, whatever inserts, updates, deletes and moves it folds.
FoldIsExact ==
  IF refused THEN moved
  ELSE ValidBatch(target, Staging(norm)) /\ ApplyBatch(target, Staging(norm)) = table

\* A batch that is applied a second time, to its own result, does no harm: the
\* validation statement rejects it or it leaves every row as it is.
ReplayDoesNoHarm ==
  ~refused /\ ValidBatch(table, Staging(norm)) =>
    ApplyBatch(table, Staging(norm)) = table
=============================================================================
