---------------------------- MODULE TypeEvolution ----------------------------
(***************************************************************************)
(* The enum type behind a column on the target: classify_prerequisite_type, *)
(* plan_enum_evolution and the transaction of begin_snapshot_apply they run *)
(* in, for one type that Tables tables use.                                  *)
(*                                                                          *)
(* A snapshot reads labels and rows of the source at one point.  Tables are *)
(* loaded one after the other, each in a transaction that first brings the  *)
(* type to the labels of the snapshot and then copies the rows.  The target *)
(* is PostgreSQL: a label is added or renamed only if the names allow it,   *)
(* and a label added to an existing type cannot be used before the          *)
(* transaction that added it has committed.                                 *)
(***************************************************************************)
EXTENDS Naturals, Sequences, FiniteSets, FiniteSetsExt, SequencesExt

CONSTANTS
  Label,
  Tables,         \* tables with a column of the type, loaded in this order
  NoType, NoRecord,
  MaxToken,       \* bound: leases
  MaxLabels,      \* bound: labels of the source's type
  MaxStatements,  \* bound: statements on the source's type
  MaxRows         \* bound: rows written on the source

ASSUME TypesAssumption ==
  /\ Label # {} /\ Tables \in Nat \ {0} /\ NoType \notin Seq(Label)
  /\ NoRecord \notin [owner : {"own", "other"}, def : Seq(Label), token : Nat]
  /\ MaxLabels \in Nat /\ MaxToken \in Nat \ {0} /\ MaxStatements \in Nat /\ MaxRows \in Nat

VARIABLES
  hist,    \* source: definitions of the type so far, and what made each
  used,    \* source: labels in the rows of each table
  type,    \* target: the labels of the type in their order, or NoType
  record,  \* target: its row in managed_types, or NoRecord
  token,   \* fencing token of the latest job
  plan,    \* the job's snapshot: position in hist, labels in each table
  loaded,  \* tables the job has loaded
  last,    \* position in hist of the definition the target was brought to
  pc,      \* the job: idle, loading
  why      \* why its last load failed

typeVars == <<hist, used, type, record, token, plan, loaded, last, pc, why>>
source == <<hist, used>>
targetVars == <<type, record, last>>

Definition == {d \in SeqOf(Label, MaxLabels) : d # <<>> /\ IsInjective(d)}
Source == Last(hist).labels
Desired == hist[plan.at].labels

-----------------------------------------------------------------------------
(* The target database's statements. *)

Position(labels, l) == CHOOSE i \in DOMAIN labels : labels[i] = l

CanAlter(labels, a) ==
  CASE a.kind = "before" -> a.label \notin Range(labels) /\ a.before \in Range(labels)
    [] a.kind = "append" -> a.label \notin Range(labels)
    [] a.kind = "rename" -> a.from \in Range(labels) /\ a.label \notin Range(labels)

Altered(labels, a) ==
  CASE a.kind = "before" -> InsertAt(labels, Position(labels, a.before), a.label)
    [] a.kind = "append" -> Append(labels, a.label)
    [] a.kind = "rename" -> ReplaceAt(labels, Position(labels, a.from), a.label)

\* The labels after a list of ALTER TYPE statements, NoType if one fails.
AlterType(labels, alterations) ==
  LET after[i \in 0 .. Len(alterations)] ==
        IF i = 0 THEN labels
        ELSE IF after[i - 1] # NoType /\ CanAlter(after[i - 1], alterations[i])
        THEN Altered(after[i - 1], alterations[i])
        ELSE NoType
  IN after[Len(alterations)]

-----------------------------------------------------------------------------
(* plan_enum_evolution. *)

\* The existing labels occur in the desired ones in their order.
IsLeadingPart(existing, desired) == IsPrefix(existing, desired)
IsSubsequence(existing, desired) ==
  \E at \in [DOMAIN existing -> DOMAIN desired] :
    /\ \A i \in DOMAIN existing : desired[at[i]] = existing[i]
    /\ \A i, j \in DOMAIN existing : i < j => at[i] < at[j]

\* One statement per label that is missing at its position.
AppendsMissing(existing, desired) ==
  LET missing == SelectSeq(desired, LAMBDA l : l \notin Range(existing)) IN
  [i \in DOMAIN missing |-> [kind |-> "append", label |-> missing[i]]]
\* A label that the type has elsewhere is not looked for: plan_enum_evolution
\* refuses it as reordering, and here CanAlter refuses its addition.
AddAt(acc, p, label) ==
  IF p <= Len(acc.current) /\ acc.current[p] = label THEN acc
  ELSE [current |-> InsertAt(acc.current, p, label),
        statements |-> Append(acc.statements,
          IF p <= Len(acc.current)
            THEN [kind |-> "before", label |-> label, before |-> acc.current[p]]
            ELSE [kind |-> "append", label |-> label])]
Additions(existing, desired) ==
  LET upTo[p \in 0 .. Len(desired)] ==
        IF p = 0 THEN [current |-> existing, statements |-> <<>>]
                 ELSE AddAt(upTo[p - 1], p, desired[p])
  IN upTo[Len(desired)].statements

\* Renamed by position, to names the type does not have.
AreRenames(existing, desired) ==
  /\ Len(existing) = Len(desired)
  /\ \A i \in DOMAIN desired :
       desired[i] = existing[i] \/ desired[i] \notin Range(existing)

Renames(existing, desired) ==
  LET upTo[p \in 0 .. Len(desired)] ==
        IF p = 0 THEN <<>>
        ELSE IF existing[p] = desired[p] THEN upTo[p - 1]
        ELSE Append(upTo[p - 1],
                    [kind |-> "rename", from |-> existing[p], label |-> desired[p]])
  IN upTo[Len(desired)]

Plannable(existing, desired) ==
  IsSubsequence(existing, desired) \/ AreRenames(existing, desired)

PlanEnumEvolution(existing, desired) ==
  IF IsSubsequence(existing, desired) THEN Additions(existing, desired)
                                      ELSE Renames(existing, desired)

-----------------------------------------------------------------------------
(* Init: no type yet, a type of somebody else, of another pipeline, or a    *)
(* type whose record is left over.                                           *)

Record(owner, def, tok) == [owner |-> owner, def |-> def, token |-> tok]

TypesInit ==
  /\ \E d \in Definition :
       /\ hist = <<[labels |-> d, kind |-> "create"]>>
       /\ \/ type = NoType /\ record \in {NoRecord, Record("own", d, 0)}
          \/ type = d /\ record \in {NoRecord, Record("other", d, 1)}
  /\ used = [t \in 1 .. Tables |-> {}]
  /\ token = 0 /\ plan = [at |-> 1, rows |-> used] /\ loaded = 0 /\ last = 1
  /\ pc = "idle" /\ why = "none"

Redefine(d, kind) ==
  /\ Len(hist) <= MaxStatements
  /\ hist' = Append(hist, [labels |-> d, kind |-> kind])
  /\ UNCHANGED <<targetVars, token, plan, loaded, pc, why>>

AddValue(l, p) ==
  /\ l \notin Range(Source) /\ p \in 1 .. Len(Source) + 1
  /\ Len(Source) < MaxLabels
  /\ Redefine(InsertAt(Source, p, l), "add") /\ UNCHANGED used

RenameValue(l, m) ==
  /\ l \in Range(Source) /\ m \notin Range(Source)
  /\ Redefine(ReplaceAt(Source, Position(Source, l), m), "rename")
  /\ used' = [t \in DOMAIN used |-> {IF u = l THEN m ELSE u : u \in used[t]}]

\* The type is dropped and created again around a conversion of the columns.
Recreate(d) ==
  /\ d # Source /\ \A t \in DOMAIN used : used[t] \subseteq Range(d)
  /\ Redefine(d, "create") /\ UNCHANGED used

WriteRow(t, l) ==
  /\ l \in Range(Source) \ used[t]
  /\ MapThenSumSet(LAMBDA u : Cardinality(used[u]), DOMAIN used) < MaxRows
  /\ used' = [used EXCEPT ![t] = @ \cup {l}]
  /\ UNCHANGED <<hist, targetVars, token, plan, loaded, pc, why>>

-----------------------------------------------------------------------------
\* A job takes a snapshot for a new set of shadow tables.
Begin ==
  /\ pc = "idle" /\ token < MaxToken
  /\ token' = token + 1 /\ plan' = [at |-> Len(hist), rows |-> used]
  /\ loaded' = 0 /\ pc' = "loading" /\ why' = "none"
  /\ UNCHANGED <<source, targetVars>>

Classify ==
  CASE type = NoType /\ record = NoRecord -> "create"
    [] type # NoType /\ record = NoRecord -> "exists"
    [] type = NoType /\ record # NoRecord -> "missing"
    [] type # NoType /\ record # NoRecord ->
         IF record.owner # "own" THEN "other"
         ELSE IF record.token > token THEN "newer"
         ELSE IF record.def # Desired THEN "reconcile" ELSE "reuse"

\* A load fails and its transaction with it; the job ends.
FailLoad(reason) ==
  /\ pc' = "idle" /\ why' = reason
  /\ UNCHANGED <<source, targetVars, token, plan, loaded>>

\* The row of managed_types after the statement.
ManagedRow == Record("own", Desired, token)

\* The table's COPY into the shadow, with the labels of its rows.
CopyAndCommit(labels, added) ==
  IF plan.rows[loaded + 1] \cap added # {} THEN FailLoad("unsafe")
  ELSE /\ type' = labels /\ record' = ManagedRow /\ last' = plan.at
       /\ loaded' = loaded + 1
       /\ pc' = IF loaded + 1 = Tables THEN "idle" ELSE "loading"
       /\ UNCHANGED <<source, token, plan, why>>

EnsureType ==
  LET alterations == PlanEnumEvolution(type, Desired) IN
  CASE Classify = "create" -> CopyAndCommit(Desired, {})
    [] Classify = "reuse" -> CopyAndCommit(type, {})
    [] Classify = "reconcile" ->
         IF ~Plannable(type, Desired) THEN FailLoad("unsupported")
         ELSE IF AlterType(type, alterations) = NoType THEN FailLoad("alter")
         ELSE CopyAndCommit(AlterType(type, alterations),
                IF IsSubsequence(type, Desired) THEN Range(Desired) \ Range(type) ELSE {})
    [] Classify \in {"exists", "missing", "other", "newer"} -> FailLoad(Classify)

LoadTable == pc = "loading" /\ EnsureType

\* Cancellation or crash between two tables.
Stop ==
  /\ pc = "loading" /\ pc' = "idle"
  /\ UNCHANGED <<source, targetVars, token, plan, loaded, why>>

TypesNext ==
  \/ \E l \in Label, p \in 1 .. MaxLabels : AddValue(l, p)
  \/ \E l, m \in Label : RenameValue(l, m)
  \/ \E d \in Definition : Recreate(d)
  \/ \E t \in 1 .. Tables, l \in Label : WriteRow(t, l)
  \/ Begin \/ LoadTable \/ Stop

TypesSpec == TypesInit /\ [][TypesNext]_typeVars

-----------------------------------------------------------------------------
(* Properties. *)

TypesOK ==
  /\ \A i \in DOMAIN hist : hist[i].labels \in Definition
  /\ used \in [1 .. Tables -> SUBSET Range(Source)]
  /\ type \in Definition \cup {NoType}
  /\ record # NoRecord => record.def \in Definition /\ record.token \in 0 .. MaxToken
  /\ token \in 0 .. MaxToken /\ plan.at \in DOMAIN hist /\ last \in DOMAIN hist
  /\ loaded \in 0 .. Tables /\ pc \in {"idle", "loading"}
  /\ loaded > 0 => record # NoRecord /\ record.token = token

\* Every loaded table has the type of its snapshot: the statements of
\* plan_enum_evolution are all accepted and leave exactly the desired labels in
\* the desired order, whatever definitions earlier jobs left.
PlanReachesSource ==
  /\ why # "alter"
  /\ loaded > 0 => type = Desired

\* plan_enum_evolution gives up only on what its comment names: added labels
\* alone, or one renamed label, since the definition the target has can always
\* be followed.
RefusesOnlyMixedChanges ==
  why = "unsupported" =>
    LET kinds == {hist[i].kind : i \in last + 1 .. plan.at}
    IN "create" \in kinds \/ ("rename" \in kinds /\ plan.at > last + 1)

\* UserTypeDefinition: ADD VALUE changes are applied safely, so a load does not
\* fail because of the labels that were added.
AddedLabelsAreLoaded == why # "unsafe"

\* docs/source-contract.md: a type whose labels were removed or reordered is
\* followed by a rebuild, which loads new shadow tables.  So a load gives up on
\* the labels of plan_enum_evolution only after a rename.
RecreatedTypeIsRebuilt ==
  why = "unsupported" => \E i \in last + 1 .. plan.at : hist[i].kind = "rename"

=============================================================================
