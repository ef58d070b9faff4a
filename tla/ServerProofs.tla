---------------------------- MODULE ServerProofs ----------------------------
(***************************************************************************)
(* Proofs about the modules Control, Auth, Migration and Runtime, for      *)
(* every set of requests, names, prefixes, addresses, processes and        *)
(* pipelines and every bound: every rebuild is audited once, no request is *)
(* let through with a session that has ended, an address cannot guess      *)
(* passwords beyond the limit, migrations that run together leave none     *)
(* out, what a pipeline is reported as is what its task is, a reported     *)
(* checkpoint is durable, and the process exits only when no job is left.  *)
(***************************************************************************)
EXTENDS Auth, Control, Migration, Runtime, SequenceTheorems, FiniteSetTheorems, TLAPS

-----------------------------------------------------------------------------
(* The definitions: the inductive invariant. *)

IsPipeline(p) ==
  /\ p = [name |-> p.name, source |-> p.source, target |-> p.target, desired |-> p.desired,
          gen |-> p.gen]
  /\ p.gen \in Nat \ {0}
IsOperation(op) == op = [pipeline |-> op.pipeline, gen |-> op.gen, state |-> op.state]

RowsInv ==
  /\ \A p \in pipelines : IsPipeline(p)
  /\ \A op \in operations : IsOperation(op)
  /\ reqs = [c \in Client |-> reqs[c]]
  /\ \A c \in Client :
       /\ reqs[c].step = "put" => IsPipeline(reqs[c].row) /\ reqs[c].row.gen = 1
       /\ reqs[c].step = "metrics" => reqs[c] = [step |-> "metrics", lists |-> reqs[c].lists]

\* What the unique constraints and the one statement of a rebuild keep.
UniqueInv ==
  /\ \A p, q \in pipelines :
       p.name = q.name \/ (p.source = q.source /\ p.target = q.target) => p = q
  /\ \A o, u \in operations : o.pipeline = u.pipeline /\ o.gen = u.gen => o = u

ControlInv == RowsInv /\ UniqueInv /\ EveryRebuildIsAudited

\* EveryRebuildIsAudited, as functions of the tables.
Keys(ops) == {[pipeline |-> op.pipeline, gen |-> op.gen] : op \in ops}
Generations(ps) == UNION {{[pipeline |-> p.name, gen |-> g] : g \in 2 .. p.gen} : p \in ps}
Completed(ops) == {op \in ops : op.state = "completed"}
Entries(ops) ==
  {Entry("requested", op) : op \in ops} \cup {Entry("completed", op) : op \in Completed(ops)}

LEMMA AuditUnfolded ==
  EveryRebuildIsAudited <=>
    Keys(operations) = Generations(pipelines) /\ audit = SetToBag(Entries(operations))
BY DEF EveryRebuildIsAudited, Keys, Generations, Entries, Completed

\* Entries that were not there are added as a set.
LEMMA BagOfUnion ==
  ASSUME NEW A, NEW B, A \cap B = {}
  PROVE  SetToBag(A) (+) SetToBag(B) = SetToBag(A \cup B)
BY DEF SetToBag, (+)

\* A generation belongs to a pipeline of its name.
LEMMA GenerationsOf ==
  ASSUME NEW ps, NEW name, NEW g
  PROVE  [pipeline |-> name, gen |-> g] \in Generations(ps)
           <=> \E p \in ps : p.name = name /\ g \in 2 .. p.gen
<1>1. ASSUME NEW p \in ps, NEW h \in 2 .. p.gen,
             [pipeline |-> name, gen |-> g] = [pipeline |-> p.name, gen |-> h]
      PROVE  p.name = name /\ g = h
  BY <1>1
<1>2. [pipeline |-> name, gen |-> g] \in Generations(ps)
        <=> \E p \in ps : \E h \in 2 .. p.gen :
              [pipeline |-> name, gen |-> g] = [pipeline |-> p.name, gen |-> h]
  <2> DEFINE Of(p) == {[pipeline |-> p.name, gen |-> h] : h \in 2 .. p.gen}
  <2>1. \A p : [pipeline |-> name, gen |-> g] \in Of(p)
          <=> \E h \in 2 .. p.gen :
                [pipeline |-> name, gen |-> g] = [pipeline |-> p.name, gen |-> h]
    OBVIOUS
  <2>2. Generations(ps) = UNION {Of(p) : p \in ps}
    BY DEF Generations
  <2> HIDE DEF Of
  <2> QED BY <2>1, <2>2
<1> QED BY <1>1, <1>2

LEMMA KeysOf ==
  ASSUME NEW ops, NEW name, NEW g
  PROVE  [pipeline |-> name, gen |-> g] \in Keys(ops)
           <=> \E op \in ops : op.pipeline = name /\ op.gen = g
<1>1. ASSUME NEW op \in ops,
             [pipeline |-> name, gen |-> g] = [pipeline |-> op.pipeline, gen |-> op.gen]
      PROVE  op.pipeline = name /\ op.gen = g
  BY <1>1
<1> QED BY <1>1 DEF Keys

LEMMA EntriesOf ==
  ASSUME NEW ops, NEW action, NEW name, NEW g
  PROVE  [action |-> action, pipeline |-> name, gen |-> g] \in Entries(ops)
           <=> \E op \in ops :
                 /\ op.pipeline = name /\ op.gen = g
                 /\ action = "requested" \/ (action = "completed" /\ op.state = "completed")
<1>1. ASSUME NEW op \in ops, NEW a \in {"requested", "completed"},
             [action |-> action, pipeline |-> name, gen |-> g]
               = [action |-> a, pipeline |-> op.pipeline, gen |-> op.gen]
      PROVE  op.pipeline = name /\ op.gen = g /\ action = a
  BY <1>1
<1> QED BY <1>1 DEF Entries, Entry, Completed

-----------------------------------------------------------------------------
(* The steps. *)

LEMMA InitControl ==
  ASSUME ControlInit
  PROVE  ControlInv
<1>1. RowsInv
  BY DEF ControlInit, RowsInv, NoRequest
<1>2. UniqueInv
  BY DEF ControlInit, UniqueInv
<1>3. EveryRebuildIsAudited
  <2>1. Keys(operations) = {} /\ Generations(pipelines) = {} /\ Entries(operations) = {}
    BY DEF ControlInit, Keys, Generations, Entries, Completed
  <2>2. audit = SetToBag({})
    BY DEF ControlInit, EmptyBag, SetToBag
  <2> QED BY <2>1, <2>2, AuditUnfolded
<1> QED BY <1>1, <1>2, <1>3 DEF ControlInv

\* Requests come and go without touching a table.
LEMMA RequestSteps ==
  ASSUME ControlInv, UNCHANGED <<rowVars, opVars>>, NEW c \in Client, NEW r, Waits(c, r),
         r.step = "put" => IsPipeline(r.row) /\ r.row.gen = 1,
         r.step = "metrics" => r = [step |-> "metrics", lists |-> r.lists]
  PROVE  ControlInv'
<1>1. RowsInv'
  BY DEF ControlInv, RowsInv, Waits, rowVars, opVars
<1>2. UniqueInv'
  BY DEF ControlInv, UniqueInv, rowVars, opVars
<1>3. EveryRebuildIsAudited'
  BY DEF ControlInv, EveryRebuildIsAudited, rowVars, opVars
<1> QED BY <1>1, <1>2, <1>3 DEF ControlInv

LEMMA SourceSteps ==
  ASSUME ControlInv, NEW row \in SourceRow, CreateSource(row)
  PROVE  ControlInv'
<1>1. /\ sources' = sources \cup {row} /\ UNCHANGED <<pipelines, operations, audit, reqs>>
  BY DEF CreateSource, PutSource, opVars
<1>2. RowsInv' /\ UniqueInv'
  BY <1>1 DEF ControlInv, RowsInv, UniqueInv
<1>3. EveryRebuildIsAudited'
  BY <1>1 DEF ControlInv, EveryRebuildIsAudited
<1> QED BY <1>2, <1>3 DEF ControlInv

LEMMA TargetSteps ==
  ASSUME ControlInv, NEW row \in TargetRow, CreateTarget(row)
  PROVE  ControlInv'
<1>1. UNCHANGED <<sources, pipelines, operations, audit, reqs>>
  BY DEF CreateTarget, opVars
<1> QED BY <1>1 DEF ControlInv, RowsInv, UniqueInv, EveryRebuildIsAudited

\* Two requests may have checked the same row; the second one is refused.
LEMMA PutPipelineStep ==
  ASSUME ControlInv, NEW c \in Client, PutPipeline(c)
  PROVE  ControlInv'
<1>1. PICK row : row = reqs[c].row /\ IsPipeline(row) /\ row.gen = 1
  BY DEF PutPipeline, ControlInv, RowsInv
<1>2. /\ UNCHANGED <<sources, operations, audit>> /\ PutRow(row) /\ Waits(c, NoRequest)
  BY <1>1 DEF PutPipeline, opVars
<1>3. /\ reqs' = [d \in Client |-> reqs'[d]]
      /\ \A d \in Client : reqs'[d] = reqs[d] \/ reqs'[d].step = "none"
  BY <1>2 DEF Waits, NoRequest, ControlInv, RowsInv
<1>4. CASE PipelineClash(row)
  <2>1. UNCHANGED pipelines
    BY <1>2, <1>4 DEF PutRow
  <2> QED BY <1>2, <1>3, <2>1 DEF ControlInv, RowsInv, UniqueInv, EveryRebuildIsAudited
<1>5. CASE ~ PipelineClash(row)
  <2>1. /\ pipelines' = pipelines \cup {row}
        /\ \A p \in pipelines : p.name # row.name /\ ~(p.source = row.source /\ p.target = row.target)
    BY <1>2, <1>5 DEF PutRow, PipelineClash, Clash
  <2>3. RowsInv' /\ UniqueInv'
    BY <1>1, <1>2, <1>3, <2>1 DEF ControlInv, RowsInv, UniqueInv
  <2>4. Generations(pipelines') = Generations(pipelines)
    <3>1. {[pipeline |-> row.name, gen |-> g] : g \in 2 .. row.gen} = {}
      BY <1>1
    <3> QED BY <2>1, <3>1 DEF Generations
  <2>5. EveryRebuildIsAudited'
    BY <1>2, <2>4 DEF ControlInv, EveryRebuildIsAudited, Generations
  <2> QED BY <2>3, <2>5 DEF ControlInv
<1> QED BY <1>4, <1>5

\* A row is updated in place: its name, source and target stay.
LEMMA RowUpdated ==
  ASSUME ControlInv, NEW p \in pipelines, NEW q, IsPipeline(q), Replace(p, q),
         q.name = p.name, q.source = p.source, q.target = p.target
  PROVE  /\ \A r \in pipelines' : IsPipeline(r)
         /\ \A r, s \in pipelines' :
              r.name = s.name \/ (r.source = s.source /\ r.target = s.target) => r = s
         /\ \A name, g :
              [pipeline |-> name, gen |-> g] \in Generations(pipelines') <=>
                IF name = p.name THEN g \in 2 .. q.gen
                ELSE [pipeline |-> name, gen |-> g] \in Generations(pipelines)
<1>1. pipelines' = (pipelines \ {p}) \cup {q} /\ \A r \in pipelines : IsPipeline(r)
  BY DEF Replace, ControlInv, RowsInv
<1>2. \A r \in pipelines \ {p} :
        r.name # q.name /\ ~(r.source = q.source /\ r.target = q.target)
  BY DEF ControlInv, UniqueInv
<1>3. \A r, s \in pipelines' :
        r.name = s.name \/ (r.source = s.source /\ r.target = s.target) => r = s
  BY <1>1, <1>2 DEF ControlInv, UniqueInv
<1>4. ASSUME NEW name, NEW g
      PROVE  [pipeline |-> name, gen |-> g] \in Generations(pipelines') <=>
               IF name = p.name THEN g \in 2 .. q.gen
               ELSE [pipeline |-> name, gen |-> g] \in Generations(pipelines)
  <2>1. /\ [pipeline |-> name, gen |-> g] \in Generations(pipelines')
             <=> \E r \in pipelines' : r.name = name /\ g \in 2 .. r.gen
        /\ [pipeline |-> name, gen |-> g] \in Generations(pipelines)
             <=> \E r \in pipelines : r.name = name /\ g \in 2 .. r.gen
    BY GenerationsOf
  <2> QED BY <1>1, <1>2, <2>1
<1> QED BY <1>1, <1>3, <1>4

LEMMA SetDesiredStep ==
  ASSUME ControlInv, NEW p \in pipelines, NEW desired \in BOOLEAN, SetDesired(p, desired)
  PROVE  ControlInv'
<1>1. IsPipeline(p)
  BY DEF ControlInv, RowsInv
<1>2. PICK q :
        /\ IsPipeline(q) /\ Replace(p, q) /\ q.name = p.name /\ q.source = p.source /\ q.target = p.target
        /\ q.gen = p.gen
  BY <1>1 DEF SetDesired, IsPipeline
<1>3. UNCHANGED <<sources, operations, audit, reqs>>
  BY DEF SetDesired, opVars
<1>4. RowsInv' /\ UniqueInv'
  BY <1>2, <1>3, RowUpdated DEF ControlInv, RowsInv, UniqueInv
<1>5. Generations(pipelines') = Generations(pipelines)
  <2>1. pipelines' = (pipelines \ {p}) \cup {q}
    BY <1>2 DEF Replace
  <2>2. {[pipeline |-> q.name, gen |-> g] : g \in 2 .. q.gen}
          = {[pipeline |-> p.name, gen |-> g] : g \in 2 .. p.gen}
    BY <1>2
  <2> QED BY <2>1, <2>2 DEF Generations
<1>6. EveryRebuildIsAudited'
  BY <1>3, <1>5 DEF ControlInv, EveryRebuildIsAudited, Generations
<1> QED BY <1>4, <1>6 DEF ControlInv

\* The operation and its entry are new, because the generation is.
LEMMA RequestRebuildStep ==
  ASSUME ControlInv, NEW p \in pipelines, RequestRebuild(p)
  PROVE  ControlInv'
<1>1. IsPipeline(p)
  BY DEF ControlInv, RowsInv
<1>2. PICK q :
        /\ IsPipeline(q) /\ q = [p EXCEPT !.gen = p.gen + 1]
        /\ q.name = p.name /\ q.source = p.source /\ q.target = p.target
        /\ q.gen = p.gen + 1
  <2>1. [p EXCEPT !.gen = p.gen + 1]
          = [name |-> p.name, source |-> p.source, target |-> p.target, desired |-> p.desired,
             gen |-> p.gen + 1]
    BY <1>1 DEF IsPipeline
  <2>2. p.gen + 1 \in Nat \ {0}
    BY <1>1 DEF IsPipeline
  <2> DEFINE q == [p EXCEPT !.gen = p.gen + 1]
  <2>3. IsPipeline(q)
    BY <2>1, <2>2 DEF IsPipeline
  <2> QED BY <2>1, <2>3
<1>3. PICK o :
        /\ IsOperation(o) /\ o = Operation(q, "requested")
        /\ o.pipeline = p.name /\ o.gen = p.gen + 1 /\ o.state = "requested"
  <2> DEFINE o == Operation(q, "requested")
  <2>1. o = [pipeline |-> p.name, gen |-> p.gen + 1, state |-> "requested"]
    BY <1>2 DEF Operation
  <2>2. IsOperation(o)
    BY <2>1 DEF IsOperation
  <2> HIDE DEF o
  <2>3. o.pipeline = p.name /\ o.gen = p.gen + 1 /\ o.state = "requested"
    BY <2>1
  <2> QED BY <2>2, <2>3 DEF o
<1>4. /\ Replace(p, q) /\ operations' = operations \cup {o}
      /\ audit' = audit (+) SetToBag({Entry("requested", o)})
      /\ UNCHANGED <<sources, reqs>>
  BY <1>2, <1>3 DEF RequestRebuild
<1>5. /\ Keys(operations) = Generations(pipelines) /\ audit = SetToBag(Entries(operations))
  BY AuditUnfolded DEF ControlInv
<1>6. \A op \in operations : ~(op.pipeline = o.pipeline /\ op.gen = o.gen)
  <2> SUFFICES ASSUME NEW op \in operations, op.pipeline = o.pipeline, op.gen = o.gen PROVE FALSE
    OBVIOUS
  <2>1. [pipeline |-> o.pipeline, gen |-> o.gen] \in Generations(pipelines)
    BY <1>5, KeysOf
  <2>2. PICK r \in pipelines : r.name = p.name /\ p.gen + 1 \in 2 .. r.gen
    BY <1>3, <2>1, GenerationsOf
  <2>3. r = p
    BY <2>2 DEF ControlInv, UniqueInv
  <2> QED BY <1>1, <2>2, <2>3 DEF IsPipeline
<1>7. RowsInv' /\ UniqueInv'
  <2>1. /\ \A r \in pipelines' : IsPipeline(r)
        /\ \A r, s \in pipelines' :
             r.name = s.name \/ (r.source = s.source /\ r.target = s.target) => r = s
    BY <1>2, <1>4, RowUpdated
  <2>2. RowsInv'
    BY <1>3, <1>4, <2>1 DEF ControlInv, RowsInv
  <2>3. \A u, v \in operations' : u.pipeline = v.pipeline /\ u.gen = v.gen => u = v
    BY <1>4, <1>6 DEF ControlInv, UniqueInv
  <2>4. UniqueInv'
    BY <1>4, <2>1, <2>3 DEF ControlInv, UniqueInv
  <2> QED BY <2>2, <2>4
<1>8. Keys(operations') = Generations(pipelines')
  <2>1. \A name, g :
          [pipeline |-> name, gen |-> g] \in Keys(operations')
            <=> [pipeline |-> name, gen |-> g] \in Generations(pipelines')
    <3> SUFFICES ASSUME NEW name, NEW g
                 PROVE  [pipeline |-> name, gen |-> g] \in Keys(operations')
                          <=> [pipeline |-> name, gen |-> g] \in Generations(pipelines')
      OBVIOUS
    <3>1. [pipeline |-> name, gen |-> g] \in Keys(operations')
            <=> \E op \in operations' : op.pipeline = name /\ op.gen = g
      BY KeysOf
    <3>2. [pipeline |-> name, gen |-> g] \in Generations(pipelines)
            <=> \E op \in operations : op.pipeline = name /\ op.gen = g
      BY <1>5, KeysOf
    <3>3. [pipeline |-> name, gen |-> g] \in Generations(pipelines') <=>
            IF name = p.name THEN g \in 2 .. q.gen
            ELSE [pipeline |-> name, gen |-> g] \in Generations(pipelines)
      BY <1>2, <1>4, RowUpdated
    <3>4. name = p.name =>
            ([pipeline |-> name, gen |-> g] \in Generations(pipelines) <=> g \in 2 .. p.gen)
      BY GenerationsOf DEF ControlInv, UniqueInv
    <3>5. g \in 2 .. q.gen <=> g \in 2 .. p.gen \/ g = p.gen + 1
      BY <1>1, <1>2 DEF IsPipeline
    <3> QED BY <1>3, <1>4, <3>1, <3>2, <3>3, <3>4, <3>5
  <2>2. \A x \in Keys(operations') : x = [pipeline |-> x.pipeline, gen |-> x.gen]
    BY DEF Keys
  <2>3. \A x \in Generations(pipelines') : x = [pipeline |-> x.pipeline, gen |-> x.gen]
    BY DEF Generations
  <2> QED BY <2>1, <2>2, <2>3
<1>9. audit' = SetToBag(Entries(operations'))
  <2>1. Entry("requested", o) \notin Entries(operations)
    BY <1>6, EntriesOf DEF Entry
  <2>2. Entries(operations') = Entries(operations) \cup {Entry("requested", o)}
    <3>1. Completed(operations') = Completed(operations)
      BY <1>3, <1>4 DEF Completed
    <3> QED BY <1>4, <3>1 DEF Entries
  <2>3. Entries(operations) \cap {Entry("requested", o)} = {}
    BY <2>1
  <2> QED BY <1>4, <1>5, <2>2, <2>3, BagOfUnion
<1>10. EveryRebuildIsAudited'
  BY <1>8, <1>9 DEF EveryRebuildIsAudited, Keys, Generations, Entries, Completed
<1> QED BY <1>7, <1>10 DEF ControlInv

\* Operations are completed once, whichever job reports them first.
LEMMA CompleteRebuildsStep ==
  ASSUME ControlInv, NEW p \in pipelines, NEW gen \in 1 .. p.gen, CompleteRebuilds(p, gen)
  PROVE  ControlInv'
<1> DEFINE ops == Completes(p, gen)
           done(op) == [pipeline |-> op.pipeline, gen |-> op.gen, state |-> "completed"]
<1>1. /\ ops \subseteq operations /\ \A op \in operations : IsOperation(op)
      /\ \A op \in ops : op.state = "requested"
  BY DEF Completes, ControlInv, RowsInv
<1>2. \A op \in ops : [op EXCEPT !.state = "completed"] = done(op)
  BY <1>1 DEF IsOperation
<1>3. /\ operations' = (operations \ ops) \cup {done(op) : op \in ops}
      /\ audit' = audit (+) SetToBag({Entry("completed", op) : op \in ops})
      /\ UNCHANGED <<sources, pipelines, reqs>>
  <2> DEFINE updated(op) == [op EXCEPT !.state = "completed"]
  <2>1. {updated(op) : op \in ops} = {done(op) : op \in ops}
    <3>1. \A op \in ops : updated(op) = done(op)
      BY <1>2
    <3> HIDE DEF updated, done, ops
    <3> QED BY <3>1
  <2> QED BY <2>1 DEF CompleteRebuilds, rowVars
<1>4. /\ Keys(operations) = Generations(pipelines) /\ audit = SetToBag(Entries(operations))
  BY AuditUnfolded DEF ControlInv
<1> HIDE DEF ops
<1>5. RowsInv'
  BY <1>1, <1>3 DEF ControlInv, RowsInv, IsOperation
<1>6. UniqueInv'
  BY <1>1, <1>3 DEF ControlInv, UniqueInv
<1>7. /\ \A op \in operations' : \E o \in operations : o.pipeline = op.pipeline /\ o.gen = op.gen
      /\ \A o \in operations : \E op \in operations' : o.pipeline = op.pipeline /\ o.gen = op.gen
  <2>1. \A op \in operations' : \E o \in operations : o.pipeline = op.pipeline /\ o.gen = op.gen
    BY <1>1, <1>3
  <2>2. \A o \in operations : \E op \in operations' : o.pipeline = op.pipeline /\ o.gen = op.gen
    <3> SUFFICES ASSUME NEW o \in operations
                 PROVE  \E op \in operations' : o.pipeline = op.pipeline /\ o.gen = op.gen
      OBVIOUS
    <3>1. CASE o \in ops
      <4>1. done(o) \in operations' /\ done(o).pipeline = o.pipeline /\ done(o).gen = o.gen
        BY <1>3, <3>1
      <4> QED BY <4>1
    <3> QED BY <1>3, <3>1
  <2> QED BY <2>1, <2>2
<1>8. Entries(operations') = Entries(operations) \cup {Entry("completed", op) : op \in ops}
  <2>1. {Entry("requested", op) : op \in operations'} = {Entry("requested", op) : op \in operations}
    BY <1>7 DEF Entry
  <2>2. Completed(operations') = Completed(operations) \cup {done(op) : op \in ops}
    BY <1>1, <1>3 DEF Completed
  <2>3. {Entry("completed", op) : op \in Completed(operations')}
          = {Entry("completed", op) : op \in Completed(operations)}
            \cup {Entry("completed", op) : op \in ops}
    <3>1. \A op : Entry("completed", done(op)) = Entry("completed", op)
      BY DEF Entry
    <3> HIDE DEF done
    <3>2. {Entry("completed", op) : op \in {done(op) : op \in ops}}
            = {Entry("completed", op) : op \in ops}
      BY <3>1
    <3>3. {Entry("completed", op) : op \in Completed(operations')}
            = {Entry("completed", op) : op \in Completed(operations)}
              \cup {Entry("completed", op) : op \in {done(op) : op \in ops}}
      BY <2>2
    <3> QED BY <3>2, <3>3
  <2> QED BY <2>1, <2>3 DEF Entries
<1>9. Entries(operations) \cap {Entry("completed", op) : op \in ops} = {}
  <2> SUFFICES ASSUME NEW op \in ops, Entry("completed", op) \in Entries(operations) PROVE FALSE
    OBVIOUS
  <2>1. PICK o \in operations : o.pipeline = op.pipeline /\ o.gen = op.gen /\ o.state = "completed"
    BY EntriesOf DEF Entry
  <2> QED BY <1>1, <2>1 DEF ControlInv, UniqueInv
<1>10. audit' = SetToBag(Entries(operations'))
  BY <1>3, <1>4, <1>8, <1>9, BagOfUnion
<1>11. EveryRebuildIsAudited'
  <2>1. Keys(operations') = Keys(operations)
    BY <1>7 DEF Keys
  <2> QED
    BY <1>3, <1>4, <1>10, <2>1 DEF EveryRebuildIsAudited, Keys, Generations, Entries, Completed
<1> QED BY <1>5, <1>6, <1>11 DEF ControlInv

\* The definitions' invariant holds in every state that ControlSpec can reach.
THEOREM ControlInvAlways == ControlSpec => []ControlInv
<1>1. ControlInit => ControlInv
  BY InitControl
<1>2. ControlInv /\ [ControlNext]_controlVars => ControlInv'
  <2> SUFFICES ASSUME ControlInv, [ControlNext]_controlVars PROVE ControlInv'
    OBVIOUS
  <2>1. CASE UNCHANGED controlVars
    BY <2>1 DEF controlVars, rowVars, opVars, ControlInv, RowsInv, UniqueInv, EveryRebuildIsAudited
  <2>2. ASSUME NEW c \in Client, NEW row \in NewPipeline, CheckPipeline(c, row) PROVE ControlInv'
    <3>1. IsPipeline(row) /\ row.gen = 1
      BY DEF NewPipeline, IsPipeline
    <3> QED BY <2>2, <3>1, RequestSteps DEF CheckPipeline
  <2>3. ASSUME NEW c \in Client, TestTimeout(c) \/ Ended(c) PROVE ControlInv'
    BY <2>3, RequestSteps DEF TestTimeout, Ended, NoRequest
  <2>4. ASSUME NEW c \in Client, Scrape(c) \/ TestConnection(c) PROVE ControlInv'
    BY <2>4, RequestSteps DEF Scrape, TestConnection
  <2>5. ASSUME NEW c \in Client, ListAnswered(c) PROVE ControlInv'
    <3>1. CASE Waits(c, NoRequest)
      BY <2>5, <3>1, RequestSteps DEF ListAnswered, NoRequest
    <3>2. CASE Waits(c, [reqs[c] EXCEPT !.lists = @ - 1])
      <4>1. reqs[c] = [step |-> "metrics", lists |-> reqs[c].lists]
        BY <2>5 DEF ListAnswered, ControlInv, RowsInv
      <4>2. PICK n : Waits(c, [step |-> "metrics", lists |-> n])
        <5>1. [reqs[c] EXCEPT !.lists = @ - 1] = [step |-> "metrics", lists |-> reqs[c].lists - 1]
          BY <4>1
        <5> QED BY <3>2, <5>1
      <4> QED BY <2>5, <4>2, RequestSteps DEF ListAnswered
    <3> QED BY <2>5, <3>1, <3>2 DEF ListAnswered
  <2> QED
    BY <2>1, <2>2, <2>3, <2>4, <2>5, SourceSteps, TargetSteps, PutPipelineStep, SetDesiredStep,
       RequestRebuildStep, CompleteRebuildsStep
    DEF ControlNext
<1> QED BY <1>1, <1>2, PTL DEF ControlSpec

\* Every generation after the first has its operation, and every operation its
\* audit entries, each once, whoever asks and reports (request_pipeline_rebuild
\* and complete_pipeline_rebuilds).
THEOREM RebuildsAreAudited == ControlSpec => []EveryRebuildIsAudited
<1>1. ControlInv => EveryRebuildIsAudited
  BY DEF ControlInv
<1> QED BY <1>1, ControlInvAlways, PTL

-----------------------------------------------------------------------------
(* Sessions. *)

\* A call holds only tokens that were issued, and times of the clock.
SoundCall(call, issued) ==
  /\ call.step \in {"authenticate", "handler"} => call.token \in issued
  /\ call.step = "authenticate" => call.now \in Nat
  /\ call.step = "create" => call.since \in Nat

\* A live token has the expiry it was issued with and was not logged out.
SessionInv ==
  /\ clock \in Nat /\ ends \in Seq(Nat)
  /\ DOMAIN sessions \subseteq DOMAIN ends
  /\ \A t \in DOMAIN sessions : sessions[t] = ends[t]
  /\ loggedOut \subseteq DOMAIN ends /\ DOMAIN sessions \cap loggedOut = {}
  /\ calls = [c \in Caller |-> calls[c]]
  /\ \A c \in Caller : SoundCall(calls[c], DOMAIN ends)

\* The sessions that retain keeps are live and keep their expiry.
LEMMA KeptSessions ==
  ASSUME NEW now
  PROVE  /\ DOMAIN Unexpired(now) \subseteq DOMAIN sessions
         /\ \A t \in DOMAIN Unexpired(now) :
              Unexpired(now)[t] = sessions[t] /\ sessions[t] > now
BY DEF Unexpired, Keep

LEMMA InitSessions ==
  ASSUME AuthInit
  PROVE  SessionInv
BY DEF AuthInit, SessionInv, SoundCall, Idle

\* A caller goes on, and the others stay where they are.
LEMMA CallMoves ==
  ASSUME SessionInv, NEW c \in Caller, NEW call, Goes(c, call),
         NEW issued, DOMAIN ends \subseteq issued, SoundCall(call, issued)
  PROVE  /\ calls' = [d \in Caller |-> calls'[d]]
         /\ \A d \in Caller : SoundCall(calls'[d], issued)
         /\ calls'[c] = call /\ \A d \in Caller \ {c} : calls'[d] = calls[d]
<1>1. /\ calls' = [d \in Caller |-> calls'[d]]
      /\ calls'[c] = call /\ \A d \in Caller \ {c} : calls'[d] = calls[d]
  BY DEF SessionInv, Goes
<1>2. \A d \in Caller : SoundCall(calls[d], issued)
  BY DEF SessionInv, SoundCall
<1> QED BY <1>1, <1>2

\* A call without token and time.
LEMMA IdleIsSound ==
  ASSUME NEW issued
  PROVE  SoundCall(Idle, issued)
BY DEF SoundCall, Idle

\* A new token is none that was issued before.
LEMMA CreateSessionStep ==
  ASSUME SessionInv, NEW c \in Caller, CreateSession(c)
  PROVE  SessionInv'
<1>1. UNCHANGED <<clock, loggedOut>> /\ Goes(c, Idle)
  BY DEF CreateSession
<1>2. PICK made \in calls[c].since .. clock, now \in calls[c].since .. clock :
        /\ ends' = Append(ends, made + SessionTtl)
        /\ \E kept \in IF Cardinality(DOMAIN Unexpired(now)) >= MaxSessions
                         THEN {Without(Unexpired(now), t) : t \in DOMAIN Unexpired(now)}
                         ELSE {Unexpired(now)} :
             sessions' = With(kept, Len(ends) + 1, made + SessionTtl)
  BY DEF CreateSession
<1>3. PICK kept : /\ DOMAIN kept \subseteq DOMAIN sessions
                  /\ \A t \in DOMAIN kept : kept[t] = sessions[t]
                  /\ sessions' = With(kept, Len(ends) + 1, made + SessionTtl)
  <2>1. ASSUME NEW u
        PROVE  /\ DOMAIN Without(Unexpired(now), u) \subseteq DOMAIN Unexpired(now)
               /\ \A t \in DOMAIN Without(Unexpired(now), u) :
                    Without(Unexpired(now), u)[t] = Unexpired(now)[t]
    BY DEF Without, Keep
  <2>2. PICK kept : /\ kept = Unexpired(now) \/ \E u : kept = Without(Unexpired(now), u)
                    /\ sessions' = With(kept, Len(ends) + 1, made + SessionTtl)
    BY <1>2
  <2>3. /\ DOMAIN kept \subseteq DOMAIN Unexpired(now)
        /\ \A t \in DOMAIN kept : kept[t] = Unexpired(now)[t]
    BY <2>1, <2>2
  <2> QED BY <2>2, <2>3, KeptSessions
<1>4. made + SessionTtl \in Nat /\ ends \in Seq(Nat) /\ Len(ends) \in Nat
  <2>1. calls[c].since \in Nat /\ clock \in Nat
    BY DEF SessionInv, SoundCall, CreateSession
  <2> QED BY <2>1, TtlAssumption DEF SessionInv
<1>5. /\ ends' \in Seq(Nat) /\ DOMAIN ends' = DOMAIN ends \cup {Len(ends) + 1}
      /\ ends'[Len(ends) + 1] = made + SessionTtl /\ Len(ends) + 1 \notin DOMAIN ends
      /\ \A t \in DOMAIN ends : ends'[t] = ends[t]
  BY <1>2, <1>4
<1>6. /\ DOMAIN sessions' = DOMAIN kept \cup {Len(ends) + 1}
      /\ sessions'[Len(ends) + 1] = made + SessionTtl
      /\ \A t \in DOMAIN kept : t # Len(ends) + 1 => sessions'[t] = kept[t]
  BY <1>3 DEF With
<1>7. \A t \in DOMAIN sessions' : t \in DOMAIN ends' /\ sessions'[t] = ends'[t] /\ t \notin loggedOut'
  BY <1>1, <1>3, <1>5, <1>6 DEF SessionInv
<1>8. /\ calls' = [d \in Caller |-> calls'[d]]
      /\ \A d \in Caller : SoundCall(calls'[d], DOMAIN ends')
  BY <1>1, <1>5, CallMoves, IdleIsSound
<1> QED BY <1>1, <1>5, <1>7, <1>8 DEF SessionInv

\* Every other step keeps live tokens, their expiry and the history, or ends one.
LEMMA SessionsShrink ==
  ASSUME SessionInv, UNCHANGED ends, clock' \in Nat,
         DOMAIN sessions' \subseteq DOMAIN sessions,
         \A t \in DOMAIN sessions' : sessions'[t] = sessions[t],
         loggedOut' \subseteq DOMAIN ends, DOMAIN sessions' \cap loggedOut' = {},
         calls' = [d \in Caller |-> calls'[d]],
         \A d \in Caller : SoundCall(calls'[d], DOMAIN ends)
  PROVE  SessionInv'
BY DEF SessionInv

LEMMA RequireSessionStep ==
  ASSUME SessionInv, NEW c \in Caller, NEW reads, NEW csrf, RequireSession(c, reads, csrf)
  PROVE  SessionInv'
<1>1. /\ sessions' = Unexpired(calls[c].now) /\ UNCHANGED <<clock, ends, loggedOut>>
      /\ Goes(c, [step |-> "handler", token |-> calls[c].token]) \/ Goes(c, Idle)
      /\ calls[c].token \in DOMAIN ends
  BY DEF RequireSession, SessionInv, SoundCall
<1>2. SoundCall([step |-> "handler", token |-> calls[c].token], DOMAIN ends)
  BY <1>1 DEF SoundCall
<1>3. /\ calls' = [d \in Caller |-> calls'[d]]
      /\ \A d \in Caller : SoundCall(calls'[d], DOMAIN ends)
  BY <1>1, <1>2, CallMoves, IdleIsSound
<1>4. /\ DOMAIN sessions' \subseteq DOMAIN sessions
      /\ \A u \in DOMAIN sessions' : sessions'[u] = sessions[u]
  BY <1>1, KeptSessions
<1>5. /\ clock' \in Nat /\ loggedOut' \subseteq DOMAIN ends
      /\ DOMAIN sessions' \cap loggedOut' = {}
  BY <1>1, <1>4 DEF SessionInv
<1> QED BY <1>1, <1>3, <1>4, <1>5, SessionsShrink

LEMMA LogoutStep ==
  ASSUME SessionInv, NEW c \in Caller, Logout(c)
  PROVE  SessionInv'
<1>1. /\ calls[c].step = "handler" /\ calls[c].token \in DOMAIN ends
      /\ sessions' = Without(sessions, calls[c].token) /\ UNCHANGED <<clock, ends>>
      /\ loggedOut' = loggedOut \cup {calls[c].token} /\ Goes(c, Idle)
  BY DEF Logout, SessionInv, SoundCall
<1>2. /\ DOMAIN sessions' = DOMAIN sessions \ {calls[c].token}
      /\ \A u \in DOMAIN sessions' : sessions'[u] = sessions[u]
  BY <1>1 DEF Without, Keep
<1>3. /\ clock' \in Nat /\ loggedOut' \subseteq DOMAIN ends
      /\ DOMAIN sessions' \cap loggedOut' = {}
  BY <1>1, <1>2 DEF SessionInv
<1>4. /\ calls' = [d \in Caller |-> calls'[d]]
      /\ \A d \in Caller : SoundCall(calls'[d], DOMAIN ends)
  BY <1>1, CallMoves, IdleIsSound
<1> QED BY <1>1, <1>2, <1>3, <1>4, SessionsShrink

\* Steps of logins and of the clock leave tokens alone, and so does a request
\* that starts to wait.
LEMMA OtherAuthSteps ==
  ASSUME SessionInv, UNCHANGED <<sessions, ends, loggedOut>>, clock' \in Nat,
         \/ UNCHANGED calls
         \/ \E c \in Caller : \E call : Goes(c, call) /\ SoundCall(call, DOMAIN ends)
  PROVE  SessionInv'
<1>1. /\ calls' = [d \in Caller |-> calls'[d]]
      /\ \A d \in Caller : SoundCall(calls'[d], DOMAIN ends)
  BY CallMoves DEF SessionInv
<1> QED BY <1>1 DEF SessionInv

LEMMA NextSessions ==
  ASSUME SessionInv, [AuthNext]_authVars
  PROVE  SessionInv'
<1>1. CASE Tick
  BY <1>1, OtherAuthSteps DEF Tick, SessionInv
<1>2. ASSUME NEW c \in Caller, NEW a \in Address, Login(c, a) PROVE SessionInv'
  <2>1. \E call : Goes(c, call) /\ SoundCall(call, DOMAIN ends)
    BY <1>2 DEF Login, SoundCall
  <2> QED BY <1>2, <2>1, OtherAuthSteps DEF Login, SessionInv
<1>3. ASSUME NEW c \in Caller, LoginCheck(c) PROVE SessionInv'
  <2>1. /\ \/ Goes(c, Idle)
           \/ Goes(c, [step |-> "verify", address |-> calls[c].address])
        /\ UNCHANGED <<clock, sessions, ends, loggedOut>>
    BY <1>3 DEF LoginCheck
  <2>2. \E call : Goes(c, call) /\ SoundCall(call, DOMAIN ends)
    BY <2>1 DEF Idle, SoundCall
  <2> QED BY <2>1, <2>2, OtherAuthSteps DEF SessionInv
<1>4. ASSUME NEW c \in Caller, LoginSucceeds(c) PROVE SessionInv'
  <2>1. \E call : Goes(c, call) /\ SoundCall(call, DOMAIN ends)
    BY <1>4 DEF LoginSucceeds, SoundCall, SessionInv
  <2> QED BY <1>4, <2>1, OtherAuthSteps DEF LoginSucceeds, SessionInv
<1>5. ASSUME NEW c \in Caller, LoginFails(c) \/ Ends(c) PROVE SessionInv'
  <2>1. Goes(c, Idle) /\ UNCHANGED <<clock, sessions, ends, loggedOut>>
    BY <1>5 DEF LoginFails, Ends
  <2> QED BY <2>1, IdleIsSound, OtherAuthSteps DEF SessionInv
<1>6. ASSUME NEW c \in Caller, NEW t \in DOMAIN ends, Authenticate(c, t) PROVE SessionInv'
  <2>1. \E call : Goes(c, call) /\ SoundCall(call, DOMAIN ends)
    BY <1>6 DEF Authenticate, SoundCall, SessionInv
  <2> QED BY <1>6, <2>1, OtherAuthSteps DEF Authenticate, SessionInv
<1>7. CASE UNCHANGED authVars
  BY <1>7, OtherAuthSteps DEF authVars, SessionInv
<1> QED
  BY <1>1, <1>2, <1>3, <1>4, <1>5, <1>6, <1>7, CreateSessionStep, RequireSessionStep, LogoutStep
  DEF AuthNext

\* The sessions' invariant holds in every state that AuthSpec can reach.
THEOREM SessionInvAlways == AuthSpec => []SessionInv
<1>1. AuthInit => SessionInv
  BY InitSessions
<1>2. SessionInv /\ [AuthNext]_authVars => SessionInv'
  BY NextSessions
<1> QED BY <1>1, <1>2, PTL DEF AuthSpec

\* Only require_session lets a request pass, and only with a live token.
LEMMA AdmittedByMiddleware ==
  ASSUME SessionInv, AuthNext, NEW c \in Caller,
         calls[c].step # "handler", calls'[c].step = "handler"
  PROVE  calls'[c].token \notin loggedOut /\ calls[c].now < ends[calls'[c].token]
<1>1. ASSUME NEW d \in Caller, NEW call, Goes(d, call), call.step # "handler" PROVE FALSE
  BY <1>1 DEF SessionInv, Goes
<1>2. ~ UNCHANGED calls
  OBVIOUS
<1>3. ASSUME NEW d \in Caller, NEW a \in Address, Login(d, a) PROVE FALSE
  <2>1. \E call : Goes(d, call) /\ call.step # "handler"
    BY <1>3 DEF Login
  <2> QED BY <1>1, <2>1
<1>4. ASSUME NEW d \in Caller, NEW t, Authenticate(d, t) PROVE FALSE
  <2>1. \E call : Goes(d, call) /\ call.step # "handler"
    BY <1>4 DEF Authenticate
  <2> QED BY <1>1, <2>1
<1>5. ASSUME NEW d \in Caller,
             LoginCheck(d) \/ LoginFails(d) \/ LoginSucceeds(d) \/ CreateSession(d)
             \/ Logout(d) \/ Ends(d)
      PROVE  FALSE
  <2>1. \E call : Goes(d, call) /\ call.step # "handler"
    BY <1>5 DEF LoginCheck, LoginFails, LoginSucceeds, CreateSession, Logout, Ends, Idle
  <2> QED BY <1>1, <2>1
<1>6. PICK d \in Caller, reads \in BOOLEAN, csrf \in BOOLEAN : RequireSession(d, reads, csrf)
  BY <1>2, <1>3, <1>4, <1>5 DEF AuthNext, Tick
<1>7. PICK t : /\ t = calls[d].token /\ d = c /\ calls'[c].token = t
               /\ t \in DOMAIN Unexpired(calls[d].now)
  <2>1. CASE Admits(calls[d].token, calls[d].now, reads, csrf)
    BY <1>6, <2>1 DEF RequireSession, Goes, SessionInv, Admits
  <2>2. CASE ~ Admits(calls[d].token, calls[d].now, reads, csrf)
    BY <1>1, <1>6, <2>2 DEF RequireSession, Idle
  <2> QED BY <2>1, <2>2
<1>8. t \in DOMAIN sessions /\ sessions[t] > calls[c].now
  BY <1>7, KeptSessions
<1>9. /\ t \in DOMAIN ends /\ ends[t] \in Nat /\ ends[t] = sessions[t] /\ t \notin loggedOut
      /\ calls[c].now \in Nat
  BY <1>6, <1>7, <1>8 DEF SessionInv, SoundCall, RequireSession
<1> QED BY <1>7, <1>8, <1>9

\* No request is let through with a session that was logged out by then, or
\* that had expired when the request read the time, whatever happens while it
\* waits for the mutex (require_session, authenticate, revoke and the eviction
\* in create_session).
THEOREM OnlyOpenSessionsAdmit == AuthSpec => AdmittedOnlyWhileOpen
<1>1. SessionInv /\ [AuthNext]_authVars =>
        [\A c \in Caller :
           calls[c].step # "handler" /\ calls'[c].step = "handler" =>
             LET t == calls'[c].token IN t \notin loggedOut /\ calls[c].now < ends[t]]_authVars
  BY AdmittedByMiddleware
<1> QED BY <1>1, SessionInvAlways, PTL DEF AuthSpec, AdmittedOnlyWhileOpen

-----------------------------------------------------------------------------
(* Logins.  A request that passed the rate check of an address may still     *)
(* register a failure for it: it is counted together with the failures       *)
(* (LimitInv), so that a failure only moves from one count to the other.  A  *)
(* rate check may use a time that has passed: it then keeps failures that no *)
(* longer count and drops none that does.                                    *)

Verifying(a) == {c \in Caller : calls[c].step = "verify" /\ calls[c].address = a}
Counting(a) == Recent(clock, Attempts(failures, a))

TimesInv ==
  /\ clock \in Nat /\ calls = [c \in Caller |-> calls[c]]
  /\ DOMAIN failures \subseteq Address
  /\ \A c \in Caller :
       /\ calls[c].step \in {"rate", "verify"} => calls[c].address \in Address
       /\ calls[c].step = "rate" => calls[c].now \in Nat /\ calls[c].now <= clock
  /\ \A a \in DOMAIN failures :
       IsFiniteSet(DOMAIN failures[a]) /\ \A i \in DOMAIN failures[a] : failures[a][i] \in Nat

LimitInv ==
  \A a \in Address :
    Cardinality(Counting(a)) + Cardinality(Verifying(a)) < MaxLoginFailures + Cardinality(Caller)

RateInv == TimesInv /\ LimitInv

LEMMA CountsAreFinite ==
  ASSUME TimesInv, NEW a
  PROVE  /\ IsFiniteSet(Counting(a)) /\ Cardinality(Counting(a)) \in Nat
         /\ IsFiniteSet(Verifying(a)) /\ Cardinality(Verifying(a)) \in Nat
         /\ Cardinality(Verifying(a)) <= Cardinality(Caller) /\ Cardinality(Caller) \in Nat
<1>1. IsFiniteSet(DOMAIN Attempts(failures, a))
  BY FS_EmptySet DEF TimesInv, Attempts
<1>2. Counting(a) \subseteq DOMAIN Attempts(failures, a) /\ Verifying(a) \subseteq Caller
  BY DEF Counting, Recent, Verifying
<1> QED BY <1>1, <1>2, FS_Subset, FS_CardinalityType, LoginAssumption

\* Fewer failures and fewer requests that may add one.
LEMMA FewerCounts ==
  ASSUME TimesInv, TimesInv', NEW a \in Address,
         Counting(a)' \subseteq Counting(a), Verifying(a)' \subseteq Verifying(a),
         Cardinality(Counting(a)) + Cardinality(Verifying(a))
           < MaxLoginFailures + Cardinality(Caller)
  PROVE  Cardinality(Counting(a)') + Cardinality(Verifying(a)')
           < MaxLoginFailures + Cardinality(Caller)
<1>1. /\ Cardinality(Counting(a)') <= Cardinality(Counting(a))
      /\ Cardinality(Verifying(a)') <= Cardinality(Verifying(a))
      /\ Cardinality(Counting(a)') \in Nat /\ Cardinality(Verifying(a)') \in Nat
  BY CountsAreFinite, FS_Subset, FS_CardinalityType
<1> QED BY <1>1, CountsAreFinite, LoginAssumption

LEMMA InitRate ==
  ASSUME AuthInit
  PROVE  RateInv
<1>1. TimesInv
  BY DEF AuthInit, TimesInv, Idle
<1>2. ASSUME NEW a \in Address PROVE Counting(a) = {} /\ Verifying(a) = {}
  BY DEF AuthInit, Counting, Attempts, Recent, Verifying, Idle
<1>3. LimitInv
  BY <1>1, <1>2, FS_EmptySet, CountsAreFinite, LoginAssumption DEF LimitInv
<1> QED BY <1>1, <1>3 DEF RateInv

LEMMA TickRate ==
  ASSUME RateInv, Tick
  PROVE  RateInv'
<1>1. clock' = clock + 1 /\ clock \in Nat /\ UNCHANGED <<failures, calls>>
  BY DEF Tick, RateInv, TimesInv
<1>2. TimesInv'
  BY <1>1 DEF RateInv, TimesInv
<1>3. ASSUME NEW a \in Address
      PROVE  Counting(a)' \subseteq Counting(a) /\ Verifying(a)' = Verifying(a)
  <2>1. \A i \in DOMAIN Attempts(failures, a) : Attempts(failures, a)[i] \in Nat
    BY DEF RateInv, TimesInv, Attempts
  <2>2. Counting(a)' = {i \in DOMAIN Attempts(failures, a) :
                          clock + 1 <= Attempts(failures, a)[i] + LoginWindow}
    BY <1>1 DEF Counting, Recent, InWindow, Attempts
  <2>3. Counting(a)' \subseteq Counting(a)
    BY <1>1, <2>1, <2>2, LoginAssumption DEF Counting, Recent, InWindow
  <2> QED BY <1>1, <2>3 DEF Verifying
<1> QED BY <1>2, <1>3, FewerCounts DEF RateInv, LimitInv

\* Steps that register no failure and let no request pass the check.
LEMMA QuietSteps ==
  ASSUME RateInv, UNCHANGED clock, DOMAIN failures' \subseteq DOMAIN failures,
         \A a \in DOMAIN failures' : failures'[a] = failures[a],
         NEW c \in Caller, NEW call, Goes(c, call), call.step # "verify",
         call.step = "rate" => call.address \in Address /\ call.now = clock
  PROVE  RateInv'
<1>1. /\ calls' = [d \in Caller |-> calls'[d]]
      /\ \A d \in Caller : calls'[d] = calls[d] \/ calls'[d] = call
  BY DEF RateInv, TimesInv, Goes
<1>2. TimesInv'
  BY <1>1 DEF RateInv, TimesInv
<1>3. ASSUME NEW a \in Address
      PROVE  Counting(a)' \subseteq Counting(a) /\ Verifying(a)' \subseteq Verifying(a)
  BY <1>1 DEF Counting, Attempts, Recent, InWindow, Verifying
<1> QED BY <1>2, <1>3, FewerCounts DEF RateInv, LimitInv

\* What retain leaves of an address's failures are some of them, with all that
\* count, however old the time is that it uses.
LEMMA RetainedCounts ==
  ASSUME TimesInv, NEW now \in Nat, now <= clock, NEW a,
         NEW left, left = Attempts(Retained(now), a)
  PROVE  /\ Counting(a) \subseteq DOMAIN left
         /\ DOMAIN left \subseteq DOMAIN Attempts(failures, a)
         /\ \A i \in DOMAIN left : left[i] = Attempts(failures, a)[i]
<1>1. /\ a \in DOMAIN Retained(now) <=> a \in DOMAIN failures /\ Recent(now, failures[a]) # {}
      /\ a \in DOMAIN Retained(now) =>
           Retained(now)[a] = Keep(failures[a], Recent(now, failures[a]))
  BY DEF Retained, Keep, Recent
<1>2. Recent(now, <<>>) = {} /\ DOMAIN <<>> = {}
  BY DEF Recent
<1>3. ASSUME NEW f PROVE /\ DOMAIN Keep(f, Recent(now, f)) = Recent(now, f)
                         /\ Recent(now, f) \subseteq DOMAIN f
                         /\ \A i \in Recent(now, f) : Keep(f, Recent(now, f))[i] = f[i]
  BY DEF Keep, Recent
<1>4. /\ DOMAIN left = Recent(now, Attempts(failures, a))
      /\ DOMAIN left \subseteq DOMAIN Attempts(failures, a)
      /\ \A i \in DOMAIN left : left[i] = Attempts(failures, a)[i]
  BY <1>1, <1>2, <1>3 DEF Attempts
<1>5. \A i \in DOMAIN Attempts(failures, a) : Attempts(failures, a)[i] \in Nat
  BY DEF TimesInv, Attempts
<1>6. Counting(a) \subseteq Recent(now, Attempts(failures, a))
  BY <1>5, LoginAssumption DEF Counting, Recent, InWindow, TimesInv
<1> QED BY <1>4, <1>6

LEMMA LoginCheckRate ==
  ASSUME RateInv, NEW c \in Caller, LoginCheck(c),
         NEW a, a = calls[c].address, NEW now, now = calls[c].now
  PROVE  RateInv'
<1> DEFINE left(b) == Attempts(Retained(now), b)
<1>1. /\ failures' = With(Retained(now), a, left(a)) /\ UNCHANGED clock
      /\ calls' = [calls EXCEPT ![c] = IF RateLimited(a, now) THEN Idle
                                       ELSE [step |-> "verify", address |-> a]]
      /\ calls[c].step = "rate" /\ a \in Address /\ now \in Nat /\ now <= clock
  BY DEF LoginCheck, Goes, RateInv, TimesInv
<1>2. /\ DOMAIN failures' = DOMAIN Retained(now) \cup {a}
      /\ DOMAIN Retained(now) \subseteq DOMAIN failures
  BY <1>1 DEF With, Retained, Keep
<1>3. ASSUME NEW b PROVE Attempts(failures', b) = left(b)
  BY <1>1 DEF With, Attempts
<1>4. ASSUME NEW b \in DOMAIN failures' PROVE failures'[b] = left(b)
  BY <1>3 DEF Attempts
<1>5. ASSUME NEW b
      PROVE  /\ Counting(b) \subseteq DOMAIN left(b)
             /\ IsFiniteSet(DOMAIN left(b))
             /\ \A i \in DOMAIN left(b) :
                  left(b)[i] = Attempts(failures, b)[i] /\ left(b)[i] \in Nat
  <2>1. /\ Counting(b) \subseteq DOMAIN left(b)
        /\ DOMAIN left(b) \subseteq DOMAIN Attempts(failures, b)
        /\ \A i \in DOMAIN left(b) : left(b)[i] = Attempts(failures, b)[i]
    BY <1>1, RetainedCounts DEF RateInv
  <2>2. /\ IsFiniteSet(DOMAIN Attempts(failures, b))
        /\ \A i \in DOMAIN Attempts(failures, b) : Attempts(failures, b)[i] \in Nat
    BY FS_EmptySet DEF RateInv, TimesInv, Attempts
  <2> QED BY <2>1, <2>2, FS_Subset
<1> HIDE DEF left
<1>6. TimesInv'
  <2>1. \A b \in DOMAIN failures' :
          IsFiniteSet(DOMAIN failures'[b]) /\ \A i \in DOMAIN failures'[b] : failures'[b][i] \in Nat
    BY <1>4, <1>5
  <2>2. clock' \in Nat /\ calls' = [d \in Caller |-> calls'[d]] /\ DOMAIN failures' \subseteq Address
    BY <1>1, <1>2 DEF RateInv, TimesInv
  <2>3. \A d \in Caller :
          /\ calls'[d].step \in {"rate", "verify"} => calls'[d].address \in Address
          /\ calls'[d].step = "rate" => calls'[d].now \in Nat /\ calls'[d].now <= clock'
    BY <1>1 DEF RateInv, TimesInv, Idle
  <2> QED BY <2>1, <2>2, <2>3 DEF TimesInv
<1>7. ASSUME NEW b PROVE Counting(b)' = Counting(b)
  <2>1. Counting(b)' = {i \in DOMAIN left(b) : clock <= left(b)[i] + LoginWindow}
    <3>1. Counting(b)' = {i \in DOMAIN Attempts(failures', b) :
                            clock <= Attempts(failures', b)[i] + LoginWindow}
      BY <1>1 DEF Counting, Recent, InWindow, Attempts
    <3> QED BY <1>3, <3>1
  <2>2. Counting(b) = {i \in DOMAIN Attempts(failures, b) :
                         clock <= Attempts(failures, b)[i] + LoginWindow}
    BY DEF Counting, Recent, InWindow
  <2>3. DOMAIN left(b) \subseteq DOMAIN Attempts(failures, b)
    BY <1>1, RetainedCounts DEF RateInv, left
  <2> QED BY <1>5, <2>1, <2>2, <2>3
<1>8. ASSUME NEW b \in Address, b # a \/ RateLimited(a, now)
      PROVE  Verifying(b)' = Verifying(b)
  BY <1>1, <1>8 DEF Verifying, RateInv, TimesInv, Idle
<1>9. ASSUME NEW b \in Address
      PROVE  Cardinality(Counting(b)') + Cardinality(Verifying(b)')
               < MaxLoginFailures + Cardinality(Caller)
  <2>1. CASE b # a \/ RateLimited(a, now)
    BY <1>7, <1>8, <2>1 DEF RateInv, LimitInv
  <2>2. CASE b = a /\ ~RateLimited(a, now)
    <3>1. /\ Cardinality(DOMAIN left(b)) \in Nat /\ Cardinality(Counting(b)) \in Nat
          /\ Cardinality(Counting(b)) <= Cardinality(DOMAIN left(b))
      BY <1>5, FS_Subset, FS_CardinalityType
    <3>2. ~(Cardinality(DOMAIN left(b)) >= MaxLoginFailures)
      BY <2>2 DEF RateLimited, Size, left
    <3>3. /\ Cardinality(Verifying(b)') \in Nat
          /\ Cardinality(Verifying(b)') <= Cardinality(Caller) /\ Cardinality(Caller) \in Nat
      <4>1. Verifying(b)' \subseteq Caller
        BY DEF Verifying
      <4> QED BY <4>1, FS_Subset, FS_CardinalityType, LoginAssumption
    <3>4. Cardinality(Counting(b)') = Cardinality(Counting(b))
      BY <1>7
    <3> QED BY <3>1, <3>2, <3>3, <3>4, LoginAssumption
  <2> QED BY <2>1, <2>2
<1> QED BY <1>6, <1>9 DEF RateInv, LimitInv

LEMMA LoginFailsRate ==
  ASSUME RateInv, NEW c \in Caller, LoginFails(c), NEW a, a = calls[c].address
  PROVE  RateInv'
<1>1. PICK kept : /\ kept = failures \/ \E b \in DOMAIN failures : kept = Without(failures, b)
                  /\ failures' = With(kept, a, Pushed(Attempts(kept, a)))
  BY DEF LoginFails
<1>2. DOMAIN kept \subseteq DOMAIN failures /\ \A b \in DOMAIN kept : kept[b] = failures[b]
  BY <1>1 DEF Without, Keep
<1>3. /\ calls[c].step = "verify" /\ calls' = [calls EXCEPT ![c] = Idle] /\ UNCHANGED clock
      /\ a \in Address
  BY DEF LoginFails, Goes, RateInv, TimesInv
<1>4. PICK n : Pushed(Attempts(kept, a)) = With(Attempts(kept, a), n, clock)
  BY DEF Pushed
<1>5. /\ DOMAIN failures' = DOMAIN kept \cup {a}
      /\ failures'[a] = With(Attempts(kept, a), n, clock)
      /\ \A b \in DOMAIN failures' : b # a => failures'[b] = failures[b] /\ b \in DOMAIN failures
  BY <1>1, <1>2, <1>4 DEF With
<1>6. /\ DOMAIN failures'[a] = DOMAIN Attempts(kept, a) \cup {n}
      /\ \A i \in DOMAIN failures'[a] :
           failures'[a][i] = IF i = n THEN clock ELSE Attempts(kept, a)[i]
  BY <1>5 DEF With
<1>7. /\ DOMAIN Attempts(kept, a) \subseteq DOMAIN Attempts(failures, a)
      /\ \A i \in DOMAIN Attempts(kept, a) : Attempts(kept, a)[i] = Attempts(failures, a)[i]
  BY <1>2 DEF Attempts
<1>8. IsFiniteSet(DOMAIN Attempts(failures, a))
      /\ \A i \in DOMAIN Attempts(failures, a) : Attempts(failures, a)[i] \in Nat
  BY FS_EmptySet DEF RateInv, TimesInv, Attempts
<1>9. TimesInv'
  <2>1. IsFiniteSet(DOMAIN failures'[a]) /\ \A i \in DOMAIN failures'[a] : failures'[a][i] \in Nat
    <3>1. IsFiniteSet(DOMAIN Attempts(kept, a))
      BY <1>7, <1>8, FS_Subset
    <3>2. IsFiniteSet(DOMAIN failures'[a])
      BY <1>6, <3>1, FS_AddElement
    <3>3. clock \in Nat
      BY DEF RateInv, TimesInv
    <3> QED BY <1>6, <1>7, <1>8, <3>2, <3>3
  <2>2. \A b \in DOMAIN failures' :
          IsFiniteSet(DOMAIN failures'[b]) /\ \A i \in DOMAIN failures'[b] : failures'[b][i] \in Nat
    BY <1>5, <2>1 DEF RateInv, TimesInv
  <2>3. /\ clock' \in Nat /\ calls' = [d \in Caller |-> calls'[d]]
        /\ DOMAIN failures' \subseteq Address
    BY <1>2, <1>3, <1>5 DEF RateInv, TimesInv
  <2>4. \A d \in Caller :
          /\ calls'[d].step \in {"rate", "verify"} => calls'[d].address \in Address
          /\ calls'[d].step = "rate" => calls'[d].now \in Nat /\ calls'[d].now <= clock'
    BY <1>3 DEF RateInv, TimesInv, Idle
  <2> QED BY <2>2, <2>3, <2>4 DEF TimesInv
<1>10. ASSUME NEW b \in Address, b # a
       PROVE  Counting(b)' \subseteq Counting(b) /\ Verifying(b)' \subseteq Verifying(b)
  <2>1. Attempts(failures, b)' = Attempts(failures, b) \/ Attempts(failures, b)' = <<>>
    BY <1>5, <1>10 DEF Attempts
  <2>2. Counting(b)' = {i \in DOMAIN Attempts(failures, b)' :
                          clock <= Attempts(failures, b)'[i] + LoginWindow}
    BY <1>3 DEF Counting, Recent, InWindow, Attempts
  <2>3. Counting(b)' \subseteq Counting(b)
    BY <2>1, <2>2 DEF Counting, Recent, InWindow
  <2>4. Verifying(b)' \subseteq Verifying(b)
    BY <1>3 DEF Verifying, RateInv, TimesInv, Idle
  <2> QED BY <2>3, <2>4
<1>11. Counting(a)' \subseteq Counting(a) \cup {n}
  <2>1. Counting(a)' = {i \in DOMAIN failures'[a] : clock <= failures'[a][i] + LoginWindow}
    BY <1>3, <1>5 DEF Counting, Recent, InWindow, Attempts
  <2> QED BY <1>6, <1>7, <2>1 DEF Counting, Recent, InWindow
<1>12. Verifying(a)' = Verifying(a) \ {c} /\ c \in Verifying(a)
  BY <1>3 DEF Verifying, RateInv, TimesInv, Idle
<1>13. Cardinality(Counting(a)') + Cardinality(Verifying(a)')
         < MaxLoginFailures + Cardinality(Caller)
  <2>1. /\ IsFiniteSet(Counting(a)) /\ Cardinality(Counting(a)) \in Nat
        /\ IsFiniteSet(Verifying(a)) /\ Cardinality(Verifying(a)) \in Nat
        /\ Cardinality(Caller) \in Nat
    BY CountsAreFinite DEF RateInv
  <2>2. /\ IsFiniteSet(Counting(a) \cup {n})
        /\ Cardinality(Counting(a) \cup {n}) <= Cardinality(Counting(a)) + 1
    <3>1. /\ IsFiniteSet(Counting(a) \cup {n})
          /\ \/ Cardinality(Counting(a) \cup {n}) = Cardinality(Counting(a))
             \/ Cardinality(Counting(a) \cup {n}) = Cardinality(Counting(a)) + 1
      BY <2>1, FS_AddElement
    <3> QED BY <2>1, <3>1
  <2>3. Cardinality(Counting(a)') <= Cardinality(Counting(a)) + 1
        /\ Cardinality(Counting(a)') \in Nat
    BY <1>11, <2>1, <2>2, FS_Subset, FS_CardinalityType
  <2>4. Cardinality(Verifying(a)') = Cardinality(Verifying(a)) - 1
    BY <1>12, <2>1, FS_RemoveElement
  <2>5. Cardinality(Counting(a)) + Cardinality(Verifying(a))
          < MaxLoginFailures + Cardinality(Caller)
    BY <1>3 DEF RateInv, LimitInv
  <2> QED BY <2>1, <2>3, <2>4, <2>5, LoginAssumption
<1>14. ASSUME NEW b \in Address
       PROVE  Cardinality(Counting(b)') + Cardinality(Verifying(b)')
                < MaxLoginFailures + Cardinality(Caller)
  BY <1>9, <1>10, <1>13, FewerCounts DEF RateInv, LimitInv
<1> QED BY <1>9, <1>14 DEF RateInv, LimitInv

LEMMA NextRate ==
  ASSUME RateInv, [AuthNext]_authVars
  PROVE  RateInv'
<1>1. ASSUME NEW c \in Caller, LoginSucceeds(c) PROVE RateInv'
  <2>1. /\ DOMAIN failures' \subseteq DOMAIN failures
        /\ \A a \in DOMAIN failures' : failures'[a] = failures[a]
    BY <1>1 DEF LoginSucceeds, Without, Keep
  <2> QED BY <1>1, <2>1, QuietSteps DEF LoginSucceeds
<1>2. ASSUME NEW c \in Caller, CreateSession(c) \/ Logout(c) \/ Ends(c) PROVE RateInv'
  <2>1. /\ Goes(c, Idle) /\ UNCHANGED <<clock, failures>>
        /\ Idle.step # "verify" /\ Idle.step # "rate"
    BY <1>2 DEF CreateSession, Logout, Ends, Idle
  <2> QED BY <2>1, QuietSteps
<1>3. ASSUME NEW c \in Caller, NEW a \in Address, Login(c, a) PROVE RateInv'
  <2> DEFINE call == [step |-> "rate", address |-> a, now |-> clock]
  <2>1. UNCHANGED <<clock, failures>> /\ Goes(c, call)
    BY <1>3 DEF Login
  <2>2. call.step # "verify" /\ call.address \in Address /\ call.now = clock
    OBVIOUS
  <2> HIDE DEF call
  <2> QED BY <2>1, <2>2, QuietSteps
<1>4. ASSUME NEW c \in Caller, NEW t, NEW reads, NEW csrf,
             Authenticate(c, t) \/ RequireSession(c, reads, csrf)
      PROVE  RateInv'
  <2>1. PICK call : Goes(c, call) /\ call.step # "verify" /\ call.step # "rate"
    BY <1>4 DEF Authenticate, RequireSession, Idle
  <2>2. UNCHANGED <<clock, failures>>
    BY <1>4 DEF Authenticate, RequireSession
  <2> QED BY <2>1, <2>2, QuietSteps
<1>5. CASE UNCHANGED authVars
  BY <1>5 DEF authVars, RateInv, TimesInv, LimitInv, Counting, Verifying, Recent, InWindow,
              Attempts
<1> QED
  BY <1>1, <1>2, <1>3, <1>4, <1>5, TickRate, LoginCheckRate, LoginFailsRate DEF AuthNext

\* However many requests are between the rate check and the registration of
\* their failure, the failures of an address that count within a window exceed
\* MAX_LOGIN_FAILURES by less than the number of requests in flight.
THEOREM GuessesAreAlwaysLimited == AuthSpec => []GuessesAreLimited
<1>1. AuthInit => RateInv
  BY InitRate
<1>2. RateInv /\ [AuthNext]_authVars => RateInv'
  BY NextRate
<1>3. RateInv => GuessesAreLimited
  <2> SUFFICES ASSUME RateInv, NEW a \in DOMAIN failures
               PROVE  Cardinality(Recent(clock, failures[a])) < MaxLoginFailures + Cardinality(Caller)
    BY DEF GuessesAreLimited
  <2>1. a \in Address /\ Counting(a) = Recent(clock, failures[a])
    BY DEF RateInv, TimesInv, Counting, Attempts
  <2>2. /\ Cardinality(Counting(a)) \in Nat /\ Cardinality(Verifying(a)) \in Nat
        /\ Cardinality(Caller) \in Nat
    BY CountsAreFinite DEF RateInv
  <2> QED BY <2>1, <2>2, LoginAssumption DEF RateInv, LimitInv
<1> QED BY <1>1, <1>2, <1>3, PTL DEF AuthSpec

-----------------------------------------------------------------------------
(* Migrations.  The advisory lock lets one transaction at a time look for    *)
(* its version and insert its row (LockInv), and a process that works on a   *)
(* version has found every earlier one with its own checksum (StepInv), so   *)
(* the row it inserts is the next one (VersionsInv).                         *)

StepName == {"down", "begun", "locked", "executed", "migrated", "mismatch", "serving"}

MigrationTypes ==
  /\ builds \in [Migrator -> Build]
  /\ steps \in [Migrator -> [step : StepName, version : Nat]]

\* The applied versions are the first ones.
VersionsInv ==
  /\ rows = [v \in DOMAIN rows |-> rows[v]]
  /\ \E n \in Nat : DOMAIN rows = 1 .. n

\* The transactions that are past the lock: one at most.
LockInv ==
  \A m \in Migrator : steps[m].step \in {"locked", "executed"} => lock = {m}

\* The first versions have rows, with the checksums of this release.
AppliedTo(m, upto) == \A w \in 1 .. upto : w \in DOMAIN rows /\ rows[w] = Checksum(m, w)

\* What each process knows of the rows.
Knows(m) ==
  LET v == steps[m].version IN
  /\ steps[m].step \in {"begun", "locked", "executed"} =>
       v \in 1 .. builds[m].latest /\ AppliedTo(m, v - 1)
  /\ steps[m].step = "executed" => v \notin DOMAIN rows
  /\ steps[m].step = "migrated" => AppliedTo(m, v)
  /\ steps[m].step = "mismatch" => v \in DOMAIN rows /\ rows[v] # Checksum(m, v)
  /\ steps[m].step = "serving" => 1 .. v \subseteq DOMAIN rows
StepInv == \A m \in Migrator : Knows(m)

MigrationInv == MigrationTypes /\ VersionsInv /\ LockInv /\ StepInv

-----------------------------------------------------------------------------
LEMMA InitMigration ==
  ASSUME MigrationInit
  PROVE  MigrationInv
<1>1. \A m \in Migrator : steps[m] = [step |-> "down", version |-> 0]
  BY DEF MigrationInit, Down
<1>2. MigrationTypes
  BY DEF MigrationInit, MigrationTypes, Down, StepName
<1>3. VersionsInv
  <2>1. rows = <<>> /\ DOMAIN rows = 1 .. 0
    BY DEF MigrationInit
  <2> QED BY <2>1 DEF VersionsInv
<1>4. LockInv /\ StepInv
  BY <1>1 DEF LockInv, StepInv, Knows
<1> QED BY <1>2, <1>3, <1>4 DEF MigrationInv

\* A version lies in the range of the release's.
LEMMA Versions ==
  ASSUME MigrationTypes, NEW m \in Migrator
  PROVE  /\ builds[m].latest \in Nat /\ steps[m].version \in Nat
         /\ steps[m] = [step |-> steps[m].step, version |-> steps[m].version]
BY DEF MigrationTypes, Build

\* One process goes on while the rows stay: what the others know stays true.
LEMMA OneMoves ==
  ASSUME MigrationInv, NEW m \in Migrator, NEW s \in StepName, NEW v \in Nat, UNCHANGED <<rows, builds>>,
         Step(m, s, v), Knows(m)',
         \/ lock' = lock \ {m} /\ s \notin {"locked", "executed"}
         \/ lock' = lock /\ (s \in {"locked", "executed"} => lock = {m})
         \/ lock = {} /\ lock' = {m}
  PROVE  MigrationInv'
<1>1. /\ steps'[m] = [step |-> s, version |-> v]
      /\ \A k \in Migrator \ {m} : steps'[k] = steps[k]
  BY DEF Step, MigrationInv, MigrationTypes
<1>2. MigrationTypes'
  BY DEF Step, MigrationInv, MigrationTypes
<1>3. VersionsInv'
  BY DEF MigrationInv, VersionsInv
<1>4. LockInv'
  BY <1>1 DEF MigrationInv, LockInv
<1>5. \A k \in Migrator \ {m} : Knows(k)'
  BY <1>1 DEF MigrationInv, StepInv, Knows, AppliedTo, Checksum
<1> QED BY <1>2, <1>3, <1>4, <1>5 DEF MigrationInv, StepInv

LEMMA LaunchStep ==
  ASSUME MigrationInv, NEW m \in Migrator, Launch(m)
  PROVE  MigrationInv'
<1>1. Step(m, "begun", 1) /\ UNCHANGED <<rows, builds, lock>>
  BY DEF Launch
<1>2. steps'[m] = [step |-> "begun", version |-> 1]
  BY <1>1 DEF Step, MigrationInv, MigrationTypes
<1>3. 1 \in 1 .. builds[m].latest
  BY DEF MigrationInv, MigrationTypes, Build
<1>4. Knows(m)'
  BY <1>1, <1>2, <1>3 DEF Knows, AppliedTo
<1> QED BY <1>1, <1>4, OneMoves DEF StepName

LEMMA TakeLockStep ==
  ASSUME MigrationInv, NEW m \in Migrator, TakeLock(m)
  PROVE  MigrationInv'
<1>1. /\ Step(m, "locked", steps[m].version) /\ UNCHANGED <<rows, builds>>
      /\ steps[m].step = "begun" /\ lock = {} /\ lock' = {m}
  BY DEF TakeLock
<1>2. steps'[m] = [step |-> "locked", version |-> steps[m].version]
  BY <1>1 DEF Step, MigrationInv, MigrationTypes
<1>3. Knows(m)'
  BY <1>1, <1>2 DEF MigrationInv, StepInv, Knows, AppliedTo, Checksum
<1> QED BY <1>1, <1>3, OneMoves, Versions DEF StepName, MigrationInv

\* After the version the loop goes on to the next one, or is done.
LEMMA NextVersion ==
  ASSUME MigrationInv, NEW m \in Migrator, steps[m].step \in {"locked", "executed"},
         GoesOn(m, steps[m].version)
  PROVE  \E s \in {"begun", "migrated"} : \E v \in Nat :
           /\ Step(m, s, v) /\ steps'[m] = [step |-> s, version |-> v]
           /\ s = "begun" => v \in 1 .. builds[m].latest /\ v - 1 = steps[m].version
           /\ s = "migrated" => v = steps[m].version
<1>1. \A s \in StepName : \A v \in Nat : Step(m, s, v) => steps'[m] = [step |-> s, version |-> v]
  BY DEF Step, MigrationInv, MigrationTypes
<1>2. steps[m].version \in Nat /\ builds[m].latest \in Nat
  BY Versions DEF MigrationInv
<1>3. CASE steps[m].version < builds[m].latest
  <2>1. Step(m, "begun", steps[m].version + 1)
    BY <1>3 DEF GoesOn
  <2> QED BY <1>1, <1>2, <1>3, <2>1 DEF StepName
<1>4. CASE ~(steps[m].version < builds[m].latest)
  <2>1. Step(m, "migrated", steps[m].version)
    BY <1>4 DEF GoesOn
  <2> QED BY <1>1, <1>2, <2>1 DEF StepName
<1> QED BY <1>3, <1>4

LEMMA FindAppliedStep ==
  ASSUME MigrationInv, NEW m \in Migrator, FindApplied(m)
  PROVE  MigrationInv'
<1>1. /\ steps[m].step = "locked" /\ steps[m].version \in DOMAIN rows
      /\ lock' = lock \ {m} /\ UNCHANGED <<rows, builds>>
  BY DEF FindApplied, Unlocks
<1>2. steps[m].version \in Nat \ {0} /\ AppliedTo(m, steps[m].version - 1)
  BY <1>1 DEF MigrationInv, StepInv, Knows
<1>3. CASE rows[steps[m].version] = Checksum(m, steps[m].version)
  <2>1. AppliedTo(m, steps[m].version)
    BY <1>1, <1>2, <1>3 DEF AppliedTo
  <2>2. PICK s \in {"begun", "migrated"}, v \in Nat :
           /\ Step(m, s, v) /\ steps'[m] = [step |-> s, version |-> v]
           /\ s = "begun" => v \in 1 .. builds[m].latest /\ v - 1 = steps[m].version
           /\ s = "migrated" => v = steps[m].version
    BY <1>1, <1>3, NextVersion DEF FindApplied
  <2>3. Knows(m)'
    BY <1>1, <2>1, <2>2 DEF Knows, AppliedTo, Checksum
  <2> QED BY <1>1, <2>2, <2>3, OneMoves DEF StepName
<1>4. CASE rows[steps[m].version] # Checksum(m, steps[m].version)
  <2>1. Step(m, "mismatch", steps[m].version)
    BY <1>4 DEF FindApplied
  <2>2. steps'[m] = [step |-> "mismatch", version |-> steps[m].version]
    BY <2>1 DEF Step, MigrationInv, MigrationTypes
  <2>3. Knows(m)'
    BY <1>1, <1>4, <2>2 DEF Knows, Checksum
  <2> QED BY <1>1, <1>2, <2>1, <2>3, OneMoves DEF StepName
<1> QED BY <1>3, <1>4

LEMMA RunSqlStep ==
  ASSUME MigrationInv, NEW m \in Migrator, RunSql(m)
  PROVE  MigrationInv'
<1>1. /\ Step(m, "executed", steps[m].version) /\ UNCHANGED <<rows, builds, lock>>
      /\ steps[m].step = "locked" /\ steps[m].version \notin DOMAIN rows
  BY DEF RunSql
<1>2. steps'[m] = [step |-> "executed", version |-> steps[m].version]
  BY <1>1 DEF Step, MigrationInv, MigrationTypes
<1>3. Knows(m)'
  BY <1>1, <1>2 DEF MigrationInv, StepInv, Knows, AppliedTo, Checksum
<1>4. lock = {m} /\ steps[m].version \in Nat
  BY <1>1, Versions DEF MigrationInv, LockInv
<1> QED BY <1>1, <1>3, <1>4, OneMoves DEF StepName

\* The row that is inserted is the next one: all earlier versions have theirs, and
\* no other process works on this one.
LEMMA CommitStep ==
  ASSUME MigrationInv, NEW m \in Migrator, CommitMigration(m)
  PROVE  MigrationInv'
<1> DEFINE u == steps[m].version
<1>1. /\ steps[m].step = "executed" /\ u \notin DOMAIN rows
      /\ u \in Nat \ {0} /\ AppliedTo(m, u - 1)
  BY DEF CommitMigration, MigrationInv, StepInv, Knows
<1>2. /\ rows' = [w \in DOMAIN rows \cup {u} |-> IF w = u THEN Checksum(m, u) ELSE rows[w]]
      /\ GoesOn(m, u) /\ lock' = lock \ {m} /\ UNCHANGED builds
  BY <1>1 DEF CommitMigration, Unlocks
<1>3. PICK n \in Nat : DOMAIN rows = 1 .. n
  BY DEF MigrationInv, VersionsInv
<1>4. u = n + 1
  <2>1. u > n
    BY <1>1, <1>3
  <2>2. u # 1 => u - 1 \in DOMAIN rows
    BY <1>1 DEF AppliedTo
  <2> QED BY <1>1, <1>3, <2>1, <2>2
<1>5. DOMAIN rows' = 1 .. n + 1 /\ rows' = [w \in DOMAIN rows' |-> rows'[w]]
  BY <1>2, <1>3, <1>4
<1>6. rows'[u] = Checksum(m, u) /\ \A w \in DOMAIN rows : w \in DOMAIN rows' /\ rows'[w] = rows[w]
  BY <1>1, <1>2
<1>7. PICK s \in {"begun", "migrated"}, v \in Nat :
         /\ Step(m, s, v) /\ steps'[m] = [step |-> s, version |-> v]
         /\ s = "begun" => v \in 1 .. builds[m].latest /\ v - 1 = u
         /\ s = "migrated" => v = u
  BY <1>1, <1>2, NextVersion
<1>8. \A k \in Migrator : lock = {m} /\ (k # m => steps'[k] = steps[k])
  BY <1>1, <1>7 DEF Step, MigrationInv, MigrationTypes, LockInv
<1>9. MigrationTypes'
  BY <1>2, <1>7 DEF Step, MigrationInv, MigrationTypes, StepName
<1>10. VersionsInv'
  BY <1>5 DEF VersionsInv
<1>11. LockInv'
  BY <1>2, <1>7, <1>8 DEF MigrationInv, LockInv
<1>12. \A w \in 1 .. u : w \in DOMAIN rows' /\ rows'[w] = Checksum(m, w)
  BY <1>1, <1>3, <1>4, <1>5, <1>6 DEF AppliedTo
<1>13. Knows(m)'
  <2>1. \A w : Checksum(m, w)' = Checksum(m, w)
    BY <1>2 DEF Checksum
  <2>2. CASE s = "begun"
    <3>1. AppliedTo(m, v - 1)'
      BY <1>7, <1>12, <2>1, <2>2 DEF AppliedTo
    <3> QED BY <1>2, <1>7, <2>2, <3>1 DEF Knows
  <2>3. CASE s = "migrated"
    <3>1. AppliedTo(m, v)'
      BY <1>7, <1>12, <2>1, <2>3 DEF AppliedTo
    <3> QED BY <1>7, <2>3, <3>1 DEF Knows
  <2> QED BY <2>2, <2>3
<1>14. ASSUME NEW k \in Migrator \ {m} PROVE Knows(k)'
  <2>1. steps'[k] = steps[k] /\ steps[k].step # "executed"
    BY <1>8 DEF MigrationInv, LockInv
  <2>2. Knows(k)
    BY DEF MigrationInv, StepInv
  <2> QED BY <1>2, <1>6, <2>1, <2>2 DEF Knows, AppliedTo, Checksum
<1> QED BY <1>9, <1>10, <1>11, <1>13, <1>14 DEF MigrationInv, StepInv

\* The highest version stands for all before it.
LEMMA ServeStep ==
  ASSUME MigrationInv, NEW m \in Migrator, Serve(m)
  PROVE  MigrationInv'
<1>1. /\ Step(m, "serving", SchemaVersion) /\ UNCHANGED <<rows, builds, lock>>
      /\ SchemaVersion = builds[m].latest
  BY DEF Serve
<1>2. PICK n \in Nat : DOMAIN rows = 1 .. n
  BY DEF MigrationInv, VersionsInv
<1>3. SchemaVersion \in Nat /\ SchemaVersion \in 1 .. n
  <2>1. SchemaVersion \in Nat \ {0}
    BY <1>1 DEF MigrationInv, MigrationTypes, Build
  <2>2. rows # <<>>
    BY <2>1 DEF SchemaVersion
  <2>3. n # 0
    BY <1>2, <2>2 DEF MigrationInv, VersionsInv
  <2>4. n \in DOMAIN rows /\ \A w \in DOMAIN rows : w <= n
    BY <1>2, <2>3
  <2>5. \E v \in DOMAIN rows : \A w \in DOMAIN rows : w <= v
    BY <2>4
  <2>6. SchemaVersion \in DOMAIN rows
    BY <2>2, <2>5 DEF SchemaVersion
  <2> QED BY <1>2, <2>1, <2>6
<1>4. PICK v \in 1 .. n : v = SchemaVersion
  BY <1>3
<1>5. steps'[m] = [step |-> "serving", version |-> v]
  BY <1>1, <1>4 DEF Step, MigrationInv, MigrationTypes
<1>6. Knows(m)'
  BY <1>1, <1>2, <1>5 DEF Knows
<1> QED BY <1>1, <1>3, <1>6, OneMoves DEF StepName

LEMMA CrashStep ==
  ASSUME MigrationInv, NEW m \in Migrator, Crash(m)
  PROVE  MigrationInv'
<1>1. Step(m, "down", 0) /\ UNCHANGED <<rows, builds>> /\ lock' = lock \ {m}
  BY DEF Crash, Step, Down, Unlocks
<1>2. steps'[m] = [step |-> "down", version |-> 0]
  BY <1>1 DEF Step, MigrationInv, MigrationTypes
<1>3. Knows(m)'
  BY <1>2 DEF Knows
<1> QED BY <1>1, <1>3, OneMoves DEF StepName

-----------------------------------------------------------------------------
\* The inductive invariant holds in every state that MigrationSpec can reach.
THEOREM MigrationInvAlways == MigrationSpec => []MigrationInv
<1>1. MigrationInit => MigrationInv
  BY InitMigration
<1>2. MigrationInv /\ [MigrationNext]_migrationVars => MigrationInv'
  <2> SUFFICES ASSUME MigrationInv, [MigrationNext]_migrationVars PROVE MigrationInv'
    OBVIOUS
  <2>1. CASE UNCHANGED migrationVars
    BY <2>1 DEF migrationVars, MigrationInv, MigrationTypes, VersionsInv, LockInv, StepInv, Knows, AppliedTo, Checksum
  <2> QED
    BY <2>1, LaunchStep, TakeLockStep, FindAppliedStep, RunSqlStep, CommitStep, ServeStep, CrashStep
    DEF MigrationNext
<1> QED BY <1>1, <1>2, PTL DEF MigrationSpec

LEMMA KnowledgeAgrees ==
  ASSUME MigrationInv
  PROVE  MigrationsAgree
<1>1. DOMAIN rows = 1 .. Cardinality(DOMAIN rows)
  <2>1. PICK n \in Nat : DOMAIN rows = 1 .. n
    BY DEF MigrationInv, VersionsInv
  <2> QED BY <2>1, FS_Interval
<1>2. ASSUME NEW m \in Migrator
      PROVE  LET v == steps[m].version IN
             CASE steps[m].step = "migrated" -> \A w \in 1 .. v : rows[w] = Checksum(m, w)
               [] steps[m].step = "serving" -> 1 .. v \subseteq DOMAIN rows
               [] steps[m].step = "mismatch" -> rows[v] # Checksum(m, v)
               [] OTHER -> steps[m].step # "conflict"
  <2>1. steps[m].step \in StepName /\ Knows(m)
    BY DEF MigrationInv, MigrationTypes, StepInv
  <2> QED BY <2>1 DEF Knows, AppliedTo, StepName
<1> QED BY <1>1, <1>2 DEF MigrationsAgree

\* Whatever releases migrate one database together and crash: no version is left
\* out, a process that was told its database is migrated finds its own migrations
\* as the first ones (those of a newer release may follow), and none runs into
\* another's row (migrate, the advisory lock and
\* ensure_control_database_migrated).
THEOREM MigrationsAlwaysAgree == MigrationSpec => []MigrationsAgree
<1>1. MigrationInv => MigrationsAgree
  BY KnowledgeAgrees
<1> QED BY <1>1, MigrationInvAlways, PTL

-----------------------------------------------------------------------------
(* The server process: the inductive invariant.                            *)
(*                                                                         *)
(* The argument for the reports is a table of the snapshots that each step *)
(* of a task allows (ReportInv).  The one for the exit is that a task      *)
(* outside the supervisor's map is always one that the reconciler is just  *)
(* reaping or joining (TaskInv), so that an empty map at the end of the    *)
(* shutdown leaves none.                                                   *)

Steps == {"none", "spawned", "preparing", "resuming", "loading", "activated", "connecting",
          "streaming", "committed", "acknowledging", "degraded", "done"}
Phases == {"draft", "validating", "snapshotting", "catching_up", "running", "degraded",
           "failed", "stopped"}
States == {"starting", "running", "degraded", "failed", "stopped"}

Task == [step : Steps, cancelled : BOOLEAN, ok : BOOLEAN]
Snapshot == [phase : Phases, state : States, received : Nat, checkpoint : Nat]
View == [step : {"reading", "read"}, p : Pipeline, running : BOOLEAN, known : BOOLEAN]

\* What the reconciler does, with the pipelines it has still to visit.
Rec ==
  [step : {"between", "done", "dead"}]
  \cup [step : {"reaping", "tick", "shutdown"}, todo : SUBSET Pipeline]
  \cup [step : {"creating"}, p : Pipeline, todo : SUBSET Pipeline]
  \cup [step : {"joining"}, p : Pipeline, todo : SUBSET Pipeline, back : {"tick", "shutdown"}]

Service ==
  [step : {"select"}]
  \cup [step : {"waiting"}, requested : BOOLEAN, for : {"server", "reconciler"}]
  \cup [step : {"exited"}, ok : BOOLEAN]

\* The variables have their types.
RuntimeTypes ==
  /\ managed \subseteq Pipeline
  /\ tasks \in [Pipeline -> Task]
  /\ DOMAIN telemetry \subseteq Pipeline /\ telemetry \in [DOMAIN telemetry -> Snapshot]
  /\ durable \in [Pipeline -> Nat]
  /\ rec \in Rec /\ shutdown \in BOOLEAN
  /\ server \in {"open", "drained", "failed"} /\ service \in Service
  /\ views \in [Viewer -> View \cup {NoView}]

\* A task is in the supervisor's map, or the reconciler is about to record its
\* end; and a pipeline that has a task has a snapshot.
TaskInv ==
  /\ \A p \in managed : tasks[p].step # "none"
  /\ \A p \in Pipeline : tasks[p].step # "none" =>
       /\ p \in DOMAIN telemetry
       /\ \/ p \in managed \/ rec.step = "dead"
          \/ rec.step = "reaping" /\ p \in rec.todo
          \/ rec.step = "joining" /\ p = rec.p
  /\ rec.step = "reaping" =>
       \A p \in rec.todo : p \notin managed /\ tasks[p].step = "done"
  /\ rec.step = "joining" => rec.p \notin managed /\ tasks[rec.p].step # "none"
  /\ rec.step = "creating" => rec.p \in DOMAIN telemetry /\ tasks[rec.p].step = "none"

\* The snapshots that the steps of a task allow.
Outcome(s) ==
  \/ s.state \in {"failed", "degraded"} /\ s.phase = s.state
  \/ s.state = "stopped" /\ s.phase \in {"stopped", "draft"}
Allowed(step, s) ==
  CASE step = "none" -> Outcome(s)
    [] step = "spawned" -> s.state = "starting" /\ s.phase # "running"
    [] step \in {"preparing", "resuming", "loading", "activated", "connecting"} ->
         s.state = "starting" /\ s.phase \in {"validating", "snapshotting", "catching_up"}
    [] step \in {"streaming", "committed", "acknowledging"} ->
         s.state = "running" /\ s.phase \in {"catching_up", "running"}
    [] step = "degraded" -> s.state = "degraded" /\ s.phase = "degraded"
    [] step = "done" ->
         \/ s.state \in {"failed", "degraded"} /\ s.phase = s.state
         \/ s.state = "running"
         \/ s.state = "starting" /\ s.phase # "running"
ReportInv == \A p \in DOMAIN telemetry : Allowed(tasks[p].step, telemetry[p])

\* A request that saw a running job finds its snapshot.
ViewInv ==
  \A v \in Viewer :
    /\ views[v].step = "reading" /\ views[v].running => views[v].p \in DOMAIN telemetry
    /\ views[v].step = "read" /\ views[v].running => views[v].known

\* What has ended stays ended: a drained server serves no request, a finished
\* reconciler leaves no task, and supervise_service waits for the part that it
\* did not see end.
EndInv ==
  /\ server = "drained" => \A v \in Viewer : views[v] = NoView
  /\ rec.step = "done" => \A p \in Pipeline : tasks[p].step = "none"
  /\ service.step = "waiting" =>
       IF service.for = "server" THEN rec.step \in {"done", "dead"} ELSE server # "open"

RuntimeInv ==
  /\ RuntimeTypes /\ TaskInv /\ ReportInv /\ ViewInv /\ EndInv
  /\ ReportedCheckpointIsDurable /\ ExitLeavesNoJob

-----------------------------------------------------------------------------
USE DEF taskVars, hostVars, runtimeVars, NoTask, NewTask, NewSnapshot, NoView

(* What one report, and one step of a task, changes. *)

\* A report replaces one snapshot.
LEMMA ReportOne ==
  ASSUME telemetry \in [DOMAIN telemetry -> Snapshot],
         NEW p \in DOMAIN telemetry, NEW s \in Snapshot,
         telemetry' = [telemetry EXCEPT ![p] = s]
  PROVE  /\ DOMAIN telemetry' = DOMAIN telemetry
         /\ telemetry' \in [DOMAIN telemetry -> Snapshot]
         /\ telemetry'[p] = s
         /\ \A q \in DOMAIN telemetry \ {p} : telemetry'[q] = telemetry[q]
OBVIOUS

\* The reports that compare positions keep the type, and the phase of a broken
\* pipeline; none takes the checkpoint beyond the two positions it compares.
LEMMA PositionReports ==
  ASSUME NEW s \in Snapshot, NEW lsn \in Nat
  PROVE  /\ SourceReceived(s, lsn) \in Snapshot
         /\ SourceReceived(s, lsn).checkpoint = s.checkpoint
         /\ Applied(s, lsn) \in Snapshot
         /\ s.checkpoint <= lsn => Applied(s, lsn).checkpoint <= lsn
<1>1. \A x, y \in Nat : Later(x, y) \in Nat /\ (x <= y => Later(x, y) <= y)
  BY DEF Later
<1>2. s.received \in Nat /\ s.checkpoint \in Nat /\ s.phase \in Phases
  BY DEF Snapshot
<1>3. PICK f \in Phases :
        f = IF Broken(s) \/ s.checkpoint = 0 THEN s.phase
            ELSE IF lsn > s.checkpoint THEN "catching_up" ELSE "running"
  BY <1>2 DEF Phases
<1>4. PICK g \in Phases : g = IF Broken(s) \/ s.received > lsn THEN s.phase ELSE "running"
  BY <1>2 DEF Phases
<1>5. SourceReceived(s, lsn) = [s EXCEPT !.received = Later(s.received, lsn), !.phase = f]
  BY <1>3 DEF SourceReceived
<1>6. Applied(s, lsn) = [s EXCEPT !.checkpoint = Later(s.checkpoint, lsn), !.phase = g]
  BY <1>4 DEF Applied, CheckpointReached, Snapshot
<1>7. Later(s.received, lsn) \in Nat /\ Later(s.checkpoint, lsn) \in Nat
  BY <1>1, <1>2
<1>8. SourceReceived(s, lsn) \in Snapshot /\ SourceReceived(s, lsn).checkpoint = s.checkpoint
  BY <1>5, <1>7 DEF Snapshot
<1>9. Applied(s, lsn) \in Snapshot /\ Applied(s, lsn).checkpoint = Later(s.checkpoint, lsn)
  BY <1>6, <1>7 DEF Snapshot
<1> QED BY <1>1, <1>2, <1>8, <1>9

\* A task moves on, or ends.
LEMMA TaskOne ==
  ASSUME tasks \in [Pipeline -> Task], NEW p \in Pipeline,
         NEW x \in Steps \ {"none"}, NEW ok \in BOOLEAN,
         \/ tasks' = [tasks EXCEPT ![p].step = x]
         \/ tasks' = [tasks EXCEPT ![p].step = x, ![p].ok = ok]
  PROVE  /\ tasks' \in [Pipeline -> Task] /\ tasks'[p].step = x /\ x # "none"
         /\ \A q \in Pipeline \ {p} : tasks'[q] = tasks[q]
BY DEF Task

\* A step of the task of p changes the task and the snapshot of p alone, and
\* leaves them in agreement.
JobMoves(p) ==
  /\ tasks' \in [Pipeline -> Task] /\ tasks'[p].step # "none"
  /\ \A q \in Pipeline \ {p} : tasks'[q] = tasks[q]
  /\ DOMAIN telemetry' = DOMAIN telemetry /\ telemetry' \in [DOMAIN telemetry -> Snapshot]
  /\ \A q \in DOMAIN telemetry \ {p} : telemetry'[q] = telemetry[q]
  /\ Allowed(tasks'[p].step, telemetry'[p])
  /\ durable' \in [Pipeline -> Nat] /\ \A q \in Pipeline : durable[q] <= durable'[q]
  /\ telemetry'[p].checkpoint <= durable'[p]
  /\ UNCHANGED <<managed, hostVars, views>>

\* Every action of a job is such a step, of a task that is alive.
LEMMA JobStep ==
  ASSUME RuntimeTypes, TaskInv, ReportInv, ReportedCheckpointIsDurable,
         NEW p \in Pipeline, Job(p)
  PROVE  JobMoves(p) /\ Alive(p) /\ p \in DOMAIN telemetry
<1> USE LsnAssumption DEF InTask
<1>1. Alive(p)
  BY DEF Alive, Job, Begins, Prepares, Activates, Initialized, Streams, Keepalive,
     Receives, Commits, ReportsApplied, Acknowledged, Degrades, Returns,
     Cancelled, Fails, Drops
<1>2. p \in DOMAIN telemetry /\ tasks[p] \in Task
  BY <1>1 DEF Alive, RuntimeTypes, TaskInv
<1> SUFFICES JobMoves(p)
  BY <1>1, <1>2
<1>3. PICK s \in Snapshot : s = telemetry[p]
  BY <1>2 DEF RuntimeTypes
<1>4. Allowed(tasks[p].step, s) /\ s.checkpoint <= durable[p]
  BY <1>2, <1>3 DEF ReportInv, ReportedCheckpointIsDurable
<1>5. /\ tasks \in [Pipeline -> Task] /\ telemetry \in [DOMAIN telemetry -> Snapshot]
      /\ durable \in [Pipeline -> Nat]
  BY DEF RuntimeTypes
<1>6. CASE Begins(p)
  <2>1. /\ tasks' \in [Pipeline -> Task] /\ tasks'[p].step = "preparing"
        /\ \A q \in Pipeline \ {p} : tasks'[q] = tasks[q]
    BY <1>6, <1>5, TaskOne DEF Begins, Moves, Steps
  <2> DEFINE r == SetPhase(s, "validating")
  <2>2. r \in Snapshot /\ r.checkpoint <= durable[p]
    BY <1>3, <1>4, <1>5 DEF SetPhase, Snapshot, Phases, States
  <2>3. Allowed(tasks'[p].step, r)
    BY <1>6, <1>4, <2>1 DEF Begins, SetPhase, Allowed, Snapshot
  <2>4. telemetry' = [telemetry EXCEPT ![p] = r]
    BY <1>6, <1>3 DEF Begins, Reports
  <2> HIDE DEF r
  <2>5. /\ DOMAIN telemetry' = DOMAIN telemetry
        /\ telemetry' \in [DOMAIN telemetry -> Snapshot]
        /\ telemetry'[p] = r
        /\ \A q \in DOMAIN telemetry \ {p} : telemetry'[q] = telemetry[q]
    BY <1>2, <1>5, <2>2, <2>4, ReportOne
  <2> QED BY <1>6, <1>5, <2>1, <2>2, <2>3, <2>5 DEF Begins, JobMoves
<1>7. ASSUME NEW step \in {"resuming", "loading"}, Prepares(p, step) PROVE JobMoves(p)
  <2>1. /\ tasks' \in [Pipeline -> Task] /\ tasks'[p].step = step
        /\ \A q \in Pipeline \ {p} : tasks'[q] = tasks[q]
    BY <1>7, <1>5, TaskOne DEF Prepares, Moves, Steps
  <2> DEFINE r == SetPhase(s, IF step = "resuming" THEN "catching_up" ELSE "snapshotting")
  <2>2. r \in Snapshot /\ r.checkpoint <= durable[p]
    BY <1>3, <1>4, <1>5 DEF SetPhase, Snapshot, Phases, States
  <2>3. Allowed(tasks'[p].step, r)
    BY <1>7, <1>4, <2>1 DEF Prepares, SetPhase, Allowed, Snapshot
  <2>4. telemetry' = [telemetry EXCEPT ![p] = r]
    BY <1>7, <1>3 DEF Prepares, Reports
  <2> HIDE DEF r
  <2>5. /\ DOMAIN telemetry' = DOMAIN telemetry
        /\ telemetry' \in [DOMAIN telemetry -> Snapshot]
        /\ telemetry'[p] = r
        /\ \A q \in DOMAIN telemetry \ {p} : telemetry'[q] = telemetry[q]
    BY <1>2, <1>5, <2>2, <2>4, ReportOne
  <2> QED BY <1>7, <1>5, <2>1, <2>2, <2>3, <2>5 DEF Prepares, JobMoves
<1>8. ASSUME NEW lsn \in 1 .. MaxLsn, Activates(p, lsn) PROVE JobMoves(p)
  <2>1. /\ tasks' \in [Pipeline -> Task] /\ tasks'[p].step = "activated"
        /\ \A q \in Pipeline \ {p} : tasks'[q] = tasks[q]
    BY <1>8, <1>5, TaskOne DEF Activates, Moves, Steps
  <2>2. Allowed(tasks'[p].step, s)
    BY <1>8, <1>4, <2>1 DEF Activates, Allowed
  <2>3. /\ durable' \in [Pipeline -> Nat]
        /\ \A q \in Pipeline : durable[q] <= durable'[q]
    BY <1>8, <1>5 DEF Activates
  <2>4. UNCHANGED <<telemetry, managed, hostVars, views>> /\ s.checkpoint <= durable'[p]
    BY <1>8, <1>3, <1>4, <1>5, <2>3 DEF Activates, Snapshot
  <2> QED BY <1>3, <1>5, <2>1, <2>2, <2>3, <2>4 DEF JobMoves
<1>9. CASE Initialized(p)
  <2>1. /\ tasks' \in [Pipeline -> Task] /\ tasks'[p].step = "connecting"
        /\ \A q \in Pipeline \ {p} : tasks'[q] = tasks[q]
    BY <1>9, <1>5, TaskOne DEF Initialized, Moves, Steps
  <2> DEFINE r == CheckpointReached(s, durable[p])
  <2>2. r \in Snapshot /\ r.checkpoint <= durable[p]
    BY <1>3, <1>4, <1>5 DEF CheckpointReached, Later, Snapshot, Phases, States
  <2>3. Allowed(tasks'[p].step, r)
    BY <1>9, <1>4, <2>1 DEF Initialized, CheckpointReached, Later, Allowed, Snapshot
  <2>4. telemetry' = [telemetry EXCEPT ![p] = r]
    BY <1>9, <1>3 DEF Initialized, Reports
  <2> HIDE DEF r
  <2>5. /\ DOMAIN telemetry' = DOMAIN telemetry
        /\ telemetry' \in [DOMAIN telemetry -> Snapshot]
        /\ telemetry'[p] = r
        /\ \A q \in DOMAIN telemetry \ {p} : telemetry'[q] = telemetry[q]
    BY <1>2, <1>5, <2>2, <2>4, ReportOne
  <2> QED BY <1>9, <1>5, <2>1, <2>2, <2>3, <2>5 DEF Initialized, JobMoves
<1>10. CASE Streams(p)
  <2>1. /\ tasks' \in [Pipeline -> Task] /\ tasks'[p].step = "streaming"
        /\ \A q \in Pipeline \ {p} : tasks'[q] = tasks[q]
    BY <1>10, <1>5, TaskOne DEF Streams, Moves, Steps
  <2> DEFINE r == MarkRunning(SetPhase(s, "catching_up"))
  <2>2. r \in Snapshot /\ r.checkpoint <= durable[p]
    BY <1>3, <1>4, <1>5 DEF SetPhase, MarkRunning, Snapshot, Phases, States
  <2>3. Allowed(tasks'[p].step, r)
    BY <1>10, <1>4, <2>1 DEF Streams, SetPhase, MarkRunning, Allowed, Snapshot
  <2>4. telemetry' = [telemetry EXCEPT ![p] = r]
    BY <1>10, <1>3 DEF Streams, Reports
  <2> HIDE DEF r
  <2>5. /\ DOMAIN telemetry' = DOMAIN telemetry
        /\ telemetry' \in [DOMAIN telemetry -> Snapshot]
        /\ telemetry'[p] = r
        /\ \A q \in DOMAIN telemetry \ {p} : telemetry'[q] = telemetry[q]
    BY <1>2, <1>5, <2>2, <2>4, ReportOne
  <2> QED BY <1>10, <1>5, <2>1, <2>2, <2>3, <2>5 DEF Streams, JobMoves
<1>11. ASSUME NEW lsn \in 1 .. MaxLsn, Keepalive(p, lsn) PROVE JobMoves(p)
  <2>1. UNCHANGED tasks /\ tasks[p].step = "streaming"
    BY <1>11 DEF Keepalive
  <2> DEFINE r == SourceReceived(s, lsn)
  <2>2. r \in Snapshot /\ r.checkpoint <= durable[p]
    <3>1. lsn \in Nat
      OBVIOUS
    <3> QED BY <1>3, <1>4, <3>1, PositionReports
  <2>3. Allowed(tasks'[p].step, r)
    BY <1>11, <1>4, <2>1 DEF Keepalive, SourceReceived, Broken, Later, Allowed,
       Snapshot
  <2>4. telemetry' = [telemetry EXCEPT ![p] = r]
    BY <1>11, <1>3 DEF Keepalive, Reports
  <2> HIDE DEF r
  <2>5. /\ DOMAIN telemetry' = DOMAIN telemetry
        /\ telemetry' \in [DOMAIN telemetry -> Snapshot]
        /\ telemetry'[p] = r
        /\ \A q \in DOMAIN telemetry \ {p} : telemetry'[q] = telemetry[q]
    BY <1>2, <1>5, <2>2, <2>4, ReportOne
  <2> QED BY <1>11, <1>5, <2>1, <2>2, <2>3, <2>5 DEF Keepalive, JobMoves
<1>12. ASSUME NEW lsn \in 1 .. MaxLsn, Receives(p, lsn) PROVE JobMoves(p)
  <2>1. UNCHANGED tasks /\ tasks[p].step = "streaming"
    BY <1>12 DEF Receives
  <2> DEFINE r == TransactionReceived(s, lsn)
  <2>2. r \in Snapshot /\ r.checkpoint <= durable[p]
    BY <1>3, <1>4, <1>5 DEF TransactionReceived, Later, Snapshot, Phases, States
  <2>3. Allowed(tasks'[p].step, r)
    BY <1>12, <1>4, <2>1 DEF Receives, TransactionReceived, Later, Allowed, Snapshot
  <2>4. telemetry' = [telemetry EXCEPT ![p] = r]
    BY <1>12, <1>3 DEF Receives, Reports
  <2> HIDE DEF r
  <2>5. /\ DOMAIN telemetry' = DOMAIN telemetry
        /\ telemetry' \in [DOMAIN telemetry -> Snapshot]
        /\ telemetry'[p] = r
        /\ \A q \in DOMAIN telemetry \ {p} : telemetry'[q] = telemetry[q]
    BY <1>2, <1>5, <2>2, <2>4, ReportOne
  <2> QED BY <1>12, <1>5, <2>1, <2>2, <2>3, <2>5 DEF Receives, JobMoves
<1>13. ASSUME NEW lsn \in 1 .. MaxLsn, Commits(p, lsn) PROVE JobMoves(p)
  <2>1. /\ tasks' \in [Pipeline -> Task] /\ tasks'[p].step = "committed"
        /\ \A q \in Pipeline \ {p} : tasks'[q] = tasks[q]
    BY <1>13, <1>5, TaskOne DEF Commits, Moves, Steps
  <2>2. Allowed(tasks'[p].step, s)
    BY <1>13, <1>4, <2>1 DEF Commits, Allowed
  <2>3. /\ durable' \in [Pipeline -> Nat]
        /\ \A q \in Pipeline : durable[q] <= durable'[q]
    BY <1>13, <1>5 DEF Commits
  <2>4. UNCHANGED <<telemetry, managed, hostVars, views>> /\ s.checkpoint <= durable'[p]
    BY <1>13, <1>3, <1>4, <1>5, <2>3 DEF Commits, Snapshot
  <2> QED BY <1>3, <1>5, <2>1, <2>2, <2>3, <2>4 DEF JobMoves
<1>14. CASE ReportsApplied(p)
  <2>1. /\ tasks' \in [Pipeline -> Task] /\ tasks'[p].step = "acknowledging"
        /\ \A q \in Pipeline \ {p} : tasks'[q] = tasks[q]
    BY <1>14, <1>5, TaskOne DEF ReportsApplied, Moves, Steps
  <2> DEFINE r == Applied(s, durable[p])
  <2>2. r \in Snapshot /\ r.checkpoint <= durable[p]
    BY <1>3, <1>4, <1>5, PositionReports
  <2>3. Allowed(tasks'[p].step, r)
    BY <1>14, <1>4, <2>1 DEF ReportsApplied, Applied, Broken, Later,
       CheckpointReached, Allowed, Snapshot
  <2>4. telemetry' = [telemetry EXCEPT ![p] = r]
    BY <1>14, <1>3 DEF ReportsApplied, Reports
  <2> HIDE DEF r
  <2>5. /\ DOMAIN telemetry' = DOMAIN telemetry
        /\ telemetry' \in [DOMAIN telemetry -> Snapshot]
        /\ telemetry'[p] = r
        /\ \A q \in DOMAIN telemetry \ {p} : telemetry'[q] = telemetry[q]
    BY <1>2, <1>5, <2>2, <2>4, ReportOne
  <2> QED BY <1>14, <1>5, <2>1, <2>2, <2>3, <2>5 DEF ReportsApplied, JobMoves
<1>15. CASE Acknowledged(p)
  <2>1. /\ tasks' \in [Pipeline -> Task] /\ tasks'[p].step = "streaming"
        /\ \A q \in Pipeline \ {p} : tasks'[q] = tasks[q]
    BY <1>15, <1>5, TaskOne DEF Acknowledged, Moves, Steps
  <2> DEFINE r == CheckpointReached(s, durable[p])
  <2>2. r \in Snapshot /\ r.checkpoint <= durable[p]
    BY <1>3, <1>4, <1>5 DEF CheckpointReached, Later, Snapshot, Phases, States
  <2>3. Allowed(tasks'[p].step, r)
    BY <1>15, <1>4, <2>1 DEF Acknowledged, CheckpointReached, Later, Allowed, Snapshot
  <2>4. telemetry' = [telemetry EXCEPT ![p] = r]
    BY <1>15, <1>3 DEF Acknowledged, Reports
  <2> HIDE DEF r
  <2>5. /\ DOMAIN telemetry' = DOMAIN telemetry
        /\ telemetry' \in [DOMAIN telemetry -> Snapshot]
        /\ telemetry'[p] = r
        /\ \A q \in DOMAIN telemetry \ {p} : telemetry'[q] = telemetry[q]
    BY <1>2, <1>5, <2>2, <2>4, ReportOne
  <2> QED BY <1>15, <1>5, <2>1, <2>2, <2>3, <2>5 DEF Acknowledged, JobMoves
<1>16. CASE Degrades(p)
  <2>1. /\ tasks' \in [Pipeline -> Task] /\ tasks'[p].step = "degraded"
        /\ \A q \in Pipeline \ {p} : tasks'[q] = tasks[q]
    BY <1>16, <1>5, TaskOne DEF Degrades, Moves, Steps
  <2> DEFINE r == MarkDegraded(s)
  <2>2. r \in Snapshot /\ r.checkpoint <= durable[p]
    BY <1>3, <1>4, <1>5 DEF MarkDegraded, Snapshot, Phases, States
  <2>3. Allowed(tasks'[p].step, r)
    BY <1>16, <1>4, <2>1 DEF Degrades, MarkDegraded, Allowed, Snapshot
  <2>4. telemetry' = [telemetry EXCEPT ![p] = r]
    BY <1>16, <1>3 DEF Degrades, Reports
  <2> HIDE DEF r
  <2>5. /\ DOMAIN telemetry' = DOMAIN telemetry
        /\ telemetry' \in [DOMAIN telemetry -> Snapshot]
        /\ telemetry'[p] = r
        /\ \A q \in DOMAIN telemetry \ {p} : telemetry'[q] = telemetry[q]
    BY <1>2, <1>5, <2>2, <2>4, ReportOne
  <2> QED BY <1>16, <1>5, <2>1, <2>2, <2>3, <2>5 DEF Degrades, JobMoves
<1>17. CASE Returns(p)
  <2>1. /\ tasks' \in [Pipeline -> Task] /\ tasks'[p].step = "done"
        /\ \A q \in Pipeline \ {p} : tasks'[q] = tasks[q]
    BY <1>17, <1>5, TaskOne DEF Returns, Finishes, Steps
  <2>2. Allowed(tasks'[p].step, s)
    BY <1>17, <1>4, <2>1 DEF Returns, Allowed
  <2> QED BY <1>17, <1>2, <1>3, <1>4, <1>5, <2>1, <2>2 DEF Returns, JobMoves
<1>18. CASE Cancelled(p)
  <2>1. /\ tasks' \in [Pipeline -> Task] /\ tasks'[p].step = "done"
        /\ \A q \in Pipeline \ {p} : tasks'[q] = tasks[q]
    BY <1>18, <1>5, TaskOne DEF Cancelled, Finishes, Steps
  <2> DEFINE r == SetPhase(s, "stopped")
  <2>2. r \in Snapshot /\ r.checkpoint <= durable[p]
    BY <1>3, <1>4, <1>5 DEF SetPhase, Snapshot, Phases, States
  <2>3. Allowed(tasks'[p].step, r)
    BY <1>18, <1>4, <2>1 DEF Cancelled, SetPhase, Allowed, Snapshot
  <2>4. telemetry' = [telemetry EXCEPT ![p] = r]
    BY <1>18, <1>3 DEF Cancelled, Reports
  <2> HIDE DEF r
  <2>5. /\ DOMAIN telemetry' = DOMAIN telemetry
        /\ telemetry' \in [DOMAIN telemetry -> Snapshot]
        /\ telemetry'[p] = r
        /\ \A q \in DOMAIN telemetry \ {p} : telemetry'[q] = telemetry[q]
    BY <1>2, <1>5, <2>2, <2>4, ReportOne
  <2> QED BY <1>18, <1>5, <2>1, <2>2, <2>3, <2>5 DEF Cancelled, JobMoves
<1>19. CASE Fails(p)
  <2>1. /\ tasks' \in [Pipeline -> Task] /\ tasks'[p].step = "done"
        /\ \A q \in Pipeline \ {p} : tasks'[q] = tasks[q]
    BY <1>19, <1>5, TaskOne DEF Fails, Finishes, Steps
  <2> DEFINE r == MarkFailed(s)
  <2>2. r \in Snapshot /\ r.checkpoint <= durable[p]
    BY <1>3, <1>4, <1>5 DEF MarkFailed, Snapshot, Phases, States
  <2>3. Allowed(tasks'[p].step, r)
    BY <1>19, <1>4, <2>1 DEF Fails, MarkFailed, Allowed, Snapshot
  <2>4. telemetry' = [telemetry EXCEPT ![p] = r]
    BY <1>19, <1>3 DEF Fails, Reports
  <2> HIDE DEF r
  <2>5. /\ DOMAIN telemetry' = DOMAIN telemetry
        /\ telemetry' \in [DOMAIN telemetry -> Snapshot]
        /\ telemetry'[p] = r
        /\ \A q \in DOMAIN telemetry \ {p} : telemetry'[q] = telemetry[q]
    BY <1>2, <1>5, <2>2, <2>4, ReportOne
  <2> QED BY <1>19, <1>5, <2>1, <2>2, <2>3, <2>5 DEF Fails, JobMoves
<1>20. CASE Drops(p)
  <2>1. /\ tasks' \in [Pipeline -> Task] /\ tasks'[p].step = "done"
        /\ \A q \in Pipeline \ {p} : tasks'[q] = tasks[q]
    BY <1>20, <1>5, TaskOne DEF Drops, Finishes, Steps
  <2>2. Allowed(tasks'[p].step, s)
    BY <1>20, <1>4, <2>1 DEF Drops, Allowed, Alive, RuntimeTypes, Task, Steps
  <2> QED BY <1>20, <1>2, <1>3, <1>4, <1>5, <2>1, <2>2 DEF Drops, JobMoves
<1> QED
  BY <1>1, <1>2, <1>6, <1>7, <1>8, <1>9, <1>10, <1>11, <1>12, <1>13, <1>14, <1>15,
     <1>16, <1>17, <1>18, <1>19, <1>20
  DEF Job

\* record_finished, of a task that was reaped, joined or aborted, leaves a
\* snapshot that tells an outcome, and its checkpoint as it was.
EndMoves(p) ==
  /\ p \in DOMAIN telemetry
  /\ tasks' = [tasks EXCEPT ![p] = NoTask]
  /\ DOMAIN telemetry' = DOMAIN telemetry /\ telemetry' \in [DOMAIN telemetry -> Snapshot]
  /\ \A q \in DOMAIN telemetry \ {p} : telemetry'[q] = telemetry[q]
  /\ Outcome(telemetry'[p]) /\ telemetry'[p].checkpoint = telemetry[p].checkpoint

\* A job that ended by itself has reported, or is recorded as stopped or failed;
\* one that was told to stop, or was aborted, is recorded as such.
LEMMA RecordedOutcome ==
  ASSUME NEW s \in Snapshot, NEW step \in Steps \ {"none"}, Allowed(step, s),
         NEW ok \in BOOLEAN, NEW intentional \in BOOLEAN,
         ok /\ ~intentional => step = "done"
  PROVE  /\ RecordFinished(s, ok, intentional) \in Snapshot
         /\ Outcome(RecordFinished(s, ok, intentional))
         /\ RecordFinished(s, ok, intentional).checkpoint = s.checkpoint
<1>1. /\ MarkStopped(s) \in Snapshot /\ Outcome(MarkStopped(s))
      /\ MarkStopped(s).checkpoint = s.checkpoint
  BY DEF MarkStopped, Outcome, Snapshot, Phases, States
<1>2. /\ MarkFailed(s) \in Snapshot /\ Outcome(MarkFailed(s))
      /\ MarkFailed(s).checkpoint = s.checkpoint
  BY DEF MarkFailed, Outcome, Snapshot, Phases, States
<1>3. CASE intentional
  BY <1>1, <1>3 DEF RecordFinished
<1>4. CASE ~intentional /\ ~ok
  BY <1>2, <1>4 DEF RecordFinished
<1>5. CASE ~intentional /\ ok
  <2>1. s.state \in {"degraded", "failed"} => Outcome(s)
    BY <1>5 DEF Allowed, Outcome
  <2> QED BY <1>1, <1>5, <2>1 DEF RecordFinished
<1> QED BY <1>3, <1>4, <1>5

\* Reaping records the outcome of one finished task.
LEMMA RecordedStep ==
  ASSUME RuntimeTypes, TaskInv, ReportInv, NEW p \in Pipeline, Reap(p)
  PROVE  EndMoves(p)
<1>1. tasks[p].step = "done" /\ tasks[p].ok \in BOOLEAN /\ p \in DOMAIN telemetry
  BY DEF Reap, RuntimeTypes, TaskInv, Task
<1>2. telemetry \in [DOMAIN telemetry -> Snapshot] /\ Allowed("done", telemetry[p])
  BY <1>1 DEF RuntimeTypes, ReportInv
<1>3. PICK r \in Snapshot :
        /\ r = RecordFinished(telemetry[p], tasks[p].ok, FALSE)
        /\ Outcome(r) /\ r.checkpoint = telemetry[p].checkpoint
  BY <1>1, <1>2, RecordedOutcome DEF Steps
<1>4. telemetry' = [telemetry EXCEPT ![p] = r] /\ tasks' = [tasks EXCEPT ![p] = NoTask]
  BY <1>3 DEF Reap, Reports
<1> QED BY <1>1, <1>2, <1>3, <1>4, ReportOne DEF EndMoves

\* So does the end of a stop, whether the task was joined or aborted.
LEMMA JoinEnds ==
  ASSUME RuntimeTypes, TaskInv, ReportInv, Joins \/ Aborts
  PROVE  rec.p \in Pipeline /\ EndMoves(rec.p)
<1>1. PICK p \in Pipeline : p = rec.p
  BY DEF Joins, Aborts, RuntimeTypes, Rec
<1>2. /\ tasks[p].step \in Steps \ {"none"} /\ tasks[p].ok \in BOOLEAN
      /\ p \in DOMAIN telemetry
  BY <1>1 DEF Joins, Aborts, RuntimeTypes, TaskInv, Task
<1>3. /\ telemetry \in [DOMAIN telemetry -> Snapshot]
      /\ Allowed(tasks[p].step, telemetry[p])
  BY <1>2 DEF RuntimeTypes, ReportInv
<1>4. ASSUME NEW ok \in BOOLEAN, NEW intentional \in BOOLEAN, ok => intentional
      PROVE  /\ RecordFinished(telemetry[p], ok, intentional) \in Snapshot
             /\ Outcome(RecordFinished(telemetry[p], ok, intentional))
             /\ RecordFinished(telemetry[p], ok, intentional).checkpoint
                  = telemetry[p].checkpoint
  BY <1>2, <1>3, <1>4, RecordedOutcome
<1>5. PICK r \in Snapshot :
        /\ Outcome(r) /\ r.checkpoint = telemetry[p].checkpoint
        /\ telemetry' = [telemetry EXCEPT ![p] = r]
  BY <1>1, <1>2, <1>4 DEF Joins, Aborts, Joined, Reports
<1>6. tasks' = [tasks EXCEPT ![p] = NoTask]
  BY <1>1 DEF Joins, Aborts, Joined
<1> QED BY <1>1, <1>2, <1>3, <1>5, <1>6, ReportOne DEF EndMoves

\* supervisor.start reports a start, over whatever the earlier run left.
StartMoves ==
  /\ rec.p \in DOMAIN telemetry
  /\ tasks' = [tasks EXCEPT ![rec.p] = NewTask]
  /\ DOMAIN telemetry' = DOMAIN telemetry /\ telemetry' \in [DOMAIN telemetry -> Snapshot]
  /\ \A q \in DOMAIN telemetry \ {rec.p} : telemetry'[q] = telemetry[q]
  /\ telemetry'[rec.p].state = "starting" /\ telemetry'[rec.p].phase # "running"
  /\ telemetry'[rec.p].checkpoint = telemetry[rec.p].checkpoint

\* Starting a pipeline is such a step.
LEMMA StartStep ==
  ASSUME RuntimeTypes, TaskInv, ReportInv, Starts
  PROVE  rec.p \in Pipeline /\ StartMoves
<1>1. PICK p \in Pipeline : p = rec.p
  BY DEF Starts, RuntimeTypes, Rec
<1>2. tasks[p].step = "none" /\ p \in DOMAIN telemetry
  BY <1>1 DEF Starts, TaskInv
<1>3. telemetry \in [DOMAIN telemetry -> Snapshot] /\ Outcome(telemetry[p])
  BY <1>2 DEF RuntimeTypes, ReportInv, Allowed
<1>4. PICK r \in Snapshot :
        /\ r = MarkStarted(telemetry[p])
        /\ r.state = "starting" /\ r.phase # "running"
        /\ r.checkpoint = telemetry[p].checkpoint
  <2>1. PICK s \in Snapshot : s = telemetry[p]
    BY <1>2, <1>3
  <2>2. MarkStarted(s) \in Snapshot /\ MarkStarted(s).state = "starting"
    BY DEF MarkStarted, Snapshot, States
  <2>3. MarkStarted(s).phase # "running" /\ MarkStarted(s).checkpoint = s.checkpoint
    BY <1>3, <2>1 DEF MarkStarted, Outcome, Snapshot
  <2> QED BY <2>1, <2>2, <2>3
<1>5. telemetry' = [telemetry EXCEPT ![p] = r] /\ tasks' = [tasks EXCEPT ![p] = NewTask]
  BY <1>1, <1>4 DEF Starts, Reports
<1> QED BY <1>1, <1>2, <1>3, <1>4, <1>5, ReportOne DEF StartMoves

-----------------------------------------------------------------------------
(* Every step keeps each part of the invariant. *)

\* Every step keeps the types, and the shape of what the reconciler and the
\* service are doing.
LEMMA TypeStep ==
  ASSUME RuntimeTypes, TaskInv, ReportInv, ReportedCheckpointIsDurable, RuntimeNext
  PROVE  RuntimeTypes'
<1> USE DEF RuntimeTypes, Rec, Service
<1>1. ASSUME NEW p \in Pipeline, JobMoves(p) /\ Alive(p) /\ p \in DOMAIN telemetry
      PROVE  RuntimeTypes'
  BY <1>1 DEF JobMoves, Alive
<1>2. CASE BeginTick
  BY <1>2 DEF BeginTick, Alive, InReconciler
<1>3. ASSUME NEW p \in Pipeline, Reap(p) PROVE RuntimeTypes'
  <2>1. EndMoves(p)
    BY <1>3, RecordedStep
  <2>2. tasks' \in [Pipeline -> Task] /\ managed' = managed /\ InReconciler
    BY <1>3, <2>1 DEF Reap, EndMoves, Task, Steps
  <2>3. rec' \in Rec
    BY <1>3 DEF Reap
  <2> QED BY <2>1, <2>2, <2>3 DEF EndMoves, InReconciler
<1>4. CASE Reaped
  BY <1>4 DEF Reaped, InReconciler
<1>5. ASSUME NEW p \in Pipeline, Passes(p) PROVE RuntimeTypes'
  BY <1>5 DEF Passes, InReconciler
<1>6. ASSUME NEW p \in Pipeline, Creates(p) PROVE RuntimeTypes'
  <2>1. NewSnapshot \in Snapshot
    BY DEF Snapshot, Phases, States
  <2>2. /\ DOMAIN telemetry' = DOMAIN telemetry \cup {p}
        /\ telemetry' \in [DOMAIN telemetry' -> Snapshot]
    BY <1>6, <2>1 DEF Creates
  <2>3. rec' \in Rec
    BY <1>6 DEF Creates
  <2> QED BY <1>6, <2>2, <2>3 DEF Creates, InReconciler
<1>7. CASE CreateFails
  BY <1>7 DEF CreateFails, InReconciler
<1>8. CASE Starts
  <2>1. rec.p \in Pipeline /\ StartMoves
    BY <1>8, StartStep
  <2>2. tasks' \in [Pipeline -> Task] /\ managed' = managed \cup {rec.p} /\ InReconciler
    <3>1. NewTask \in Task
      BY DEF Task, Steps
    <3> HIDE DEF NewTask
    <3> QED BY <1>8, <2>1, <3>1 DEF Starts, StartMoves
  <2>3. rec' \in Rec
    BY <1>8 DEF Starts
  <2> QED BY <2>1, <2>2, <2>3 DEF StartMoves, InReconciler
<1>9. ASSUME NEW p \in Pipeline, Stops(p) PROVE RuntimeTypes'
  <2>1. tasks' \in [Pipeline -> Task]
    BY <1>9 DEF Stops, Task
  <2>2. rec' \in Rec
    <3>1. rec.todo \in SUBSET Pipeline /\ rec.step \in {"tick", "shutdown"}
      BY <1>9 DEF Stops
    <3>2. PICK todo \in SUBSET Pipeline :
            rec' = [step |-> "joining", p |-> p, todo |-> todo, back |-> rec.step]
      BY <1>9, <3>1 DEF Stops
    <3> QED BY <3>1, <3>2
  <2> QED BY <1>9, <2>1, <2>2 DEF Stops, InReconciler
<1>10. CASE Joins
  <2>1. rec.p \in Pipeline /\ EndMoves(rec.p)
    BY <1>10, JoinEnds
  <2>2. tasks' \in [Pipeline -> Task] /\ managed' = managed /\ InReconciler
    BY <1>10, <2>1 DEF Joins, Joined, EndMoves, Task, Steps
  <2>3. rec' \in Rec
    BY <1>10 DEF Joins, Joined
  <2> QED BY <2>1, <2>2, <2>3 DEF EndMoves, InReconciler
<1>11. CASE Aborts
  <2>1. rec.p \in Pipeline /\ EndMoves(rec.p)
    BY <1>11, JoinEnds
  <2>2. tasks' \in [Pipeline -> Task] /\ managed' = managed /\ InReconciler
    BY <1>11, <2>1 DEF Aborts, Joined, EndMoves, Task, Steps
  <2>3. rec' \in Rec
    BY <1>11 DEF Aborts, Joined
  <2> QED BY <2>1, <2>2, <2>3 DEF EndMoves, InReconciler
<1>12. CASE EndTick
  BY <1>12 DEF EndTick, InReconciler
<1>13. CASE BeginShutdown
  BY <1>13 DEF BeginShutdown, InReconciler
<1>14. CASE StopAll
  BY <1>14 DEF StopAll, InReconciler
<1>15. CASE Panics
  BY <1>15 DEF Panics
<1>16. ASSUME NEW v \in Viewer, NEW p \in Pipeline, ReadRunning(v, p) PROVE RuntimeTypes'
  <2>1. Running(p) \in BOOLEAN
    BY DEF Running, Alive
  <2>2. views' \in [Viewer -> View \cup {NoView}]
    BY <1>16, <2>1 DEF ReadRunning, See, View
  <2> QED BY <1>16, <2>2 DEF ReadRunning, InView
<1>17. ASSUME NEW v \in Viewer, ReadSnapshot(v) PROVE RuntimeTypes'
  <2>1. views[v] \in View
    BY <1>17 DEF ReadSnapshot, View
  <2>2. [views[v] EXCEPT !.step = "read",
           !.known = views[v].known \/ views[v].p \in DOMAIN telemetry] \in View
    BY <2>1 DEF View
  <2>3. views' \in [Viewer -> View \cup {NoView}]
    BY <1>17, <2>2 DEF ReadSnapshot, See
  <2> QED BY <1>17, <2>3 DEF ReadSnapshot, InView
<1>18. ASSUME NEW v \in Viewer, Responds(v) PROVE RuntimeTypes'
  BY <1>18 DEF Responds, See, InView
<1>19. CASE Signal
  BY <1>19 DEF Signal, InService
<1>20. ASSUME NEW how \in {"drained", "failed"}, ServerEnds(how) PROVE RuntimeTypes'
  BY <1>20 DEF ServerEnds, InService
<1>21. ASSUME NEW part \in {"server", "reconciler"}, OneEnds(part) PROVE RuntimeTypes'
  BY <1>21 DEF OneEnds, Over, InService
<1>22. CASE Exit
  BY <1>22 DEF Exit, Over, InService
<1> QED
  BY JobStep,
     <1>1, <1>2, <1>3, <1>4, <1>5, <1>6, <1>7, <1>8, <1>9, <1>10, <1>11,
     <1>12, <1>13, <1>14, <1>15, <1>16, <1>17, <1>18, <1>19, <1>20, <1>21,
     <1>22
  DEF RuntimeNext, Process, ReconcilerStep

\* A task leaves the supervisor's map only into the hands of the reconciler.
LEMMA TaskStep ==
  ASSUME RuntimeTypes, TaskInv, ReportInv, ReportedCheckpointIsDurable, EndInv, RuntimeNext
  PROVE  TaskInv'
<1> USE DEF RuntimeTypes, TaskInv, Rec, EndInv
<1>1. ASSUME NEW p \in Pipeline, JobMoves(p) /\ Alive(p) /\ p \in DOMAIN telemetry
      PROVE  TaskInv'
  BY <1>1 DEF JobMoves, Alive
<1>2. CASE BeginTick
  BY <1>2 DEF BeginTick, Alive, InReconciler
<1>3. ASSUME NEW p \in Pipeline, Reap(p) PROVE TaskInv'
  BY <1>3 DEF Reap, Reports, RecordFinished, MarkStopped, MarkFailed, InReconciler
<1>4. CASE Reaped
  BY <1>4 DEF Reaped, InReconciler
<1>5. ASSUME NEW p \in Pipeline, Passes(p) PROVE TaskInv'
  BY <1>5 DEF Passes, InReconciler
<1>6. ASSUME NEW p \in Pipeline, Creates(p) PROVE TaskInv'
  BY <1>6 DEF Creates, InReconciler
<1>7. CASE CreateFails
  BY <1>7 DEF CreateFails, InReconciler
<1>8. CASE Starts
  BY <1>8 DEF Starts, MarkStarted, Reports, InReconciler
<1>9. ASSUME NEW p \in Pipeline, Stops(p) PROVE TaskInv'
  BY <1>9 DEF Stops, InReconciler
<1>10. CASE Joins
  BY <1>10 DEF Joins, Joined, Alive, Reports, RecordFinished, MarkStopped,
     InReconciler
<1>11. CASE Aborts
  BY <1>11 DEF Aborts, Joined, Alive, Reports, RecordFinished, MarkFailed,
     InReconciler
<1>12. CASE EndTick
  BY <1>12 DEF EndTick, InReconciler
<1>13. CASE BeginShutdown
  BY <1>13 DEF BeginShutdown, InReconciler
<1>14. CASE StopAll
  BY <1>14 DEF StopAll, InReconciler
<1>15. CASE Panics
  BY <1>15 DEF Panics
<1>16. ASSUME NEW v \in Viewer, NEW p \in Pipeline, ReadRunning(v, p) PROVE TaskInv'
  BY <1>16 DEF ReadRunning, See, Running, InView, Alive
<1>17. ASSUME NEW v \in Viewer, ReadSnapshot(v) PROVE TaskInv'
  BY <1>17 DEF ReadSnapshot, See, InView
<1>18. ASSUME NEW v \in Viewer, Responds(v) PROVE TaskInv'
  BY <1>18 DEF Responds, See, InView
<1>19. CASE Signal
  BY <1>19 DEF Signal, InService
<1>20. ASSUME NEW how \in {"drained", "failed"}, ServerEnds(how) PROVE TaskInv'
  BY <1>20 DEF ServerEnds, InService
<1>21. ASSUME NEW part \in {"server", "reconciler"}, OneEnds(part) PROVE TaskInv'
  BY <1>21 DEF OneEnds, Over, InService
<1>22. CASE Exit
  BY <1>22 DEF Exit, Over, InService
<1> QED
  BY JobStep,
     <1>1, <1>2, <1>3, <1>4, <1>5, <1>6, <1>7, <1>8, <1>9, <1>10, <1>11,
     <1>12, <1>13, <1>14, <1>15, <1>16, <1>17, <1>18, <1>19, <1>20, <1>21,
     <1>22
  DEF RuntimeNext, Process, ReconcilerStep

\* Every report fits the step that the task takes with it.
LEMMA ReportTableStep ==
  ASSUME RuntimeTypes, TaskInv, ReportInv, ReportedCheckpointIsDurable, EndInv, RuntimeNext
  PROVE  ReportInv'
<1> USE DEF RuntimeTypes, TaskInv, ReportInv, Rec, EndInv
<1>1. ASSUME NEW p \in Pipeline, JobMoves(p) /\ Alive(p) /\ p \in DOMAIN telemetry
      PROVE  ReportInv'
  BY <1>1 DEF JobMoves, Alive
<1>2. CASE BeginTick
  BY <1>2 DEF BeginTick, Alive, InReconciler
<1>3. ASSUME NEW p \in Pipeline, Reap(p) PROVE ReportInv'
  <2>1. EndMoves(p)
    BY <1>3, RecordedStep
  <2>2. tasks'[p].step = "none" /\ \A q \in Pipeline \ {p} : tasks'[q] = tasks[q]
    BY <2>1 DEF EndMoves
  <2>3. Allowed("none", telemetry'[p])
    BY <2>1 DEF EndMoves, Allowed
  <2> QED BY <2>1, <2>2, <2>3 DEF EndMoves
<1>4. CASE Reaped
  BY <1>4 DEF Reaped, InReconciler
<1>5. ASSUME NEW p \in Pipeline, Passes(p) PROVE ReportInv'
  BY <1>5 DEF Passes, InReconciler
<1>6. ASSUME NEW p \in Pipeline, Creates(p) PROVE ReportInv'
  <2>1. p \notin DOMAIN telemetry => tasks[p].step = "none"
    OBVIOUS
  <2>2. Allowed("none", NewSnapshot)
    BY DEF Allowed, Outcome
  <2>3. /\ DOMAIN telemetry' = DOMAIN telemetry \cup {p} /\ tasks' = tasks
        /\ \A q \in DOMAIN telemetry : telemetry'[q] = telemetry[q]
        /\ p \notin DOMAIN telemetry => telemetry'[p] = NewSnapshot
    BY <1>6 DEF Creates
  <2> HIDE DEF NewSnapshot
  <2> QED BY <2>1, <2>2, <2>3
<1>7. CASE CreateFails
  BY <1>7 DEF CreateFails, InReconciler
<1>8. CASE Starts
  <2>1. StartMoves /\ rec.p \in Pipeline
    BY <1>8, StartStep
  <2>2. /\ tasks'[rec.p].step = "spawned"
        /\ \A q \in Pipeline \ {rec.p} : tasks'[q] = tasks[q]
    BY <2>1 DEF StartMoves
  <2>3. Allowed("spawned", telemetry'[rec.p])
    BY <2>1 DEF StartMoves, Allowed
  <2> QED BY <2>1, <2>2, <2>3 DEF StartMoves
<1>9. ASSUME NEW p \in Pipeline, Stops(p) PROVE ReportInv'
  BY <1>9 DEF Stops, InReconciler
<1>10. CASE Joins
  <2>1. EndMoves(rec.p) /\ rec.p \in Pipeline
    BY <1>10, JoinEnds
  <2>2. /\ tasks'[rec.p].step = "none"
        /\ \A q \in Pipeline \ {rec.p} : tasks'[q] = tasks[q]
    BY <2>1 DEF EndMoves
  <2>3. Allowed("none", telemetry'[rec.p])
    BY <2>1 DEF EndMoves, Allowed
  <2> QED BY <2>1, <2>2, <2>3 DEF EndMoves
<1>11. CASE Aborts
  <2>1. EndMoves(rec.p) /\ rec.p \in Pipeline
    BY <1>11, JoinEnds
  <2>2. /\ tasks'[rec.p].step = "none"
        /\ \A q \in Pipeline \ {rec.p} : tasks'[q] = tasks[q]
    BY <2>1 DEF EndMoves
  <2>3. Allowed("none", telemetry'[rec.p])
    BY <2>1 DEF EndMoves, Allowed
  <2> QED BY <2>1, <2>2, <2>3 DEF EndMoves
<1>12. CASE EndTick
  BY <1>12 DEF EndTick, InReconciler
<1>13. CASE BeginShutdown
  BY <1>13 DEF BeginShutdown, InReconciler
<1>14. CASE StopAll
  BY <1>14 DEF StopAll, InReconciler
<1>15. CASE Panics
  BY <1>15 DEF Panics
<1>16. ASSUME NEW v \in Viewer, NEW p \in Pipeline, ReadRunning(v, p)
      PROVE  ReportInv'
  BY <1>16 DEF ReadRunning, See, Running, InView, Alive
<1>17. ASSUME NEW v \in Viewer, ReadSnapshot(v) PROVE ReportInv'
  BY <1>17 DEF ReadSnapshot, See, InView
<1>18. ASSUME NEW v \in Viewer, Responds(v) PROVE ReportInv'
  BY <1>18 DEF Responds, See, InView
<1>19. CASE Signal
  BY <1>19 DEF Signal, InService
<1>20. ASSUME NEW how \in {"drained", "failed"}, ServerEnds(how) PROVE ReportInv'
  BY <1>20 DEF ServerEnds, InService
<1>21. ASSUME NEW part \in {"server", "reconciler"}, OneEnds(part) PROVE ReportInv'
  BY <1>21 DEF OneEnds, Over, InService
<1>22. CASE Exit
  BY <1>22 DEF Exit, Over, InService
<1> QED
  BY JobStep,
     <1>1, <1>2, <1>3, <1>4, <1>5, <1>6, <1>7, <1>8, <1>9, <1>10, <1>11,
     <1>12, <1>13, <1>14, <1>15, <1>16, <1>17, <1>18, <1>19, <1>20, <1>21,
     <1>22
  DEF RuntimeNext, Process, ReconcilerStep

\* A snapshot, once there, stays.
LEMMA ViewStep ==
  ASSUME RuntimeTypes, TaskInv, ReportInv, ReportedCheckpointIsDurable, ViewInv, RuntimeNext
  PROVE  ViewInv'
<1> USE DEF RuntimeTypes, TaskInv, ViewInv, View, Rec
<1>1. ASSUME NEW p \in Pipeline, JobMoves(p) /\ Alive(p) /\ p \in DOMAIN telemetry
      PROVE  ViewInv'
  BY <1>1 DEF JobMoves, Alive
<1>2. CASE BeginTick
  BY <1>2 DEF BeginTick, Alive, InReconciler
<1>3. ASSUME NEW p \in Pipeline, Reap(p) PROVE ViewInv'
  BY <1>3 DEF Reap, Reports, RecordFinished, MarkStopped, MarkFailed, InReconciler
<1>4. CASE Reaped
  BY <1>4 DEF Reaped, InReconciler
<1>5. ASSUME NEW p \in Pipeline, Passes(p) PROVE ViewInv'
  BY <1>5 DEF Passes, InReconciler
<1>6. ASSUME NEW p \in Pipeline, Creates(p) PROVE ViewInv'
  BY <1>6 DEF Creates, InReconciler
<1>7. CASE CreateFails
  BY <1>7 DEF CreateFails, InReconciler
<1>8. CASE Starts
  BY <1>8 DEF Starts, MarkStarted, Reports, InReconciler
<1>9. ASSUME NEW p \in Pipeline, Stops(p) PROVE ViewInv'
  BY <1>9 DEF Stops, InReconciler
<1>10. CASE Joins
  BY <1>10 DEF Joins, Joined, Alive, Reports, RecordFinished, MarkStopped,
     InReconciler
<1>11. CASE Aborts
  BY <1>11 DEF Aborts, Joined, Alive, Reports, RecordFinished, MarkFailed,
     InReconciler
<1>12. CASE EndTick
  BY <1>12 DEF EndTick, InReconciler
<1>13. CASE BeginShutdown
  BY <1>13 DEF BeginShutdown, InReconciler
<1>14. CASE StopAll
  BY <1>14 DEF StopAll, InReconciler
<1>15. CASE Panics
  BY <1>15 DEF Panics
<1>16. ASSUME NEW v \in Viewer, NEW p \in Pipeline, ReadRunning(v, p) PROVE ViewInv'
  BY <1>16 DEF ReadRunning, See, Running, InView, Alive
<1>17. ASSUME NEW v \in Viewer, ReadSnapshot(v) PROVE ViewInv'
  BY <1>17 DEF ReadSnapshot, See, InView
<1>18. ASSUME NEW v \in Viewer, Responds(v) PROVE ViewInv'
  BY <1>18 DEF Responds, See, InView
<1>19. CASE Signal
  BY <1>19 DEF Signal, InService
<1>20. ASSUME NEW how \in {"drained", "failed"}, ServerEnds(how) PROVE ViewInv'
  BY <1>20 DEF ServerEnds, InService
<1>21. ASSUME NEW part \in {"server", "reconciler"}, OneEnds(part) PROVE ViewInv'
  BY <1>21 DEF OneEnds, Over, InService
<1>22. CASE Exit
  BY <1>22 DEF Exit, Over, InService
<1> QED
  BY JobStep,
     <1>1, <1>2, <1>3, <1>4, <1>5, <1>6, <1>7, <1>8, <1>9, <1>10, <1>11,
     <1>12, <1>13, <1>14, <1>15, <1>16, <1>17, <1>18, <1>19, <1>20, <1>21,
     <1>22
  DEF RuntimeNext, Process, ReconcilerStep

\* Nothing starts again after it has ended.
LEMMA EndStep ==
  ASSUME RuntimeTypes, TaskInv, ReportInv, ReportedCheckpointIsDurable, EndInv, RuntimeNext
  PROVE  EndInv'
<1> USE DEF RuntimeTypes, TaskInv, EndInv, View, Rec, Service
<1>1. ASSUME NEW p \in Pipeline, JobMoves(p) /\ Alive(p) /\ p \in DOMAIN telemetry
      PROVE  EndInv'
  BY <1>1 DEF JobMoves, Alive
<1>2. CASE BeginTick
  BY <1>2 DEF BeginTick, Alive, InReconciler
<1>3. ASSUME NEW p \in Pipeline, Reap(p) PROVE EndInv'
  BY <1>3 DEF Reap, Reports, RecordFinished, MarkStopped, MarkFailed, InReconciler
<1>4. CASE Reaped
  BY <1>4 DEF Reaped, InReconciler
<1>5. ASSUME NEW p \in Pipeline, Passes(p) PROVE EndInv'
  BY <1>5 DEF Passes, InReconciler
<1>6. ASSUME NEW p \in Pipeline, Creates(p) PROVE EndInv'
  BY <1>6 DEF Creates, InReconciler
<1>7. CASE CreateFails
  BY <1>7 DEF CreateFails, InReconciler
<1>8. CASE Starts
  BY <1>8 DEF Starts, MarkStarted, Reports, InReconciler
<1>9. ASSUME NEW p \in Pipeline, Stops(p) PROVE EndInv'
  BY <1>9 DEF Stops, InReconciler
<1>10. CASE Joins
  BY <1>10 DEF Joins, Joined, Alive, Reports, RecordFinished, MarkStopped,
     InReconciler
<1>11. CASE Aborts
  BY <1>11 DEF Aborts, Joined, Alive, Reports, RecordFinished, MarkFailed,
     InReconciler
<1>12. CASE EndTick
  BY <1>12 DEF EndTick, InReconciler
<1>13. CASE BeginShutdown
  BY <1>13 DEF BeginShutdown, InReconciler
<1>14. CASE StopAll
  BY <1>14 DEF StopAll, InReconciler
<1>15. CASE Panics
  BY <1>15 DEF Panics
<1>16. ASSUME NEW v \in Viewer, NEW p \in Pipeline, ReadRunning(v, p) PROVE EndInv'
  BY <1>16 DEF ReadRunning, See, Running, InView, Alive
<1>17. ASSUME NEW v \in Viewer, ReadSnapshot(v) PROVE EndInv'
  BY <1>17 DEF ReadSnapshot, See, InView
<1>18. ASSUME NEW v \in Viewer, Responds(v) PROVE EndInv'
  BY <1>18 DEF Responds, See, InView
<1>19. CASE Signal
  BY <1>19 DEF Signal, InService
<1>20. ASSUME NEW how \in {"drained", "failed"}, ServerEnds(how) PROVE EndInv'
  BY <1>20 DEF ServerEnds, InService
<1>21. ASSUME NEW part \in {"server", "reconciler"}, OneEnds(part) PROVE EndInv'
  BY <1>21 DEF OneEnds, Over, InService
<1>22. CASE Exit
  BY <1>22 DEF Exit, Over, InService
<1> QED
  BY JobStep,
     <1>1, <1>2, <1>3, <1>4, <1>5, <1>6, <1>7, <1>8, <1>9, <1>10, <1>11,
     <1>12, <1>13, <1>14, <1>15, <1>16, <1>17, <1>18, <1>19, <1>20, <1>21,
     <1>22
  DEF RuntimeNext, Process, ReconcilerStep

\* A checkpoint is reported only after the target committed it.
LEMMA DurableStep ==
  ASSUME RuntimeTypes, TaskInv, ReportInv, ReportedCheckpointIsDurable, RuntimeNext
  PROVE  ReportedCheckpointIsDurable'
<1> USE DEF RuntimeTypes, TaskInv, ReportedCheckpointIsDurable, Rec
<1>1. ASSUME NEW p \in Pipeline, JobMoves(p) /\ Alive(p) /\ p \in DOMAIN telemetry
      PROVE  ReportedCheckpointIsDurable'
  <2>1. \A q \in DOMAIN telemetry \ {p} :
          telemetry'[q].checkpoint <= durable'[q]
    <3>1. \A q \in DOMAIN telemetry \ {p} :
            /\ telemetry[q].checkpoint \in Nat /\ durable[q] \in Nat /\ durable'[q] \in Nat
            /\ telemetry'[q] = telemetry[q] /\ durable[q] <= durable'[q]
            /\ telemetry[q].checkpoint <= durable[q]
      BY <1>1 DEF JobMoves, Snapshot
    <3> QED BY <3>1
  <2> QED BY <1>1, <2>1 DEF JobMoves
<1>2. CASE BeginTick
  BY <1>2 DEF BeginTick, Alive, InReconciler
<1>3. ASSUME NEW p \in Pipeline, Reap(p) PROVE ReportedCheckpointIsDurable'
  BY <1>3 DEF Reap, Reports, RecordFinished, MarkStopped, MarkFailed, InReconciler
<1>4. CASE Reaped
  BY <1>4 DEF Reaped, InReconciler
<1>5. ASSUME NEW p \in Pipeline, Passes(p) PROVE ReportedCheckpointIsDurable'
  BY <1>5 DEF Passes, InReconciler
<1>6. ASSUME NEW p \in Pipeline, Creates(p) PROVE ReportedCheckpointIsDurable'
  BY <1>6 DEF Creates, InReconciler
<1>7. CASE CreateFails
  BY <1>7 DEF CreateFails, InReconciler
<1>8. CASE Starts
  BY <1>8 DEF Starts, MarkStarted, Reports, InReconciler
<1>9. ASSUME NEW p \in Pipeline, Stops(p) PROVE ReportedCheckpointIsDurable'
  BY <1>9 DEF Stops, InReconciler
<1>10. CASE Joins
  BY <1>10 DEF Joins, Joined, Alive, Reports, RecordFinished, MarkStopped,
     InReconciler
<1>11. CASE Aborts
  BY <1>11 DEF Aborts, Joined, Alive, Reports, RecordFinished, MarkFailed,
     InReconciler
<1>12. CASE EndTick
  BY <1>12 DEF EndTick, InReconciler
<1>13. CASE BeginShutdown
  BY <1>13 DEF BeginShutdown, InReconciler
<1>14. CASE StopAll
  BY <1>14 DEF StopAll, InReconciler
<1>15. CASE Panics
  BY <1>15 DEF Panics
<1>16. ASSUME NEW v \in Viewer, NEW p \in Pipeline, ReadRunning(v, p)
      PROVE  ReportedCheckpointIsDurable'
  BY <1>16 DEF ReadRunning, See, Running, InView, Alive
<1>17. ASSUME NEW v \in Viewer, ReadSnapshot(v) PROVE ReportedCheckpointIsDurable'
  BY <1>17 DEF ReadSnapshot, See, InView
<1>18. ASSUME NEW v \in Viewer, Responds(v) PROVE ReportedCheckpointIsDurable'
  BY <1>18 DEF Responds, See, InView
<1>19. CASE Signal
  BY <1>19 DEF Signal, InService
<1>20. ASSUME NEW how \in {"drained", "failed"}, ServerEnds(how)
      PROVE  ReportedCheckpointIsDurable'
  BY <1>20 DEF ServerEnds, InService
<1>21. ASSUME NEW part \in {"server", "reconciler"}, OneEnds(part)
      PROVE  ReportedCheckpointIsDurable'
  BY <1>21 DEF OneEnds, Over, InService
<1>22. CASE Exit
  BY <1>22 DEF Exit, Over, InService
<1> QED
  BY JobStep,
     <1>1, <1>2, <1>3, <1>4, <1>5, <1>6, <1>7, <1>8, <1>9, <1>10, <1>11,
     <1>12, <1>13, <1>14, <1>15, <1>16, <1>17, <1>18, <1>19, <1>20, <1>21,
     <1>22
  DEF RuntimeNext, Process, ReconcilerStep

\* The process exits only after both of its parts have ended.
LEMMA ExitStep ==
  ASSUME RuntimeTypes, TaskInv, EndInv, RuntimeNext
  PROVE  ExitLeavesNoJob'
<1>1. CASE Exit
  <2>1. rec.step \in {"done", "dead"} /\ server # "open"
    BY <1>1 DEF Exit, Over, EndInv, RuntimeTypes, Service
  <2>2. rec.step = "done" => \A p \in Pipeline : ~Alive(p)
    BY DEF EndInv, Alive
  <2>3. /\ service'.ok => rec.step = "done" /\ server = "drained"
        /\ UNCHANGED <<tasks, rec, views>>
    BY <1>1 DEF Exit, InService
  <2> QED BY <2>1, <2>2, <2>3 DEF ExitLeavesNoJob, EndInv, Alive
<1>2. CASE service' = service \/ service'.step = "waiting"
  BY <1>2 DEF RuntimeNext, ExitLeavesNoJob
<1>3. CASE ReconcilerStep \/ Panics
  <2>1. service' = service
    BY <1>3 DEF ReconcilerStep, Panics, BeginTick, Reaped, CreateFails, Starts,
       Joins, Aborts,
                Joined, EndTick, BeginShutdown, StopAll, Reap, Passes, Creates, Stops,
                InReconciler
  <2> QED BY <1>2, <2>1
<1>4. ASSUME NEW p \in Pipeline, Job(p) PROVE ExitLeavesNoJob'
  <2>1. service' = service
    BY <1>4 DEF Job, Begins, Prepares, Activates, Initialized, Streams, Keepalive,
       Receives,
                Commits, ReportsApplied, Acknowledged, Degrades, Returns, Cancelled, Fails,
                Drops, InTask
  <2> QED BY <1>2, <2>1
<1>5. ASSUME NEW v \in Viewer,
             ReadSnapshot(v) \/ Responds(v) \/ \E p \in Pipeline : ReadRunning(v, p)
      PROVE  ExitLeavesNoJob'
  <2>1. service' = service
    BY <1>5 DEF ReadSnapshot, Responds, ReadRunning, InView
  <2> QED BY <1>2, <2>1
<1>6. CASE Signal \/ \E how \in {"drained", "failed"} : ServerEnds(how)
  BY <1>2, <1>6 DEF Signal, ServerEnds
<1>7. ASSUME NEW part \in {"server", "reconciler"}, OneEnds(part) PROVE ExitLeavesNoJob'
  BY <1>2, <1>7 DEF OneEnds
<1> QED BY <1>1, <1>3, <1>4, <1>5, <1>6, <1>7 DEF RuntimeNext, Process

-----------------------------------------------------------------------------
(* The invariant holds in every reachable state. *)

\* The process starts with no task, no snapshot and no request.
LEMMA InitRuntime ==
  ASSUME RuntimeInit
  PROVE  RuntimeInv
<1> USE DEF RuntimeInit
<1>1. RuntimeTypes
  <2>1. DOMAIN telemetry = {} /\ telemetry \in [{} -> Snapshot]
    OBVIOUS
  <2>2. tasks \in [Pipeline -> Task] /\ views \in [Viewer -> View \cup {NoView}]
    BY DEF Task, Steps
  <2>3. rec \in Rec /\ service \in Service
    BY DEF Rec, Service
  <2> QED BY <2>1, <2>2, <2>3 DEF RuntimeTypes
<1>2. TaskInv /\ ReportInv /\ ViewInv /\ EndInv
  BY DEF TaskInv, ReportInv, ViewInv, EndInv
<1>3. ReportedCheckpointIsDurable /\ ExitLeavesNoJob
  BY DEF ReportedCheckpointIsDurable, ExitLeavesNoJob
<1> QED BY <1>1, <1>2, <1>3 DEF RuntimeInv

\* Every step keeps the invariant.
LEMMA NextRuntime ==
  ASSUME RuntimeInv, [RuntimeNext]_runtimeVars
  PROVE  RuntimeInv'
<1>1. CASE RuntimeNext
  <2> USE <1>1 DEF RuntimeInv
  <2>1. RuntimeTypes' /\ TaskInv' /\ ReportInv'
    BY TypeStep, TaskStep, ReportTableStep
  <2>2. ViewInv' /\ EndInv' /\ ReportedCheckpointIsDurable' /\ ExitLeavesNoJob'
    BY ViewStep, EndStep, DurableStep, ExitStep
  <2> QED BY <2>1, <2>2
<1>2. CASE UNCHANGED runtimeVars
  BY <1>2 DEF RuntimeInv, RuntimeTypes, TaskInv, ReportInv, ViewInv, EndInv,
              ReportedCheckpointIsDurable, ExitLeavesNoJob, Alive
<1> QED BY <1>1, <1>2

\* Every reachable state of a server process satisfies the inductive invariant.
THEOREM RuntimeInvAlways == RuntimeSpec => []RuntimeInv
BY InitRuntime, NextRuntime, PTL DEF RuntimeSpec

-----------------------------------------------------------------------------
(* What the process guarantees. *)

\* A pipeline is reported as what its task is, and a request that saw a running
\* job finds its snapshot, for any number of pipelines and requests.
THEOREM TasksAreReported == RuntimeSpec => []TaskIsReported
<1>1. RuntimeInv => TaskIsReported
  <2> SUFFICES ASSUME RuntimeInv PROVE TaskIsReported
    OBVIOUS
  <2>1. ASSUME NEW p \in DOMAIN telemetry
        PROVE  LET s == telemetry[p] IN
               /\ Alive(p) /\ p \in managed => s.state \in {"starting", "running", "degraded"}
               /\ tasks[p].step = "none" /\ ~Handled(p) =>
                    s.state \in {"stopped", "failed", "degraded"}
               /\ tasks[p].step \notin {"spawned", "none"} /\ s.phase = "running" =>
                    s.state = "running"
               /\ s.state \in {"failed", "degraded"} => s.phase = s.state
               /\ s.state = "stopped" => s.phase \in {"stopped", "draft"}
    <3>1. Allowed(tasks[p].step, telemetry[p]) /\ tasks[p].step \in Steps
      BY DEF RuntimeInv, ReportInv, RuntimeTypes, Task
    <3> QED BY <3>1 DEF Allowed, Outcome, Steps, Alive
  <2>2. \A v \in Viewer : views[v].step = "read" /\ views[v].running => views[v].known
    BY DEF RuntimeInv, ViewInv
  <2> QED BY <2>1, <2>2 DEF TaskIsReported
<1> QED BY <1>1, RuntimeInvAlways, PTL

\* The checkpoint shown for a pipeline is in the target database, wherever the
\* job was interrupted between the commit and the report.
THEOREM CheckpointsAreDurable == RuntimeSpec => []ReportedCheckpointIsDurable
<1>1. RuntimeInv => ReportedCheckpointIsDurable
  BY DEF RuntimeInv
<1> QED BY <1>1, RuntimeInvAlways, PTL

\* Unless the reconciler died, the process leaves no job behind when it exits,
\* and it exits with success only after an orderly shutdown.
THEOREM ExitIsOrderly == RuntimeSpec => []ExitLeavesNoJob
<1>1. RuntimeInv => ExitLeavesNoJob
  BY DEF RuntimeInv
<1> QED BY <1>1, RuntimeInvAlways, PTL
=============================================================================
