------------------------------- MODULE Control -------------------------------
(***************************************************************************)
(* The definitions of the control database and the handlers of the         *)
(* management API that change them: sources, targets, pipelines, rebuild   *)
(* operations with their audit log, and the gates of connection tests and  *)
(* metrics scrapes.                                                        *)
(*                                                                         *)
(* Every store method is one SQL statement, hence one step; a handler that *)
(* makes one statement is that step, a longer one is split.  A client that *)
(* lost the answer to a statement repeats its request.  Jobs of several    *)
(* runtimes ask for rebuilds and report them completed.                    *)
(***************************************************************************)
EXTENDS Naturals, FiniteSets, Bags

CONSTANTS
  Client,       \* HTTP requests in flight together
  Name,         \* names of sources, targets and pipelines
  Prefix,       \* prefixes of sources
  TestPermits,  \* permits of connection_test_gate
  MaxRows,      \* bound: rows per table of definitions
  MaxOperations \* bound: rebuilds ever requested

VARIABLES
  sources,    \* rows of sources: a name and a prefix
  targets,    \* rows of targets: a name
  pipelines,  \* rows of pipelines: name, source, target, desired_running and
              \* snapshot_generation
  operations, \* rows of operations: pipeline, generation and state
  audit,      \* bag of audit_log entries
  reqs        \* what each request in flight waits for

rowVars == <<sources, targets, pipelines>>
opVars == <<operations, audit>>
controlVars == <<rowVars, opVars, reqs>>

NoRequest == [step |-> "none"]
Waits(c, r) == reqs' = [reqs EXCEPT ![c] = r]

ControlInit ==
  /\ sources = {} /\ targets = {} /\ pipelines = {}
  /\ operations = {} /\ audit = EmptyBag
  /\ reqs = [c \in Client |-> NoRequest]

-----------------------------------------------------------------------------
(* Definitions. *)

\* UNIQUE (name) and UNIQUE (prefix) of sources, UNIQUE (name) of targets,
\* UNIQUE (name) and UNIQUE (source_id, target_id) of pipelines.  A violation
\* is answered 409 by store_error.
Clash(rows, row, columns) == \E r \in rows : \A k \in columns : r[k] = row[k]
SourceClash(row) == Clash(sources, row, {"name"}) \/ Clash(sources, row, {"prefix"})
TargetClash(row) == Clash(targets, row, {"name"})
PipelineClash(row) ==
  Clash(pipelines, row, {"name"}) \/ Clash(pipelines, row, {"source", "target"})

\* put_source, put_target and put_pipeline of a row with a fresh id.
PutSource(row) == ~SourceClash(row) /\ sources' = sources \cup {row}
PutTarget(row) == ~TargetClash(row) /\ targets' = targets \cup {row}
PutRow(row) == pipelines' = IF PipelineClash(row) THEN pipelines ELSE pipelines \cup {row}

CreateSource(row) ==
  /\ Cardinality(sources) < MaxRows /\ PutSource(row)
  /\ UNCHANGED <<targets, pipelines, opVars, reqs>>

CreateTarget(row) ==
  /\ Cardinality(targets) < MaxRows /\ PutTarget(row)
  /\ UNCHANGED <<sources, pipelines, opVars, reqs>>

\* create_pipeline lists sources and targets and looks for the two it names;
\* without them the answer is 400.
CheckPipeline(c, row) ==
  /\ reqs[c] = NoRequest /\ Cardinality(pipelines) < MaxRows
  /\ Clash(sources, [name |-> row.source], {"name"})
  /\ Clash(targets, [name |-> row.target], {"name"})
  /\ Waits(c, [step |-> "put", row |-> row])
  /\ UNCHANGED <<rowVars, opVars>>

\* put_pipeline of the new row, or 409 when another request was faster.
PutPipeline(c) ==
  /\ reqs[c].step = "put"
  /\ PutRow(reqs[c].row)
  /\ Waits(c, NoRequest)
  /\ UNCHANGED <<sources, targets, opVars>>

Replace(p, q) == pipelines' = (pipelines \ {p}) \cup {q}

\* start_pipeline and pause_pipeline: set_pipeline_desired_running.
SetDesired(p, desired) ==
  /\ Replace(p, [p EXCEPT !.desired = desired])
  /\ UNCHANGED <<sources, targets, opVars, reqs>>

-----------------------------------------------------------------------------
(* Rebuilds. *)

Entry(action, op) == [action |-> action, pipeline |-> op.pipeline, gen |-> op.gen]
Operation(p, state) == [pipeline |-> p.name, gen |-> p.gen, state |-> state]

\* request_pipeline_rebuild, by rebuild_pipeline or by a job: one statement
\* bumps the generation, records the operation and audits it.
RequestRebuild(p) ==
  LET bumped == [p EXCEPT !.gen = p.gen + 1] IN
  /\ Cardinality(operations) < MaxOperations
  /\ Replace(p, bumped)
  /\ operations' = operations \cup {Operation(bumped, "requested")}
  /\ audit' = audit (+) SetToBag({Entry("requested", Operation(bumped, "requested"))})
  /\ UNCHANGED <<sources, targets, reqs>>

\* The operations that complete_pipeline_rebuilds updates.
UpTo(p, gen) ==
  {op \in operations : op.pipeline = p.name /\ op.gen <= gen}
Completes(p, gen) ==
  {op \in operations : op.pipeline = p.name /\ op.gen <= gen /\ op.state = "requested"}

\* complete_pipeline_rebuilds of a job that runs generation gen, which a newer
\* request may have left behind.
CompleteRebuilds(p, gen) ==
  LET ops == Completes(p, gen) IN
  /\ ops # {}
  /\ operations' = (operations \ ops) \cup {[op EXCEPT !.state = "completed"] : op \in ops}
  /\ audit' = audit (+) SetToBag({Entry("completed", op) : op \in ops})
  /\ UNCHANGED <<rowVars, reqs>>

-----------------------------------------------------------------------------
(* Requests behind a gate, whose permit the request's future owns until it *)
(* ends; without a permit the answer is 503.                               *)

Permits == [test |-> TestPermits, metrics |-> 1]
PermitsLeft(gate) == Permits[gate] - Cardinality({c \in Client : reqs[c].step = gate})

\* metrics lists sources, targets and pipelines, one statement each.
Scrape(c) ==
  /\ reqs[c] = NoRequest /\ PermitsLeft("metrics") > 0
  /\ Waits(c, [step |-> "metrics", lists |-> 3])
  /\ UNCHANGED <<rowVars, opVars>>

\* A list is answered; the last one leads to the response.
ListAnswered(c) ==
  /\ reqs[c].step = "metrics"
  /\ Waits(c, IF reqs[c].lists > 1 THEN [reqs[c] EXCEPT !.lists = @ - 1] ELSE NoRequest)
  /\ UNCHANGED <<rowVars, opVars>>

\* test_source and test_target.
TestConnection(c) ==
  /\ reqs[c] = NoRequest /\ PermitsLeft("test") > 0
  /\ Waits(c, [step |-> "test"])
  /\ UNCHANGED <<rowVars, opVars>>

\* CONNECTION_TEST_TIMEOUT passes, whatever the endpoint does.
NoTimeout(c) == FALSE /\ UNCHANGED controlVars
TestTimeout(c) ==
  /\ reqs[c].step = "test"
  /\ Waits(c, NoRequest)
  /\ UNCHANGED <<rowVars, opVars>>

\* The tested endpoint answers, a list fails, or the client disconnects before
\* the next statement of its request is sent.
Ended(c) ==
  /\ reqs[c] # NoRequest
  /\ Waits(c, NoRequest)
  /\ UNCHANGED <<rowVars, opVars>>

-----------------------------------------------------------------------------
SourceRow == [name : Name, prefix : Prefix]
TargetRow == [name : Name]
NewPipeline ==
  [name : Name, source : Name, target : Name, desired : {FALSE}, gen : {1}]

ControlNext ==
  \/ \E row \in SourceRow : CreateSource(row)
  \/ \E row \in TargetRow : CreateTarget(row)
  \/ \E p \in pipelines :
       \/ \E desired \in BOOLEAN : SetDesired(p, desired)
       \/ RequestRebuild(p)
       \/ \E gen \in 1 .. p.gen : CompleteRebuilds(p, gen)
  \/ \E c \in Client :
       \/ \E row \in NewPipeline : CheckPipeline(c, row)
       \/ PutPipeline(c) \/ Scrape(c) \/ ListAnswered(c)
       \/ TestConnection(c) \/ TestTimeout(c) \/ Ended(c)

ControlSpec == ControlInit /\ [][ControlNext]_controlVars

\* tokio's timers fire, and a statement on a pooled control session ends:
\* CONTROL_SESSION_OPTIONS and the pool's timeouts bound it.  Nothing is
\* assumed of clients and tested endpoints.
ControlFairness ==
  \A c \in Client : WF_controlVars(TestTimeout(c)) /\ WF_controlVars(ListAnswered(c))

-----------------------------------------------------------------------------
(* Properties. *)

\* Every generation after the first has one operation, every operation one
\* audit entry for its request and one for its completion, whoever asked,
\* asked again, or reported the same completion as another job.
EveryRebuildIsAudited ==
  /\ {[pipeline |-> op.pipeline, gen |-> op.gen] : op \in operations}
       = UNION {{[pipeline |-> p.name, gen |-> g] : g \in 2 .. p.gen} : p \in pipelines}
  /\ audit = SetToBag({Entry("requested", op) : op \in operations}
                      \cup {Entry("completed", op) :
                              op \in {op \in operations : op.state = "completed"}})

\* A gate that is used up is free again in the end, even when the tested
\* endpoints never answer and no client goes away.
GateReopens ==
  \A gate \in DOMAIN Permits : PermitsLeft(gate) = 0 ~> PermitsLeft(gate) > 0
=============================================================================
