------------------------------- MODULE Stream --------------------------------
(***************************************************************************)
(* The path of the write-ahead log through one job: the walsender's         *)
(* pgoutput messages, TransactionDecoder, TransactionAssembler,             *)
(* PgOutputTransactionSource, Batcher and build_apply_request_scoped.       *)
(*                                                                          *)
(* The source's log is a sequence of committed transactions, and the LSN    *)
(* of a transaction is its index.  A change of a row carries the shape     *)
(* (columns, types and replica identity) its tuple was encoded with.       *)
(* The decoder numbers the shapes it is told of per connection, and the    *)
(* sink looks a row's table up by that number: nothing compares a shape    *)
(* with the one the target table was made for.  What keeps rows of another *)
(* shape out is the DDL message in the transaction that changes it.        *)
(*                                                                          *)
(* Fences, crashes inside a target transaction and overlapping jobs are in *)
(* Replication; here a batch is applied and checkpointed in one step.      *)
(***************************************************************************)
EXTENDS Naturals, Sequences, FiniteSets, SequencesExt

CONSTANTS
  Rel,         \* published tables
  Shape,       \* shapes a table can have
  DefaultIdentity, \* the ones with REPLICA IDENTITY DEFAULT
  NoShape,     \* not announced on this connection
  MaxChanges,  \* TransactionLimits::max_changes
  MaxRows,     \* BatchLimits::max_rows
  MaxTx,       \* bound: transactions in the log
  MaxLen,      \* bound: changes of one transaction
  MaxWal       \* bound: changes in the log

ASSUME LimitsAssumption ==
  /\ MaxChanges \in Nat \ {0} /\ MaxRows \in Nat \ {0}
  /\ MaxTx \in Nat /\ MaxLen \in Nat /\ MaxWal \in Nat
  /\ NoShape \notin Shape /\ DefaultIdentity \subseteq Shape

VARIABLES
  wal,        \* source: the committed transactions
  catalog,    \* source: the shape of each table now
  confirmed,  \* source: the slot's confirmed position
  next, at,   \* walsender: transaction being sent, next change in it (0: BEGIN)
  announced,  \* walsender: shape of the last relation message per table
  decoder,    \* TransactionDecoder: in_transaction, relations
  assembler,  \* TransactionAssembler: pending, last_commit_lsn, relation_generations
  delivered,  \* PgOutputTransactionSource::delivered_commits
  durable,    \* PgOutputTransactionSource::durable_applied_lsn
  queue,      \* Batcher::pending
  batch,      \* the batch taken from it that is being applied or acknowledged
  pc,         \* the job: down, streaming, applying, applied
  why,        \* why the last job ended
  bound,      \* the shapes the generation's tables were made for
  base,       \* position of the generation's snapshot
  ckpt,       \* target: the checkpoint
  applied     \* target: the row changes applied to each table since the snapshot

source == <<wal, catalog>>
sender == <<next, at, announced>>
adapter == <<decoder, assembler, delivered, durable>>
batches == <<queue, batch>>
target == <<bound, base, ckpt, applied>>
vars == <<source, confirmed, sender, adapter, batches, pc, why, target>>

-----------------------------------------------------------------------------
(* Changes.  The two managed event triggers write a DDL message into the     *)
(* transaction, with the schemas it concerns; a message without schemas is   *)
(* of unknown scope.  DDL on other schemas than the pipeline's changes no    *)
(* published table.  Other software writes messages of its own, and pgoutput *)
(* names the origin of a transaction that was itself replicated, after BEGIN. *)

Row == [kind : {"row"}, rel : Rel, shape : Shape]
Truncate == [kind : {"truncate"}, rel : Rel, shape : Shape]
Alter == [kind : {"ddl"}, scope : {"in", "unknown"}, rel : Rel, shape : Shape]
Elsewhere == [kind |-> "ddl", scope |-> "out"]
OtherMessage == [kind |-> "message"]
Origin == [kind |-> "origin"]

Change == Row \cup Truncate \cup Alter \cup {Elsewhere, OtherMessage, Origin}

IsRow(c) == c.kind = "row"
RowsOf(r) == {c \in Row : c.rel = r}
OfTable(c) == c.kind \in {"row", "truncate"}

\* The elements of s that are in S, in their order.
Only(s, S) ==
  LET upTo[i \in 0 .. Len(s)] ==
        IF i = 0 THEN <<>>
        ELSE IF s[i] \in S THEN Append(upTo[i - 1], s[i]) ELSE upTo[i - 1]
  IN upTo[Len(s)]

\* The last DDL command on a table decides its shape.
CatalogAfter(cat, body) ==
  [r \in Rel |->
     LET alters == {i \in DOMAIN body : body[i] \in Alter /\ body[i].rel = r}
     IN IF alters = {} THEN cat[r] ELSE body[Max(alters)].shape]

\* A table's changes have the shape the table has at that point.
Legal(body) ==
  \A i \in DOMAIN body :
    /\ OfTable(body[i]) =>
         body[i].shape = CatalogAfter(catalog, SubSeq(body, 1, i - 1))[body[i].rel]
    /\ body[i] = Origin => i = 1

-----------------------------------------------------------------------------
\* The state of a job's memory, and of its walsender, at a position.
Connection(lsn) ==
  /\ next' = lsn + 1 /\ at' = 0
  /\ announced' = [r \in Rel |-> NoShape]
  /\ decoder' = [inTx |-> FALSE,
                 relations |-> [r \in Rel |-> [generation |-> 0, shape |-> NoShape]]]
  /\ assembler' = [open |-> FALSE, changes |-> <<>>, last |-> 0,
                   generations |-> [r \in Rel |-> 0]]
  /\ delivered' = <<>> /\ durable' = lsn
  /\ queue' = <<>> /\ batch' = <<>>

Init ==
  /\ wal = <<>> /\ catalog \in [Rel -> DefaultIdentity] /\ confirmed = 0
  /\ next = 1 /\ at = 0 /\ announced = [r \in Rel |-> NoShape]
  /\ decoder = [inTx |-> FALSE,
                relations |-> [r \in Rel |-> [generation |-> 0, shape |-> NoShape]]]
  /\ assembler = [open |-> FALSE, changes |-> <<>>, last |-> 0,
                  generations |-> [r \in Rel |-> 0]]
  /\ delivered = <<>> /\ durable = 0 /\ queue = <<>> /\ batch = <<>>
  /\ pc = "down" /\ why = "none"
  /\ bound = catalog /\ base = 0 /\ ckpt = 0 /\ applied = [r \in Rel |-> <<>>]

SourceCommit ==
  /\ Len(wal) < MaxTx
  /\ \E n \in 0 .. MaxLen :
       /\ Len(FlattenSeq(wal)) + n <= MaxWal
       /\ \E body \in [1 .. n -> Change] :
            /\ Legal(body)
            /\ wal' = Append(wal, body) /\ catalog' = CatalogAfter(catalog, body)
  /\ UNCHANGED <<confirmed, sender, adapter, batches, pc, why, target>>

\* plan_inventory refuses tables that validate_supported rejects.
Plannable == \A r \in Rel : catalog[r] \in DefaultIdentity

\* A job that resumes: the catalog it plans must be the manifest's.  After a
\* barrier too, when the request for a rebuild failed.
Connect ==
  /\ pc = "down" /\ Plannable /\ catalog = bound
  /\ Connection(ckpt)
  /\ pc' = "streaming" /\ why' = "none"
  /\ UNCHANGED <<source, confirmed, target>>

\* A new generation: tables are made for the catalog of a snapshot, and the
\* slot starts at the snapshot's position.
Rebuild ==
  /\ pc = "down" /\ Plannable
  /\ bound' = catalog /\ base' = Len(wal) /\ ckpt' = Len(wal)
  /\ confirmed' = Len(wal) /\ applied' = [r \in Rel |-> <<>>] /\ why' = "none"
  /\ UNCHANGED <<source, sender, adapter, batches, pc>>

\* An error ends the job; what it had buffered is gone.
Fail(reason) ==
  /\ pc' = "down" /\ why' = reason
  /\ Connection(0)
  /\ UNCHANGED <<source, confirmed, target>>

\* Cancellation, a broken connection, a crash.
Stop == pc # "down" /\ Fail("none")

-----------------------------------------------------------------------------
(* Messages: sent, decoded and pushed into the assembler.  The timer branch  *)
(* of the loop may drop next_transaction between two of them, which loses    *)
(* none: what was pushed stays in the assembler.                             *)

Receiving == pc = "streaming" /\ next <= Len(wal)

BeginAccepted == ~decoder.inTx /\ ~assembler.open /\ next >= assembler.last

ReceiveBegin ==
  /\ Receiving /\ at = 0
  /\ IF BeginAccepted
       THEN /\ at' = 1
            /\ decoder' = [decoder EXCEPT !.inTx = TRUE]
            /\ assembler' = [assembler EXCEPT !.open = TRUE, !.changes = <<>>]
            /\ UNCHANGED <<source, confirmed, next, announced, delivered, durable,
                           batches, pc, why, target>>
       ELSE Fail("protocol")

\* The change the walsender comes to next.
Sending == Receiving /\ at \in DOMAIN wal[next]
Current == wal[next][at]

\* A relation message with another shape than the last one starts a generation.
BumpsAlways(r, s) == decoder.relations[r].generation + 1
RelationGeneration(r, s) ==
  LET known == decoder.relations[r] IN
  IF known.generation = 0 \/ known.shape = s
    THEN IF known.generation = 0 THEN 1 ELSE known.generation
    ELSE known.generation + 1

ReceiveRelation ==
  /\ Sending /\ OfTable(Current) /\ announced[Current.rel] # Current.shape
  /\ LET r == Current.rel
         g == RelationGeneration(r, Current.shape) IN
     IF g >= assembler.generations[r]
       THEN /\ announced' = [announced EXCEPT ![r] = Current.shape]
            /\ decoder' = [decoder EXCEPT !.relations[r] =
                             [generation |-> g, shape |-> Current.shape]]
            /\ assembler' = [assembler EXCEPT !.generations[r] = g]
            /\ UNCHANGED <<source, confirmed, next, at, delivered, durable, batches,
                           pc, why, target>>
       ELSE Fail("protocol")

\* The walsender forgets what it announced when its cache is invalidated.
Invalidate(r) ==
  /\ pc = "streaming" /\ announced[r] # NoShape
  /\ announced' = [announced EXCEPT ![r] = NoShape]
  /\ UNCHANGED <<source, confirmed, next, at, adapter, batches, pc, why, target>>

\* decode: a change is inside a transaction, a row or truncate names a relation
\* the decoder was told of;
Decodable(c) ==
  /\ decoder.inTx
  /\ OfTable(c) => decoder.relations[c.rel].generation # 0

\* it has no place for other messages and origins, nor for changes of a relation
\* that was announced with another replica identity.
Supported(c) ==
  /\ c.kind \notin {"message", "origin"}
  /\ OfTable(c) => decoder.relations[c.rel].shape \in DefaultIdentity

\* push: the assembler has the same generation for a row's relation.
Pushable(c) ==
  /\ assembler.open
  /\ IsRow(c) => assembler.generations[c.rel] = decoder.relations[c.rel].generation

\* What the change is for the rest of the job: a row has its generation.
Decoded(c) ==
  IF IsRow(c) THEN [kind |-> "row", row |-> c,
                    generation |-> decoder.relations[c.rel].generation]
              ELSE c

DecodedRow == [kind : {"row"}, row : Row, generation : Nat]
Item == DecodedRow \cup Truncate \cup Alter \cup {Elsewhere}
Tx == [lsn : Nat, changes : Seq(Item)]

\* The same DDL message twice in a transaction is one barrier.
RepeatsAny(c) == \E i \in DOMAIN assembler.changes : assembler.changes[i] = c
Repeats(c) ==
  c.kind = "ddl" /\ \E i \in DOMAIN assembler.changes : assembler.changes[i] = c

AtLimit(changes) == Len(changes) >= MaxChanges

ReceiveChange ==
  /\ Sending
  /\ OfTable(Current) => announced[Current.rel] = Current.shape
  /\ LET c == Decoded(Current) IN
     CASE ~Decodable(Current) -> Fail("protocol")
       [] Decodable(Current) /\ ~Supported(Current) -> Fail("unsupported")
       [] Decodable(Current) /\ Supported(Current) /\ ~Pushable(Current) -> Fail("protocol")
       [] Decodable(Current) /\ Supported(Current) /\ Pushable(Current) ->
            IF AtLimit(assembler.changes) /\ ~Repeats(c)
              THEN Fail("limit")
              ELSE /\ at' = at + 1
                   /\ assembler' = IF Repeats(c) THEN assembler
                                   ELSE [assembler EXCEPT !.changes = Append(@, c)]
                   /\ UNCHANGED <<source, confirmed, next, announced, decoder,
                                  delivered, durable, batches, pc, why, target>>

-----------------------------------------------------------------------------
(* Batches.  max_bytes is the rule of max_rows with another weight. *)

Rows(tx) == Only(tx.changes, DecodedRow)
Changes(txs) == FlattenSeq([i \in DOMAIN txs |-> txs[i].changes])
RowCount(txs) == Len(Only(Changes(txs), DecodedRow))

\* requires_generation_barrier: TRUNCATE and every DDL message.
Isolated(tx) == \E i \in DOMAIN tx.changes : ~IsRow(tx.changes[i])

MustFlush(tx) ==
  queue # <<>> /\ \/ Isolated(tx)
                  \/ RowCount(queue) + Len(Rows(tx)) > MaxRows
                  \/ Len(queue) >= MaxRows

CommitAccepted == decoder.inTx /\ assembler.open /\ next >= assembler.last

\* COMMIT: the assembled transaction is delivered and goes into the batcher,
\* which may give back the batch that was full before it.
ReceiveCommit ==
  /\ Receiving /\ at = Len(wal[next]) + 1
  /\ LET tx == [lsn |-> next, changes |-> assembler.changes] IN
     IF CommitAccepted
       THEN /\ next' = next + 1 /\ at' = 0
            /\ decoder' = [decoder EXCEPT !.inTx = FALSE]
            /\ assembler' = [open |-> FALSE, changes |-> <<>>, last |-> next,
                             generations |-> assembler.generations]
            /\ delivered' = Append(delivered, next)
            /\ IF MustFlush(tx)
                 THEN queue' = <<tx>> /\ batch' = queue /\ pc' = "applying"
                 ELSE queue' = Append(queue, tx) /\ UNCHANGED <<batch, pc>>
            /\ UNCHANGED <<source, confirmed, announced, durable, why, target>>
       ELSE Fail("protocol")

\* The timer fires, also in the middle of a transaction.
Flush ==
  /\ pc = "streaming" /\ queue # <<>>
  /\ batch' = queue /\ queue' = <<>> /\ pc' = "applying"
  /\ UNCHANGED <<source, confirmed, sender, adapter, why, target>>

\* DdlScope::requires_barrier: a message without schemas is in scope.
KnownScopeOnly(c) == c.kind = "truncate" \/ (c.kind = "ddl" /\ c.scope = "in")
RequiresBarrier(c) ==
  c.kind = "truncate" \/ (c.kind = "ddl" /\ c.scope \in {"in", "unknown"})

Barred ==
  \E tx \in Range(batch) : \E c \in Range(tx.changes) : RequiresBarrier(c)

\* The registry has one binding per table, for the catalog's generation 1.
Unbound ==
  \E tx \in Range(batch) : \E c \in Range(tx.changes) : IsRow(c) /\ c.generation # 1

\* The rows of a table, as its part of the request has them.
Grouped(changes, r) ==
  LET rows == Only(changes, {c \in DecodedRow : c.row.rel = r})
  IN [i \in DOMAIN rows |-> rows[i].row]

Apply ==
  /\ pc = "applying"
  /\ CASE Barred -> Fail("barrier")
       [] ~Barred /\ Unbound -> Fail("binding")
       [] ~Barred /\ ~Unbound ->
            /\ ckpt' = Last(batch).lsn
            /\ applied' = [r \in Rel |-> applied[r] \o Grouped(Changes(batch), r)]
            /\ pc' = "applied"
            /\ UNCHANGED <<source, confirmed, sender, adapter, batches, why,
                           bound, base>>

\* delivered_commits after an acknowledgement: popped up to the first later one.
PopsOne(lsn) == Tail(delivered)
Outstanding(lsn) ==
  LET later == {i \in DOMAIN delivered : delivered[i] > lsn}
  IN IF later = {} THEN <<>> ELSE SubSeq(delivered, Min(later), Len(delivered))

Acknowledge ==
  /\ pc = "applied"
  /\ LET lsn == Last(batch).lsn IN
     IF lsn >= durable /\ lsn \in Range(delivered)
       THEN /\ durable' = lsn /\ confirmed' = lsn
            /\ delivered' = Outstanding(lsn)
            /\ pc' = "streaming" /\ batch' = <<>>
            /\ UNCHANGED <<source, sender, decoder, assembler, queue, why, target>>
       ELSE Fail("protocol")

\* The position a reply to a keepalive reports.
StatusLsn == durable

Keepalive ==
  /\ pc = "streaming" /\ confirmed < StatusLsn
  /\ confirmed' = StatusLsn
  /\ UNCHANGED <<source, sender, adapter, batches, pc, why, target>>

Next ==
  \/ SourceCommit
  \/ Connect \/ Rebuild \/ Stop
  \/ ReceiveBegin \/ ReceiveRelation \/ ReceiveChange \/ ReceiveCommit
  \/ \E r \in Rel : Invalidate(r)
  \/ Flush \/ Apply \/ Acknowledge \/ Keepalive

Spec == Init /\ [][Next]_vars

-----------------------------------------------------------------------------
(* Properties. *)

TypeOK ==
  /\ wal \in Seq(Seq(Change)) /\ catalog \in [Rel -> Shape]
  /\ {confirmed, durable, ckpt, base} \subseteq 0 .. Len(wal)
  /\ next \in 1 .. Len(wal) + 1 /\ at \in Nat
  /\ announced \in [Rel -> Shape \cup {NoShape}]
  /\ decoder.relations \in [Rel -> [generation : Nat, shape : Shape \cup {NoShape}]]
  /\ assembler.changes \in Seq(Item) /\ assembler.last \in Nat
  /\ assembler.generations \in [Rel -> Nat]
  /\ delivered \in Seq(Nat) /\ queue \in Seq(Tx) /\ batch \in Seq(Tx)
  /\ pc \in {"down", "streaming", "applying", "applied"}
  /\ why \in {"none", "barrier", "binding", "limit", "unsupported", "protocol"}
  /\ bound \in [Rel -> Shape] /\ applied \in [Rel -> Seq(Row)]

\* Whatever the batches, restarts and repeated relation messages, the target
\* has applied exactly the rows of the transactions up to its checkpoint, each
\* table's in order: none lost, repeated or taken from an open transaction
\* (assembler, batcher and build_apply_request_scoped together).
AppliedIsLog ==
  \A r \in Rel : applied[r] = Only(FlattenSeq(SubSeq(wal, base + 1, ckpt)), RowsOf(r))

\* No row of another shape than the generation's table reaches it.  The decoder
\* counts shapes from 1 on every connection, so only the DDL barrier of
\* reject_schema_barriers stands between a reconnect and such a row.
OneShapePerGeneration ==
  \A r \in Rel : \A c \in Range(applied[r]) : c.shape = bound[r]

\* The changes of a transaction, a repeated DDL message counted once.
Counted(body) ==
  Cardinality({i \in DOMAIN body :
                 body[i].kind = "ddl" => \A j \in 1 .. i - 1 : body[j] # body[i]})

\* What the source contract leaves out of a transaction: messages and origins of
\* other software, and changes of a table whose replica identity is not DEFAULT.
Unsupported(c) ==
  \/ c.kind \in {"message", "origin"}
  \/ OfTable(c) /\ c.shape \notin DefaultIdentity

\* A job is refused by decode, max_changes or a barrier only for what one of the
\* transactions after the checkpoint really holds, whatever was announced, repeated
\* or flushed before, and by push, registry and acknowledgement never; and no
\* transaction that holds such a thing was applied before somebody looked.  A barrier
\* stops the generation at its own transaction: what came before it in the batcher
\* was applied (Batcher::push flushes first), nothing after it.
RefusesOnlyTheUnsupported ==
  /\ why \notin {"protocol", "binding"}
  /\ why = "unsupported" =>
       \E i \in ckpt + 1 .. Len(wal) : \E c \in Range(wal[i]) : Unsupported(c)
  /\ why = "limit" => \E i \in ckpt + 1 .. Len(wal) : Counted(wal[i]) > MaxChanges
  /\ \A i \in base + 1 .. ckpt :
       Counted(wal[i]) <= MaxChanges /\ \A c \in Range(wal[i]) : ~Unsupported(c)
  /\ why = "barrier" => \E c \in Range(wal[ckpt + 1]) : RequiresBarrier(c)

\* delivered_commits, against which acknowledgements are validated, is exactly
\* what was handed out and not acknowledged yet; it stays short, since a batch
\* has at most max_rows rows, unless a single transaction has more, and at most
\* max_rows transactions, so that empty ones cannot pile up.
DeliveredIsOutstanding ==
  pc # "down" =>
    LET Lsns(txs) == [i \in DOMAIN txs |-> txs[i].lsn]
    IN /\ delivered = Lsns(batch) \o Lsns(queue)
       /\ \A b \in {queue, batch} :
            Len(b) <= MaxRows /\ (RowCount(b) > MaxRows => Len(b) = 1)
=============================================================================
