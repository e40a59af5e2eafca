-------------------------- MODULE DocumentPipeline --------------------------
(***************************************************************************)
(* A document from documents:confirm to READY: the outbox row written with *)
(* it (confirm_upload.py), the relays that hand it to the queue            *)
(* (dispatch_outbox_to_queue.py), the queue as its port promises it        *)
(* (AtLeastOnceQueue, which IngestionQueue implements), the workers that   *)
(* run DocumentProcessor (process_document.py) and a concurrent delete.    *)
(*                                                                         *)
(* One action per Postgres transaction, queue call or provider call: these *)
(* are the awaits.  All documents are of one workspace (row-level security *)
(* separates the others).  A chunk is <<document, index>>, as _chunk_id    *)
(* makes it, and Text gives the content of every chunk.                    *)
(***************************************************************************)
EXTENDS Naturals, Sequences, FiniteSets

CONSTANTS Docs,           \* documents that may be confirmed
          Text,           \* what chunk_document yields: a sequence of contents
          Infected,       \* documents the scanner reports
          Unparseable,    \* documents whose type or content no parser accepts
          Relays,         \* processes polling DispatchIngestionOutbox
          Workers,        \* processes running the consumer loop
          BatchSize,      \* batch_size of execute()
          MaxAttempts,    \* _MAX_ATTEMPTS
          MaxDeliveries,  \* max_deliveries of the queue
          MaxCopies,      \* bound: messages enqueued per document
          MaxCrashes,     \* bound: crashes per behaviour
          NoMessage,      \* a worker holds no message
          NoDoc           \* a relay is at no row

ASSUME PipelineAssumption ==
          /\ \A d \in Docs : Len(Text[d]) \in Nat
          /\ Infected \subseteq Docs
          /\ Unparseable \subseteq Docs
          /\ BatchSize \in Nat \ {0}
          /\ MaxAttempts \in Nat \ {0}
          /\ MaxDeliveries \in Nat \ {0}
          /\ MaxCopies \in Nat
          /\ MaxCrashes \in Nat
          /\ NoMessage \notin Docs \X (1 .. MaxCopies)
          /\ NoDoc \notin Docs

VARIABLES
  rows,       \* document.uploaded rows of the outbox, in created_at order
  dispatched, \* documents whose row has a dispatched_at
  attempts,   \* attempts of each row
  status,     \* documents.status ("absent": no row)
  deleted,    \* documents with a deleted_at
  chunks,     \* rows of the chunks table
  embedded,   \* the chunks whose embedding is not NULL
  events,     \* document.ready, .failed and .deleted rows of the outbox
  batch,      \* rows a relay fetched and has still to relay
  entry,      \* the row it is relaying
  relaying,   \* the step a relay is at
  copies,     \* messages enqueued for each document
  owed, deliveries, held, seen, done, dead,  \* the queue
  stage,      \* the step a worker is at
  listed,     \* what list_chunks returned to a worker
  todo,       \* the listed chunks it has no vector for
  crashes

outboxVars == <<rows, dispatched, attempts>>
docVars == <<status, deleted, chunks, embedded, events>>
relayVars == <<batch, entry, relaying, copies>>
queueVars == <<owed, deliveries, held, seen, done, dead>>
workVars == <<stage, listed, todo>>
vars == <<outboxVars, docVars, relayVars, queueVars, workVars, crashes>>

Messages == Docs \X (1 .. MaxCopies)

Queue == INSTANCE AtLeastOnceQueue WITH
           Items <- Messages, Consumers <- Workers, NoItem <- NoMessage

\* insert_chunks_and_advance: one row per chunk, ids from (document, index).
ChunkRows(d) == {d} \X (1 .. Len(Text[d]))
Content(c) == Text[c[1]][c[2]]
Chunks == UNION {ChunkRows(d) : d \in Docs}

FailStages == {"failScan", "failParse", "failEmbed"}
HandlerStages == {"begin", "scan", "parse", "chunk", "insert", "list", "cache",
                  "embed", "attach", "return"} \cup FailStages
Stages == HandlerStages \cup {"idle", "ack"}

Statuses == {"absent", "queued", "scanning", "parsing", "chunking",
             "embedding", "ready", "failed"}
Events == {"ready", "deleted"} \cup FailStages

OutboxTypeOK ==
  /\ rows \in Seq(Docs)
  /\ dispatched \subseteq Docs
  /\ attempts \in [Docs -> Nat]

DocTypeOK ==
  /\ status \in [Docs -> Statuses]
  /\ deleted \subseteq Docs
  /\ embedded \subseteq chunks
  /\ chunks \subseteq Chunks
  /\ events \subseteq Docs \X Events

RelayTypeOK ==
  /\ batch \in [Relays -> SUBSET Docs]
  /\ entry \in [Relays -> Docs \cup {NoDoc}]
  /\ relaying \in [Relays -> {"fetch", "enqueue", "mark", "record"}]
  /\ \A r \in Relays : relaying[r] \in {"mark", "record"} <=> entry[r] # NoDoc
  /\ copies \in [Docs -> 0 .. MaxCopies]

QueueTypeOK ==
  /\ owed \subseteq Messages
  /\ deliveries \in [Messages -> Nat]
  /\ held \in [Workers -> Messages \cup {NoMessage}]
  /\ seen \in [Workers -> Nat]
  /\ done \subseteq Messages
  /\ dead \subseteq Messages

WorkTypeOK ==
  /\ stage \in [Workers -> Stages]
  /\ \A w \in Workers : held[w] = NoMessage <=> stage[w] = "idle"
  /\ listed \in [Workers -> SUBSET Chunks]
  /\ todo \in [Workers -> SUBSET Chunks]
  /\ crashes \in 0 .. MaxCrashes

TypeOK == OutboxTypeOK /\ DocTypeOK /\ RelayTypeOK /\ QueueTypeOK /\ WorkTypeOK

Init ==
  /\ rows = <<>>
  /\ dispatched = {}
  /\ attempts = [d \in Docs |-> 0]
  /\ status = [d \in Docs |-> "absent"]
  /\ deleted = {}
  /\ chunks = {}
  /\ embedded = {}
  /\ events = {}
  /\ batch = [r \in Relays |-> {}]
  /\ entry = [r \in Relays |-> NoDoc]
  /\ relaying = [r \in Relays |-> "fetch"]
  /\ copies = [d \in Docs |-> 0]
  /\ Queue!QInit
  /\ stage = [w \in Workers |-> "idle"]
  /\ listed = [w \in Workers |-> {}]
  /\ todo = [w \in Workers |-> {}]
  /\ crashes = 0

-----------------------------------------------------------------------------
(* The API: each request is one transaction.                               *)

\* INSERT ... ON CONFLICT DO NOTHING: the documents row is the idempotency guard.
CreateIfAbsent(d) ==
  /\ status[d] = "absent"
  /\ status' = [status EXCEPT ![d] = "queued"]

\* ConfirmDocumentUpload: the document and its outbox row in one transaction; a
\* repeat writes neither.
Confirm(d) ==
  /\ CreateIfAbsent(d)
  /\ rows' = Append(rows, d)
  /\ UNCHANGED <<dispatched, attempts, deleted, chunks, embedded, events,
                 relayVars, queueVars, workVars, crashes>>

\* Mutant: the DELETE is not restricted to the document.
DeleteEveryRow(d) ==
  /\ status[d] # "absent"
  /\ d \notin deleted
  /\ deleted' = deleted \cup {d}
  /\ chunks' = {}
  /\ embedded' = {}

\* Soft-delete the documents row, hard-delete its chunks.
DeleteRows(d) ==
  /\ status[d] # "absent"
  /\ d \notin deleted
  /\ deleted' = deleted \cup {d}
  /\ chunks' = chunks \ ChunkRows(d)
  /\ embedded' = embedded \ ChunkRows(d)

\* DeleteDocument: the rows and the document.deleted event, one transaction.
Delete(d) ==
  /\ DeleteRows(d)
  /\ events' = events \cup {<<d, "deleted">>}
  /\ UNCHANGED <<outboxVars, status, relayVars, queueVars, workVars, crashes>>

-----------------------------------------------------------------------------
(* DispatchIngestionOutbox.execute(), run by every worker process.         *)

\* ORDER BY created_at
Older(d, e) == \E k, l \in DOMAIN rows : k < l /\ rows[k] = d /\ rows[l] = e

\* dispatched_at IS NULL AND attempts < max_attempts
Pending == {d \in Docs : /\ \E k \in DOMAIN rows : rows[k] = d
                         /\ d \notin dispatched
                         /\ attempts[d] < MaxAttempts}

\* fetch_pending: a plain SELECT, so two relays may fetch the same rows.
Fetch(r) ==
  /\ relaying[r] = "fetch"
  /\ batch' = [batch EXCEPT ![r] =
       {d \in Pending : Cardinality({e \in Pending : Older(e, d)}) < BatchSize}]
  /\ relaying' = [relaying EXCEPT ![r] = IF Pending = {} THEN "fetch" ELSE "enqueue"]
  /\ UNCHANGED <<outboxVars, docVars, entry, copies, queueVars, workVars, crashes>>

\* The XADD of a new message for d.
Publish(d) ==
  /\ copies[d] < MaxCopies
  /\ copies' = [copies EXCEPT ![d] = @ + 1]
  /\ Queue!Enqueue(<<d, copies[d] + 1>>)

\* The loop takes its next row, d, and calls enqueue().
Relay(r, d, next) ==
  /\ relaying[r] = "enqueue"
  /\ d \in batch[r]
  /\ \A e \in batch[r] : ~Older(e, d)
  /\ entry' = [entry EXCEPT ![r] = d]
  /\ batch' = [batch EXCEPT ![r] = @ \ {d}]
  /\ relaying' = [relaying EXCEPT ![r] = next]
  /\ UNCHANGED <<outboxVars, docVars, workVars, crashes>>

Enqueue(r, d) == Relay(r, d, "mark") /\ Publish(d)

\* Mutant: the failed row is marked dispatched (no continue in the handler).
FailureMarked(r, d) ==
  /\ Relay(r, d, "mark")
  /\ Publish(d) \/ UNCHANGED <<copies, queueVars>>

\* enqueue() raised, before its XADD or after it (in _schedule).
EnqueueFails(r, d) ==
  /\ Relay(r, d, "record")
  /\ Publish(d) \/ UNCHANGED <<copies, queueVars>>

\* On to the next row of the batch, or to the next poll.
NextRow(r) ==
  /\ entry' = [entry EXCEPT ![r] = NoDoc]
  /\ relaying' = [relaying EXCEPT ![r] = IF batch[r] = {} THEN "fetch" ELSE "enqueue"]
  /\ UNCHANGED <<rows, docVars, batch, copies, queueVars, workVars, crashes>>

MarkDispatched(r) ==
  /\ relaying[r] = "mark"
  /\ dispatched' = dispatched \cup {entry[r]}
  /\ NextRow(r)
  /\ UNCHANGED attempts

RecordAttemptFailure(r) ==
  /\ relaying[r] = "record"
  /\ attempts' = [attempts EXCEPT ![entry[r]] = @ + 1]
  /\ NextRow(r)
  /\ UNCHANGED dispatched

-----------------------------------------------------------------------------
(* The consumer loop and DocumentProcessor.__call__.                       *)

DocOf(w) == held[w][1]

Goto(w, next) == stage' = [stage EXCEPT ![w] = next]

\* claim_next(): any entry owed, even one that another worker is processing.
Claim(w, m) ==
  /\ stage[w] = "idle"
  /\ Queue!Deliver(w, m, deliveries[m] + 1)
  /\ Goto(w, "begin")
  /\ UNCHANGED <<outboxVars, docVars, relayVars, listed, todo, crashes>>

\* Mutant: a schema without the CHECK of SetStatus.
SetAnyStatus(d, to) == status' = [status EXCEPT ![d] = to]

\* CHECK ((status = 'failed') = (failure_stage IS NOT NULL)), and nothing clears
\* failure_stage: on a failed document the UPDATE raises, its transaction is
\* rolled back, and Raise is the only step the handler has left.
SetStatus(d, to) ==
  /\ status[d] # "failed"
  /\ status' = [status EXCEPT ![d] = to]

\* update_status: from any status but failed, and even if the document is deleted.
Advance(w, from, to, next) ==
  /\ stage[w] = from
  /\ SetStatus(DocOf(w), to)
  /\ Goto(w, next)
  /\ UNCHANGED <<outboxVars, deleted, chunks, embedded, events,
                 relayVars, queueVars, listed, todo, crashes>>

MarkScanning(w) == Advance(w, "begin", "scanning", "scan")

\* Mutant: the scanner's verdict is not looked at.
ScanIgnored(w) ==
  /\ stage[w] = "scan"
  /\ Goto(w, "parse")
  /\ UNCHANGED <<outboxVars, docVars, relayVars, queueVars, listed, todo, crashes>>

\* download and scan
Scan(w) ==
  /\ stage[w] = "scan"
  /\ Goto(w, IF DocOf(w) \in Infected THEN "failScan" ELSE "parse")
  /\ UNCHANGED <<outboxVars, docVars, relayVars, queueVars, listed, todo, crashes>>

\* Parsing follows update_status without an await.
MarkParsing(w) ==
  Advance(w, "parse", "parsing",
          IF DocOf(w) \in Unparseable THEN "failParse" ELSE "chunk")

MarkChunking(w) == Advance(w, "chunk", "chunking", "insert")

\* Mutant: the event is written and the status is not.
EventOnly(w) ==
  /\ stage[w] \in FailStages
  /\ events' = events \cup {<<DocOf(w), stage[w]>>}
  /\ Goto(w, "return")
  /\ UNCHANGED <<outboxVars, status, deleted, chunks, embedded, relayVars,
                 queueVars, listed, todo, crashes>>

\* mark_failed: status and document.failed event (idempotent per stage) in one
\* transaction; then the handler returns.
MarkFailed(w) ==
  /\ stage[w] \in FailStages
  /\ status' = [status EXCEPT ![DocOf(w)] = "failed"]
  /\ events' = events \cup {<<DocOf(w), stage[w]>>}
  /\ Goto(w, "return")
  /\ UNCHANGED <<outboxVars, deleted, chunks, embedded, relayVars,
                 queueVars, listed, todo, crashes>>

\* Mutant: ON CONFLICT DO UPDATE, which starts again without embeddings.
InsertOverwrites(w) ==
  /\ stage[w] = "insert"
  /\ chunks' = chunks \cup ChunkRows(DocOf(w))
  /\ embedded' = embedded \ ChunkRows(DocOf(w))
  /\ SetStatus(DocOf(w), "embedding")
  /\ Goto(w, "list")
  /\ UNCHANGED <<outboxVars, deleted, events, relayVars, queueVars, listed,
                 todo, crashes>>

\* insert_chunks_and_advance: ON CONFLICT DO NOTHING keeps a chunk's embedding.
InsertChunks(w) ==
  /\ stage[w] = "insert"
  /\ chunks' = chunks \cup ChunkRows(DocOf(w))
  /\ SetStatus(DocOf(w), "embedding")
  /\ Goto(w, "list")
  /\ UNCHANGED <<outboxVars, deleted, embedded, events, relayVars,
                 queueVars, listed, todo, crashes>>

\* list_chunks
ListChunks(w) ==
  LET found == chunks \cap ChunkRows(DocOf(w)) IN
  /\ stage[w] = "list"
  /\ listed' = [listed EXCEPT ![w] = found]
  /\ todo' = [todo EXCEPT ![w] = found \ embedded]
  /\ Goto(w, "cache")
  /\ UNCHANGED <<outboxVars, docVars, relayVars, queueVars, crashes>>

\* find_cached_embeddings: a chunk of the workspace with the same content.
FindCached(w) ==
  LET known == {Content(c) : c \in embedded} IN
  /\ stage[w] = "cache"
  /\ todo' = [todo EXCEPT ![w] = {c \in @ : Content(c) \notin known}]
  /\ Goto(w, "embed")
  /\ UNCHANGED <<outboxVars, docVars, relayVars, queueVars, listed, crashes>>

\* _embed_missing: no call when nothing is missing; a non-retryable provider
\* error goes to mark_failed, a retryable one is Raise below.
EmbedMissing(w) ==
  /\ stage[w] = "embed"
  /\ \/ Goto(w, "attach")
     \/ todo[w] # {} /\ Goto(w, "failEmbed")
  /\ UNCHANGED <<outboxVars, docVars, relayVars, queueVars, listed, todo, crashes>>

\* The transaction that embeds the chunks in attached.
Attach(w, attached) ==
  /\ stage[w] = "attach"
  /\ embedded' = embedded \cup attached
  /\ SetStatus(DocOf(w), "ready")
  /\ events' = events \cup {<<DocOf(w), "ready">>}
  /\ Goto(w, "return")
  /\ UNCHANGED <<outboxVars, deleted, chunks, relayVars, queueVars,
                 listed, todo, crashes>>

\* Mutant: only the vectors the provider was asked for, not the cached ones.
AttachFreshOnly(w) == Attach(w, todo[w] \cap chunks)

\* Mutant: an upsert instead of an UPDATE.
AttachUpserts(w) == Attach(w, listed[w])

\* attach_embeddings_and_advance: an UPDATE per listed chunk, READY and the
\* document.ready event (idempotent) in one transaction.
AttachEmbeddings(w) == Attach(w, listed[w] \cap chunks)

Rest(w) == /\ listed' = [listed EXCEPT ![w] = {}]
           /\ todo' = [todo EXCEPT ![w] = {}]
           /\ UNCHANGED <<outboxVars, docVars, relayVars>>

HandlerReturns(w) ==
  /\ stage[w] = "return"
  /\ Queue!Finish(w)
  /\ Goto(w, "ack")
  /\ Rest(w)
  /\ UNCHANGED crashes

\* Mutant: the exception is swallowed, and the message acknowledged.
RaiseSwallowed(w) ==
  /\ stage[w] \in HandlerStages
  /\ Queue!Finish(w)
  /\ Goto(w, "ack")
  /\ Rest(w)
  /\ UNCHANGED crashes

\* A storage, scanner, database (SetStatus) or retryable provider error: the
\* exception leaves the handler, and fail() keeps the entry or dead-letters it.
Raise(w) ==
  /\ stage[w] \in HandlerStages
  /\ \/ seen[w] >= MaxDeliveries /\ Queue!DeadLetter(w) /\ Goto(w, "ack")
     \/ seen[w] < MaxDeliveries /\ Queue!LetGo(w) /\ Goto(w, "idle")
  /\ Rest(w)
  /\ UNCHANGED crashes

Ack(w) ==
  /\ stage[w] = "ack"
  /\ Queue!Settle(w)
  /\ Goto(w, "idle")
  /\ Rest(w)
  /\ UNCHANGED crashes

-----------------------------------------------------------------------------
(* A process dies and is started again; what it had in memory is lost.     *)

WorkerCrashes(w) ==
  /\ crashes < MaxCrashes
  /\ crashes' = crashes + 1
  /\ Queue!LetGo(w)
  /\ Goto(w, "idle")
  /\ Rest(w)

RelayCrashes(r) ==
  /\ crashes < MaxCrashes
  /\ crashes' = crashes + 1
  /\ relaying[r] # "fetch"
  /\ batch' = [batch EXCEPT ![r] = {}]
  /\ entry' = [entry EXCEPT ![r] = NoDoc]
  /\ relaying' = [relaying EXCEPT ![r] = "fetch"]
  /\ UNCHANGED <<outboxVars, docVars, copies, queueVars, workVars>>

-----------------------------------------------------------------------------
ApiNext(d) == Confirm(d) \/ Delete(d)

RelayNext(r) == \/ Fetch(r)
                \/ \E d \in Docs : Enqueue(r, d) \/ EnqueueFails(r, d)
                \/ MarkDispatched(r)
                \/ RecordAttemptFailure(r)

\* A step of the handler, or of the consumer loop after it.
HandlerNext(w) == \/ MarkScanning(w)
                  \/ Scan(w)
                  \/ MarkParsing(w)
                  \/ MarkChunking(w)
                  \/ MarkFailed(w)
                  \/ InsertChunks(w)
                  \/ ListChunks(w)
                  \/ FindCached(w)
                  \/ EmbedMissing(w)
                  \/ AttachEmbeddings(w)
                  \/ HandlerReturns(w)
                  \/ Raise(w)
                  \/ Ack(w)

Next == \/ \E d \in Docs : ApiNext(d)
        \/ \E r \in Relays : RelayNext(r) \/ RelayCrashes(r)
        \/ \E w \in Workers : \/ \E m \in Messages : Claim(w, m)
                              \/ HandlerNext(w)
                              \/ WorkerCrashes(w)

Spec == Init /\ [][Next]_vars

-----------------------------------------------------------------------------
\* The messages the queue has taken; it never forgets one.
Known == owed \cup done \cup dead

Published(d) == \E m \in Known : m[1] = d

(***************************************************************************)
(* At-least-once from the API to the workers: a confirmed document has a   *)
(* row the relays will still pick up, a row that used up its attempts, or  *)
(* a message that is owed, was handled or was dead-lettered.               *)
(***************************************************************************)
NoUploadLost ==
  \A d \in Docs : status[d] # "absent" =>
    \/ \E k \in DOMAIN rows : rows[k] = d /\ d \notin dispatched
    \/ Published(d)

(***************************************************************************)
(* What search serves is complete: a READY document that is not deleted    *)
(* has all its chunks, each with its embedding, and so has every document  *)
(* that was announced by document.ready, whatever redelivery does to it.   *)
(***************************************************************************)
ReadyIsComplete ==
  \A d \in Docs \ deleted :
    status[d] = "ready" \/ <<d, "ready">> \in events => ChunkRows(d) \subseteq embedded

(***************************************************************************)
(* Content the scanner or the parser refused never reaches the chunks      *)
(* table, and its document never becomes READY.                            *)
(***************************************************************************)
RefusedNeverServed ==
  \A d \in Infected \cup Unparseable :
    status[d] # "ready" /\ chunks \cap ChunkRows(d) = {}

(***************************************************************************)
(* _chunk_id and ON CONFLICT DO NOTHING: reprocessing a document never     *)
(* takes an embedding away; only deleting the document does.               *)
(***************************************************************************)
EmbeddingsSurvive ==
  [][\A c \in embedded : c \in embedded' \/ c[1] \in deleted' \ deleted]_vars

(***************************************************************************)
(* A permanent failure stays visible: no late, repeated or concurrent      *)
(* delivery takes a document out of FAILED (the stage and the reason the   *)
(* user sees), however far its handler had come when mark_failed ran.      *)
(***************************************************************************)
FailedIsFinal ==
  [][\A d \in Docs : status[d] = "failed" => status'[d] = "failed"]_vars

\* Nothing is left to be done for d: no row, no message, nobody working on it.
Quiet(d) ==
  /\ d \in dispatched
  /\ \A m \in owed : m[1] # d
  /\ \A r \in Relays : d \notin batch[r] \cup {entry[r]}
  /\ \A w \in Workers : held[w] # NoMessage => DocOf(w) # d

\* No message of d was dead-lettered.
NoDeadLetter(d) == \A m \in dead : m[1] # d

(***************************************************************************)
(* process_document.py: any transient error "is left to propagate, so the  *)
(* queue's own retry-then-DLQ mechanism handles it".  When the pipeline is *)
(* quiet about a document with no dead letter, its status is final.  So it *)
(* is with one worker; with two, the one that is overtaken sets the status *)
(* back, and its error comes too late for the queue to retry.              *)
(***************************************************************************)
QuietMeansResolved ==
  \A d \in Docs : Quiet(d) /\ NoDeadLetter(d) => status[d] \in {"ready", "failed"}

\* A handler came to its end for d.
Answered(d) == status[d] = "failed" \/ <<d, "ready">> \in events

(***************************************************************************)
(* What the same promise comes to with any number of workers on the same   *)
(* message: a document the pipeline is quiet about, with no dead letter,   *)
(* is FAILED, or it was announced as READY and, unless it was deleted, all *)
(* of its chunks can be found; whatever the status says by then.           *)
(***************************************************************************)
QuietMeansAnswered ==
  \A d \in Docs : Quiet(d) /\ NoDeadLetter(d) =>
    /\ Answered(d)
    /\ status[d] = "failed" \/ d \in deleted \/ ChunkRows(d) \subseteq embedded

(***************************************************************************)
(* delete_document.py: "the actual content (chunks + vectors) is gone by   *)
(* the time this call returns".                                            *)
(***************************************************************************)
DeletedIsGone == \A d \in deleted : chunks \cap ChunkRows(d) = {}

-----------------------------------------------------------------------------
(***************************************************************************)
(* Inductive strengthenings.  A relay marks a row only when its message is *)
(* known to the queue, and a worker holds only known messages.             *)
(***************************************************************************)
UploadInv ==
  /\ NoUploadLost
  /\ \A d \in dispatched : Published(d)
  /\ \A r \in Relays : relaying[r] = "mark" => Published(entry[r])
  /\ \A w \in Workers : held[w] # NoMessage => held[w] \in Known

(***************************************************************************)
(* From its INSERT on, a worker can rely on the chunks of its document,    *)
(* and from its SELECT on it knows all of them, unless a delete came.      *)
(***************************************************************************)
CompleteInv ==
  /\ ReadyIsComplete
  /\ \A w \in Workers :
       /\ stage[w] \in {"list", "cache", "embed", "attach"}
            => DocOf(w) \in deleted \/ ChunkRows(DocOf(w)) \subseteq chunks
       /\ stage[w] \in {"cache", "embed", "attach"}
            => DocOf(w) \in deleted \/ ChunkRows(DocOf(w)) \subseteq listed[w]

\* A worker past the scan has a clean document, and past the parser a parsed one.
RefusedInv ==
  /\ RefusedNeverServed
  /\ \A w \in Workers :
       /\ stage[w] \in {"parse", "chunk", "insert", "list", "cache", "embed", "attach"}
            => DocOf(w) \notin Infected
       /\ stage[w] \in {"chunk", "insert", "list", "cache", "embed", "attach"}
            => DocOf(w) \notin Unparseable

\* A worker about to return, and a handled message, leave an answer behind.
AnsweredInv ==
  /\ \A w \in Workers : stage[w] = "return" => Answered(DocOf(w))
  /\ \A m \in done : Answered(m[1])

-----------------------------------------------------------------------------
(* Liveness: the worker's poll loop and consumer task keep running, every  *)
(* call returns or raises, and the queue comes back to every entry until   *)
(* it is settled (EveryEntrySettles of IngestionQueue, which holds for one *)
(* worker).  No fairness for the API.                                      *)

Fairness ==
  /\ \A r \in Relays : WF_vars(RelayNext(r))
  /\ \A w \in Workers : WF_vars(HandlerNext(w))
  /\ \A m \in Messages : WF_vars(\E w \in Workers : Claim(w, m))

FairSpec == Spec /\ Fairness

(***************************************************************************)
(* Every confirmed document comes to a visible end: READY, FAILED, a dead  *)
(* letter, or a row the relay has given up on after _MAX_ATTEMPTS.         *)
(***************************************************************************)
EveryUploadEnds ==
  \A d \in Docs :
    (status[d] = "queued") ~> \/ status[d] \in {"ready", "failed"}
                              \/ \E m \in dead : m[1] = d
                              \/ attempts[d] >= MaxAttempts
=============================================================================
