# A TLA+ model of the Aether workspace backend

Aether is a multi-tenant "chat with your documents" backend (`src/apps/api/src/aether`, Python, asyncio,
FastAPI) with a web client (`src/apps/web`). API replicas and worker processes share nothing but
PostgreSQL (with row-level security per workspace), Redis and an object store. Users upload documents,
workers turn them into embedded chunks, and a chat turn retrieves chunks, generates a reply with an LLM
provider and streams it to the client. Around that there are accounts and sessions, workspaces with
members and invitations, budgets, and the deletion and export of a whole workspace.

The modules of this directory model the components that keep state, at the grain at which their steps
interleave: a Redis command, a database transaction, a call of the object store, what a coroutine does
between two awaits. TLC checks small instances and TLAPS proves safety properties for every value of the
constants. Source paths below are relative to `src/apps/api/src/aether` unless they start with `docs/` or
`tests/`. `PROJECT.json` has the source lines of every definition, the hazards at the lines where they
bite, and the properties that cover them.

## 1. Inventory

| Component | State it keeps | Operations | Hard behaviour | What makes it correct | Module |
|---|---|---|---|---|---|
| Ingestion queue (`adapters/redis/ingestion_queue.py`, port `ports/ingestion_queue.py`) | LIST `ingest:rotation`, SET `ingest:rotation:members`, one stream with a consumer group per tenant, dead-letter stream | `enqueue`, `claim_next`, `ack`, `fail` | each is several Redis commands; workers and enqueuers interleave between them and may die there | one token per tenant, no lost wake-up, at-least-once, dead letter only after `max_deliveries`, round robin | `IngestionQueue`, `AtLeastOnceQueue` |
| Consumer loop (`app/ingestion/consume_queue.py`, `workers/main.py`) | none | claim, handle, ack or fail | a worker dies anywhere | an entry is acknowledged only after it was handled or dead-lettered | `IngestionQueue` |
| Upload, confirm, delete (`app/documents/*`) | `documents`, `outbox` rows | confirm, delete | client retries; delete races the pipeline | a confirmed upload is processed | `DocumentPipeline` |
| Outbox and relay (`adapters/postgres/outbox_repository.py`, `app/ingestion/dispatch_outbox_to_queue.py`) | `outbox.dispatched_at`, `attempts` | fetch, enqueue, mark, record failure | several relays, crash between enqueue and mark | no upload lost, bounded retries end visibly | `DocumentPipeline` |
| Document processor (`app/ingestion/process_document.py`, `adapters/postgres/ingestion_repository.py`) | `documents.status`, `chunks`, embeddings, events | scan, parse, chunk, embed, attach, fail | two deliveries of one message at once, retries, providers that fail | READY means complete, refused content is never served, embeddings survive reprocessing | `DocumentPipeline` |
| Chat turn (`app/chat/send_message.py`, `http/sse.py`, `http/routes/messages.py`, `adapters/redis/stream_buffer.py`, `cancellation.py`) | `messages` with per-thread seq, `genbuf:*` sorted sets, pub/sub | POST and its retry, stream, resume, cancel | a retry while the first runs, failure and cancel in the stream, death of the task, buffer expiry | turn stored once, nothing skipped on resume (but for one of two events of a seq), what was streamed is what is stored and settled | `ChatTurn` |
| Model router, circuit breaker, providers (`app/llm/*`, `adapters/{openai,groq,anthropic,echo}`) | breaker and semaphore per provider | `generate`, `close` | half-open probes by several calls, late failures, fallback in mid-stream, closed streams | one provider's text in a reply, coherent breakers, one probe (which the code does not give), permits given back | `ModelRouter` |
| Memory assembly (`app/chat/memory_assembly.py`) | one summary per thread | read, summarise, upsert | two turns summarise at once, the compactor fails | nothing said is forgotten | `ThreadMemory` |
| Retrieval (`app/retrieval/*`, `adapters/postgres/chunk_search.py`) | none of its own | legs, fusion, MMR, gate | legs in different transactions, documents come and go | what is cited was searchable and is the best found | `HybridSearch` |
| Chunking and parsers (`app/ingestion/chunking.py`, `parsers/*`) | none | parse, pack | long sentences, overlaps, tables, headings; what a parser has no node for | the chunks give back what the parser kept (parsers drop text, section 4), size bound, section paths | `Chunking` |
| Budgets and ledger (`adapters/postgres/usage_ledger.py`, `app/metering/*`) | `budgets`, `usage_events`, global counter | admit, record, change a limit | admission long before settlement | ledger and counter agree, the overshoot is bounded | `Budget` |
| Threads, messages, feedback (`app/threads/*`, `http/pagination.py`) | `threads`, `messages`, `feedback` | create, rename, delete, rate, list | rows change between two pages | every page walk is complete | `Listings` |
| Sessions, password reset, e-mail outbox (`app/auth/*`, `app/password_reset/*`, `app/notifications/*`) | users, refresh-token families, codes, outbox | register, login, refresh, logout, forgot, reset, dispatch | reads and writes in transactions of their own | revocation and reset end sessions, mails settle | `Accounts` |
| Access tokens, API keys, rate limits (`http/deps.py`, `http/rate_limit_deps.py`, `adapters/redis/{denylist,rate_limiter}.py`) | denylist, buckets | verify, deny, consume | Redis outage, clocks read before the script | a bounded rate, a logout holds | `RequestGate` |
| Members, invitations, API keys, workspace settings, idempotency keys (`app/{workspaces,invitations,api_keys}/*`, `http/idempotency.py`) | `memberships`, `invitations`, `api_keys`, `workspaces`, snapshots in Redis | the nine writing routes | READ COMMITTED transactions that check, then write | an owner remains, an invitation admits one, a key takes effect once, no lost update | `Tenancy` |
| Workspace deletion, verification, export (`app/workspaces/*`) | jobs, outbox, files | request, purge, verify, export | crash in the middle, export or upload racing the purge | what is verified deleted is gone, archives are whole | `WorkspaceLifecycle` |

Not modelled: HTTP plumbing and composition, row-level security, the adapters of mail, scanner, embedding
and password hash, plain reads, the evaluation harness, operation scripts, the web client (section 7).

Interactions. `ConfirmDocumentUpload` writes the document and an outbox row in one transaction; the relay
of every worker process polls the outbox and calls `queue.enqueue`; the consumer task of every worker
process calls `queue.claim_next` and hands the message to `DocumentProcessor`, which writes through the
ingestion repository. The chat route starts `SendMessage.execute` as a background task that writes to the
Redis buffer; the response, and every later resume, reads that buffer and never the task. `DELETE
/generations/{id}` reaches the task over pub/sub. `execute` asks the budget for admission, assembles
memory, retrieves, iterates over `LlmRouter.generate`, and settles with the budget. A deletion or export
request writes a job and an outbox row; the same worker processes run them. A password reset leaves its
mail in the outbox for the dispatcher. Every request passes the gate (token or API key, rate limit), the
writing ones the idempotency guard.

## 2. Modules

| Module | Models | Composition |
|---|---|---|
| `AtLeastOnceQueue` | what `IngestionQueuePort` promises | abstract specification; refined by `IngestionQueue`, used by `DocumentPipeline` as its queue |
| `IngestionQueue` | `RedisIngestionQueue` and the consumer loop, one action per Redis command | refines `AtLeastOnceQueue` (`ImplementsPort`) |
| `DocumentPipeline` | confirm, delete, relays, `DocumentProcessor` | composes API, outbox and workers around `AtLeastOnceQueue` |
| `ChatTurn` | `SendMessage.execute`, buffer, followers, cancel, admission and settlement | the generator, memory, retrieval and budget of other turns are what the next four modules detail |
| `ModelRouter` | `LlmRouter.generate` of several calls, breakers, semaphores, adapters | the generator of `ChatTurn` |
| `ThreadMemory`, `HybridSearch`, `Budget` | the steps of a turn before and after the generator, for turns that overlap | one module each |
| `Chunking` | types, parsers and chunks of a document | one step of `DocumentPipeline` |
| `Listings` | threads, messages, feedback and their pages | what a client reads back |
| `Accounts` | one account: sessions, password reset, mail | composes API requests and the dispatcher over the tables they share |
| `RequestGate` | access token, denylist, API key, rate limit | before every handler |
| `Tenancy` | the writing routes of a workspace, as transactions, behind the idempotency guard | composes guard, dependency, use case and commit |
| `WorkspaceLifecycle` | deletion, purge, verification, export, uploads meanwhile | composes API and workers over database and object store |
| `MC*` | model values, small inputs and symmetries for TLC | extend their specification; `MCServices` (`ModelRouter` and the five service modules) and `MCRequests` (`RequestGate` and `Tenancy`) run one of theirs per behaviour |
| `*_proofs` | theorems and their proofs | extend their specification and TLAPS |

### IngestionQueue

`rotation` and `members` are the LIST and the SET. A stream is never trimmed, so an entry is its position:
`added` is the length of the stream, `cursor` the group's last delivered entry, `pel` the pending entries
and `times` their delivery counters. `pc[p]` names the Redis command the process issues next; `tenant`,
`entry` and `count` are the locals of the call. `claim_next` is `LPop; SRem; XPending`, then `XClaim`, or
`XReadGroup` when nothing is pending or the claim got nothing, followed by `ScheduleSAdd; ScheduleRPush`;
`enqueue` is `EnsureGroup; XAdd` and the same two steps, `fail` is `HandlerRaises; DlqAdd; XAck` or
nothing. `FaultyNext` adds the death of a worker (`WorkerDies`, `WorkerRestarts`) and an enqueue that is
interrupted between two commands (`EnqueueInterrupted`). Streams, consumer groups and XCLAIM are Redis'
own; they are modelled from how the adapter uses them, with `min_idle_time=0`: a claim takes any pending
entry, also one whose handler is still running.

### DocumentPipeline

`rows`, `dispatched` and `attempts` are the `document.uploaded` rows of the outbox; `status`, `deleted`,
`chunks`, `embedded` and `events` are the tables; `batch`, `entry` and `relaying` belong to a relay,
`stage`, `listed` and `todo` to a worker. A chunk is a pair of its document and its index, as `_chunk_id`
makes it, and `Text` gives its content, so that the embedding cache (same content, same workspace) can be
hit by another document. Every stage of `DocumentProcessor.__call__` is one action; `Raise` is an
exception at any of them and `MarkFailed` a permanent failure. `SetStatus` has the `CHECK ((status =
'failed') = (failure_stage IS NOT NULL))` of the schema: nothing clears `failure_stage`, so every other
status is refused on a FAILED document and `Raise` is the only step left to a handler that meets one.
Simplification: the message carries the exact delivery count, while the Redis queue's count may lag; that
lag is in `IngestionQueue`, and `AtLeastOnceQueue!Deliver` allows both. All documents are of one
workspace: row-level security keeps the others apart.

### ChatTurn

One thread of one workspace, and a set of POST requests with their client message ids. `log` is the
thread's messages (a position is a seq, which `PostgresMessageRepository.create` draws under a row lock),
`buffer[p]` the sorted set of the generation of request `p`, `seq[p]` its event counter. `pc[p]` walks
through `execute`: lookup of the turn and its replay, admission, the INSERT of the user message (which
raises on the unique index), the meta event with the outcome of retrieval and gate, the generator loop,
error event, save, citation, ledger, usage and done events. `GenerationFails` includes an append that
fails before its ZADD and one that fails after it, in EXPIRE, when the event is in the buffer and `seq`
has not been advanced. `Raise` ends a task by an exception outside of the `try` or by the death of its
process. `reading`, `batch`, `cursor` and `got` are a response and its client: where they are in
disconnect, status check and resume, the events `read_after` returned and `follow_buffer` has still to
send, the Last-Event-ID the client will resume with, and the events it has. `Frame` sends one event;
`Disconnect` comes between any two and drops the rest of the batch. Events of one seq are read in the
order Redis gives members of one score (`Before`). The text of a reply is the number of its deltas, a
grounded reply has one citation, and a generation costs 0 or 1.

### ModelRouter

`call[c]` is a coroutine of `generate()`: `pc` names the await it is at (`waiting` for a permit, `reading`
the stream, `yielded` while the caller has the chunk), `hop` its place in the chain, and `voices` the
providers whose text it has relayed. `breaker`, `free` and `waiters` are the `CircuitBreaker`, the permits
and the queue of a provider's `asyncio.Semaphore`; `configured` is the set of API keys given, from which
`BuildGenerator` makes the chain. `Items` says what a stream of each adapter may bring next: a delta,
usage, the end, or one of the errors its parser raises. `WalkChain` skips open breakers up to the next
provider and ends as unavailable or in the echo generator; `Admit` lets every call through to a half-open
breaker, as `is_open` does. `Close` is the caller that closes the generator (a cancel, or the end of its
own task). The text is left out, and with it `_reply_leaks_system_prompt`: any delta may be the one that
triggers the intervention.

### Accounts

The repositories of these use cases are given the pool, so each call is a transaction, and an action is
one call. `Refresh` is `RefreshRead; RefreshCreate; RefreshMark`, or `RefreshReused` (revoke the family);
`Logout` is `LogoutDeny; LogoutRevoke`; `ResetPassword` is `ResetRead; ResetUpdate; ResetConsume;
ResetRevoke`, each followed by its audit row. A raw token or code is the position of its row, a password
its version. `version` and `late` of a token row are history: the password it was opened with, and that a
revocation overtook the request that inserted it, or one it descends from. `Mailer` is
`DispatchEmailOutbox`, and `CrashRequest` and `CrashMailer` end them between two calls.

### RequestGate

Time is in ticks, `PerSecond` to the second, because JWT times and Redis TTLs are rounded to whole
seconds. `Begin; Present; CheckDenied` is `current_session`, `PresentKey; TouchKey` the API key;
`ReadClock; RedisCheck` or `LocalCheck` the token bucket; `Deny` is the logout handler. The bucket counts
units of 1/`WindowTicks` of a token, so that arithmetic is exact. `Outage` and `Recover` take Redis down:
the denylist fails open and the process falls back to its own bucket. `slipped` adds up the ticks by which
the script stored an older clock than it held.

### Tenancy

One request goes `Guard` (look up the snapshot), `Authorize` or `OpenNewWorkspace` or `OpenAcceptance`
(open the transaction, read the caller's role), a check (`CheckRoleChange`, `CheckRemoval`,
`CheckInvitation`), a write, `Store` (the snapshot) and `Commit`. `db` holds the committed rows; a request
between its write and its commit keeps its result to itself, and holds the lock of the row it wrote, on
which `Unlocked` and `MemberUnlocked` make others wait, as PostgreSQL does under READ COMMITTED. `rivals`
and `twins` are history: who was open, or running with the same key, when the request read what it decided
on. Each request slot is used once.

### WorkspaceLifecycle

`worker[w].pc` names the next call of the worker: `get` the job, `run` (claim it), `list` and `delete` of
the purge, `count`, `prefix` and `record` of the verification, `fetch`, `select`, `download` and `finish`
of the export (the workspace and the documents are two SELECTs of a READ COMMITTED transaction, between
which a purge may commit), `mark` of the outbox row. `CallFails` is an exception of any call, which
`record_attempt_failure` counts, and `Crash` a death that nothing counts; `MaxFaults` bounds both. `Put`
is the client's presigned POST, at any time after the signature, also when the workspace is deleted. `had`
and `put` are history: the documents there were when a job was requested, and the objects a client has PUT
since.

### Services

`ThreadMemory`: a message is its number of tokens, a summary the set of messages it covers; each turn
reads the summary, reads the window, summarises what no longer fits and upserts, last one wins.
`Listings`: creations commit out of the order of their timestamps, and a walk reads page after page with
the keyset cursor (`ListingsSpec` lets both lists go on at once). `Chunking`: a document is the sequence
of its elements, nested by their depth, and a sentence is its number of tokens; `ParsedNode` says which
elements a parser makes a node of and with which text, `Parse` collects them; `Flatten` (a fold of
`AddNode`, one turn of the loop over the nodes), `ChunkDocument` (a fold of `Pack`) and `OverlapTail` are
the functions of `chunking.py`, and `Under` and `Expected` are what they are checked against.
`HybridSearch`: `SeenBefore` and `Higher` are the order in which `_reciprocal_rank_fusion` sorts, with the
ties it keeps; the selection is a fold of `PickBest`; a leg returns any ranking of what is searchable when
it runs, and scores are the code's fractions times `Scale`, so that comparisons are exact. `Budget`:
admission, the event and its settlement are transactions of generations that overlap, next to the PUT of a
limit with its ETag.

## 3. Runs

| Run | Instance | Checks | What it shows |
|---|---|---|---|
| `queue_safe` | 2 tenants, 2 workers, 1 enqueuer, no crash | `OneToken`, `UnreadEntriesAttended`, `SettledNotLost`, `NeverOvertaken` | one token per tenant, no wake-up for new work is lost, nothing leaves the pending list unsettled, tenants are served in turn |
| `queue_faulty` | 1 tenant, 2 workers, 2 enqueuers, a crash between any two commands | `ImplementsPort` | the Redis queue implements `AtLeastOnceQueue` |
| `queue_fair` | 2 tenants, 1 worker, 2 enqueuers | `EveryEntrySettles` | every entry is handled or dead-lettered |
| `pipeline_workers` | 2 documents with a common chunk, one of them infected, 1 relay, 2 workers on the same messages, 2 deliveries, a delete at any time | `NoUploadLost`, `ReadyIsComplete`, `RefusedNeverServed`, `QuietMeansAnswered`, `FailedIsFinal` | two handlers of one message do not make a READY document incomplete, serve a refused one or undo a failure; whatever handlers overtake each other, a pipeline at rest has failed the document, announced it with all its chunks, or has a dead letter |
| `pipeline_relays` | 1 document, 2 relays, 1 worker, 2 attempts, 2 deliveries, 2 copies, a crash | `QuietMeansResolved`, `EveryUploadEnds` | every confirmed document comes to a visible end, and a pipeline at rest has resolved all of them |
| `chat_turn` | a POST and its retry, one delta, one fault, budget for one generation | `TurnStoredOnce`, `NothingSkipped`, `SeenIsStored`, `SettledBeforeDone`, `FollowersEnd` | the turn is stored once, a resumed stream misses nothing but one of two events of a seq, what was read is stored and billed, followers end |
| `chat_resume` (violation) | the posts of `chat_turn`, no task death | `AtLeastOnceDelivery` | a delta and an error event share a seq, and the resumed client gets one of them |
| `router_probes` (violation) | 3 calls, threshold 1, 2 permits | `OneProbe` | two calls are let through to a half-open provider |
| `accounts` | 2 requests at a time and 5 in all, 2 devices, no grace, a crash, one tick | `RevocationSticks`, `ResetEndsSessions`, `EveryMailSettles` | a session outlives a logout, a reuse or a reset only through a refresh or login that read before it; mails settle |
| `requests` | 3 requests of 3 users, 2 owners at first, one failure; 2 request slots at the gate, 5 requests, a window of 3 ticks, 2 ticks per second, an outage | `OwnerRemains`, `InvitationAdmitsOne`, `OncePerKey`, `NoLostUpdate`, `RateBounded`, `LogoutHolds` | check-then-write holds for requests one after the other; an ETag holds also for overlapping ones; the bucket's bound with clocks out of order; a denial falls short of its token by less than a second |
| `lifecycle` | 1 document, 1 deletion, 1 export, 2 workers, 2 attempts, 2 faults | `NothingLeftBehind`, `VerifiedMeansPurged`, `ArchiveWhole`, `EveryDeletionEnds` | an interrupted or doubled purge leaves no file, a passed verification is true, a completed export has every file, deletions end |
| `services` | 3 calls, a chain of 2 providers or of none, threshold 2, cooldown 1, one permit each, 2 deltas; 2 turns of a thread; 3 threads, pages of 2; every document of up to 4 elements through every parser; rankings of 3 chunks; 2 workspaces with 2 generations | `OneVoice`, `BreakerCoherent`, `PermitsConserved`, `EveryCallEnds`, `MemoryWhole`, `PagesWhole`, `ChunksWhole`, `RetrievalSound`, `BudgetHeld` | no reply mixes providers, breakers survive overlapping probes, no permit leaks, no call waits for ever; one property for each other service, over every behaviour or input of the instance |

A "violation" run checks one property, which says what a docstring or a chapter of `docs/architecture`
promises, and TLC finds the behaviour of the code that breaks it. `PROJECT.json` quotes the lines under
"findings".

Bounds, and why they are enough.
- `MaxEntries`, `MaxCopies`: two entries of a stream are needed for a failed entry behind an acknowledged
  one, and two messages of a document for duplicated delivery; no guard of the code tells a third from the
  second.
- `MaxDeliveries = 2`, `MaxAttempts = 2`: a first delivery, a retry and the dead letter all occur
  (`pipeline_workers`, `pipeline_relays`, `accounts`, `lifecycle`). `pipeline_workers` has one copy: both
  workers take the same entry through the claim without idle time, which is where two handlers meet. Two
  copies and a crash of such handlers are in the theorems.
- Two workers, relays, enqueuers or requests: no operation needs three processes to be interrupted.
  `services` has three calls of the router, because a late success or failure has to meet a probe while a
  third queues; `requests` has three of `Tenancy`, as an owner is taken by two and made by a third.
- `MaxCrashes`, `MaxFaults`, `MaxFailures`, `MaxOutages` of 1 or 2: one interruption at every point;
  `lifecycle` has two, so that the retry may fail too.
- `MaxText`: a failure before and after the first delta; two deltas in `services`, for a leak found in the
  second.
- `Limit = 1` in `chat_turn`: the second turn can be admitted before, and refused after, the first
  settles.
- `GraceSeconds = 0` in `accounts`: with a grace period a reuse from the same device is benign in one tick
  and not in the next, a case that the two devices already make; and `RefreshTtl = 1`, `ResetTtl = 1` with
  one tick let tokens and codes expire.
- `PerSecond = 2`: the half second that `int()` cuts off. `WindowTicks = 3` is no multiple of it.
- `TargetTokens = 5`, `HardMaxTokens = 8` with sentences of 1 to 9 tokens: a sentence over the maximum, an
  overlap that fills the next chunk, a chunk that ends on the target. `RrfConstant` and the threshold have
  the values of the code.
- `Unparseable` is empty in the runs; `RefusedStaysOut` proves its case for every set.

Deadlock is checked in the queue and pipeline runs. In the others the system may come to rest: all
requests, calls or turns of the bound have been answered. Symmetry is used only in runs without liveness.

Each property of a run has a mutant: an operator beside the one it mutates (a forgotten SADD guard, an
upsert for `DO NOTHING`, a fallback after the first delta, a permit kept over a fallback, a refresh that
does not look at `revoked`, an owner count that is off by one, a download that skips missing objects,
...), with which TLC finds the property violated.

Fairness.
- `queue_fair`: weak fairness of each worker's next step and of an enqueue that has begun: asyncio runs
  every task, Redis answers, a handler returns or raises. None of callers, none of failures.
- `pipeline_relays`: the same for relays and handlers, and a claim of every owed message, which is what
  `EveryEntrySettles` establishes for the queue with one worker; with two workers the queue does not give
  it (section 4), so that run has one worker.
- `chat_turn`: tasks run, a generator ends or raises, a connected response polls; clients owe nothing.
  `FollowersEnd` excludes a task that died and a buffer that expired between the status check and the
  first read of a resume, because there the code polls for ever.
- `services`: a call of the router that can go on does. A call that waits for a permit can go on only when
  it is at the head of the queue and a permit is free, so `EveryCallEnds` rests on the others giving
  theirs back. (A behaviour of another service has the calls that found no provider.) Nothing is assumed
  of the other services.
- `accounts`: the mail dispatcher polls for ever. Requests owe nothing.
- `lifecycle`: the workers loop for ever; faults are bounded, and nothing is assumed of clients.

## 4. Observed

What was met while modelling. The first two have a violation run of section 3; of the others, the passing
runs take them into account (their properties name the exception, or their instance stays out of it).

With a run:
- ZADD and EXPIRE are two commands: when the second fails, the delta is stored and not counted, and the
  error event gets its seq. Frames are sent one by one, so a break between the two skips the second for
  good (`stream_buffer.py:36`, run `chat_resume`). `NothingSkipped` states that it costs one of the two.
- A half-open breaker lets every call through, not "exactly one probe" (`circuit_breaker.py:51`, run
  `router_probes`).

Queue and pipeline:
- With two workers on a message, the first acknowledges it after the second has set the status back; a
  transient error of the second is then neither retried nor dead-lettered, and the document stays in
  'scanning' although the docstring leaves such errors to "the queue's own retry-then-DLQ mechanism"
  (`process_document.py:102`, docstring 12-15). TLC finds it in a few steps when `QuietMeansResolved` is
  given two workers. What survives with any number of workers is `QuietMeansAnswered`.
- A failed entry can be forgotten. Between XPENDING and XCLAIM another worker acknowledges the entry;
  XCLAIM returns nothing, `_claim_pending_retry` gives up although a further failed entry is pending,
  nothing new is found and the tenant leaves the rotation (`ingestion_queue.py:152`). It takes two
  workers.
- A death between SADD and RPUSH, or between LPOP and SREM, leaves the tenant in the SET and not in the
  LIST; every later SADD returns 0 (`ingestion_queue.py:110`).
- With `min_idle_time=0` an entry is claimed again while its handler is running, where
  `ports/ingestion_queue.py` says "after a failure".
- `insert_chunks_and_advance` does not look at `deleted_at`: the chunks of a deleted document come back
  (`ingestion_repository.py:75`).
- A redelivery takes a READY document back to scanning and to READY a second time. For a FAILED one it is
  no "silent no-op" (`ingestion_repository.py:47-52`): `update_status` breaks the CHECK on
  `failure_stage`, and the message ends in the dead-letter stream.
- Two relays fetch the same row: `fetch_pending` has no `FOR UPDATE SKIP LOCKED`, as
  `docs/architecture/03-system-architecture.md:210` has it. A confirm retried after a delete fails its
  assertion (`confirm_upload.py:73`).
- An empty Markdown heading leaves its level pending, and the next paragraph becomes a heading
  (`markdown_parser.py:35`), where the docstring has everything but headings as paragraph text.
- Parsers drop text. HTML: what is in no `h1`-`h6`, `p` or `table` (list items, `div`, block quotes),
  while a heading or table inside a table comes twice (`html_parser.py:32`). Markdown: code and HTML
  blocks (`markdown_parser.py:34`). Word: content controls and tables in tables (`docx_parser.py`).
  `ChunksWhole` is about the nodes a parser made, not about the document.
- The first of two adjacent tables is dropped by chunking, and the overlap at the start of a chunk may
  take it over the hard maximum (`chunking.py`). `ChunksWhole` states both exceptions.

Chat:
- A retry while the first request generates finds no message at `seq + 1`, generates, stores and bills a
  second reply, without admission (`send_message.py:148`), where the comment above it says that a retry
  must not "regenerate a new reply"; it may also replay a message of another turn. `TurnStoredOnce` is
  about the user's message only.
- A cancel before the subscription is lost; the readers of a task that died poll for ever.
- `history[:-1]` takes the last message for the turn's own, which another turn's may be
  (`send_message.py:185`). A backlog longer than the fetch limit, built up by failing compactions, is lost
  to the memory.
- The threshold 0.0082 is below 1/80: the gate refuses only an empty retrieval (`config.py:149`).
  `RetrievalSound` states it.
- The purge of a workspace deletes its ledger rows with it, and the global counter keeps their cost:
  counter and ledger agree only for workspaces that were not purged. `Budget` has no purge.
- No code resets a monthly budget; a settlement changes `budgets.updated_at`, so that an administrator's
  PUT conflicts with it; the ceiling of a turn counts the words of its message only.

Accounts, gate, tenancy, lifecycle:
- A refresh inserts its successor after the revocation it did not see (`refresh_session.py:76`).
- The script stores the caller's clock even if it is older than the bucket's (`rate_limiter.py:64`), and
  `int()` cuts the TTL of a denial (`logout_user.py:46`).
- A password reset that dies between its transactions leaves old sessions, or a code that still opens
  (`reset_password.py:53`). `ResetEndsSessions` is of completed resets.
- Two owners can remove each other, two users accept one invitation, and two requests with one key both
  run, if they overlap: the checks read without a lock. The assertion in `manage_members.py:67` can fail
  under a concurrent removal. A snapshot is stored before the commit, so a failed commit is replayed as a
  success.
- The SELECTs of an export do not share a snapshot (`workspace_export_repository.py:63`, `:123`). A purge
  that commits between them has the export upload an archive without any file; its `export_jobs` row is
  gone by then (`ON DELETE CASCADE`), so that no job is completed with it, and the object stays under
  `exports/`.
- Archives are under `exports/`, outside of the prefix the verification lists, and never purged. A
  document that is PUT between the listing and the DELETE of a purge leaves an object, and the
  verification says "failed". A second worker that completes a deletion overwrites its evidence.

## 5. Proofs

Every theorem holds for all values of the constants that satisfy the module's named assumption (bounds are
naturals, null values are not members). The argument is always: type invariant, an inductive
strengthening, one step per action. Some properties are about data that no library theorem speaks of: sums
over finite sets (`BudgetHeld`, `MemoryWhole`, the scores of `RetrievalSound`), sorted rows
(`PagesWhole`), folds over a list (`ChunksWhole`, the selection of `RetrievalSound`), enumerations in a
given order. `Services_proofs` proves what it needs of them (`SumAdd`, `SumAgrees`, `SumGrows`,
`SumOrdered`, `SortedExists`, `FoldExists`, `FusionRanks`) without an induction rule: a counterexample
would have a smallest set or a smallest length (`MinimalSet`, `LeastNumber`, from `WFMin` and the
well-foundedness of the naturals), and the smallest has none. A claim about a fold is then an invariant of
its prefixes.

| Theorem | States | Inductive invariant |
|---|---|---|
| `IngestionQueue_proofs!TypeCorrect` | `TypeOK`, with crashes | itself |
| `RotationSafe` | `OneToken`, with crashes | itself: the four conjuncts need each other. RPUSH is safe because a tenant in a hand is not in the list, SADD because a token is covered by the SET |
| `NoLostWakeUp` | `MembersHaveTokens /\ UnreadEntriesAttended`, no crash | the two together with `OneToken`: SADD returning 0 leaves an unread entry attended only because members have tokens |
| `EnqueueAlwaysSchedules` | `EnqueueSchedules`, no crash | follows from `MembersHaveTokens` |
| `AtLeastOnce` | `SettledNotLost /\ DeadLettersExhausted`, with crashes | `DeliveryInv`: the cursor separates counted entries from uncounted ones, and the count in a message, although read early, never exceeds Redis' count |
| `RoundRobin` | `NeverOvertaken` (action property), with crashes | `OneToken`: LPOP takes the head, RPUSH adds at the end a tenant that is not in the list |
| `QueueRefinesPort` | `ImplementsPort`, with crashes | `TypeOK`, `OneToken` and `DeliveryInv`: under the mapping every command is one action of `AtLeastOnceQueue` or a stutter |
| `DocumentPipeline_proofs!PipelineTypeCorrect` | `TypeOK` | itself |
| `UploadsNeverLost` | `NoUploadLost`, with crashes | `UploadInv`: a row is marked only when its message is known to the queue, and the queue never forgets |
| `SearchIsComplete` | `ReadyIsComplete` | `CompleteInv`: from its INSERT on a worker can rely on the chunks and from its SELECT on it knows them, unless a delete came |
| `EmbeddingsNeverTaken` | `EmbeddingsSurvive` (action property, proved only) | `TypeOK` |
| `FailedStaysFailed` | `FailedIsFinal` (action property) | `TypeOK` |
| `RefusedStaysOut` | `RefusedNeverServed` | `RefusedInv`: a worker past the scan has a clean document |
| `QuietIsAnswered` | `QuietMeansAnswered`, with crashes and any number of workers | `AnsweredInv`: a handled message, and a worker about to return, leave the document FAILED or announced as READY, and no step takes either back; with `UploadInv` and `CompleteInv` |
| `PipelineUsesPort` | the pipeline's `Spec` implements `AtLeastOnceQueue!QSpec` | `TypeOK` |
| `ChatTurn_proofs!ChatTypeCorrect` | `TypeOK` | with `ReplayInv`: the counter stays within the replayed events |
| `TurnsStoredOnce` | `TurnStoredOnce` | itself |
| `ResumeSkipsNothing` | `NothingSkipped` | `SeqInv`: the counter is ahead of the buffer and of every client, but for a delta whose append failed; a batch is what is left of a read from the cursor on, so that a break loses nothing a later read does not return, but for the twin of the frame just sent |
| `SettlementIsExact` | `SettledBeforeDone`, with task deaths | `SettleInv`: at which steps a reply, its cost and its bill exist |
| `SeenStored` | `SeenIsStored` | `SeenInv`: the deltas in the buffer are those of the text, or fewer when an append failed; the status fits the text; from the save on the log has a reply that keeps them; with `SeqInv` |
| `Services_proofs!BreakersStayCoherent` | `BreakerCoherent` | itself, with types: each of `Admit`, `RecordFailure` and `RecordSuccess` keeps a breaker coherent, whatever call comes back with whatever is late |
| `NeverTwoVoices` | `OneVoice` | `VoiceInv`: what was said while a call reads is of the provider it reads and has set `text_sent`, and a call that waits for the next provider has said nothing |
| `PermitsStayConserved` | `PermitsConserved` | `PermitInv`: what is free and the calls that hold make `MaxConcurrent`, and the queues hold the waiting calls, each once, at the provider it waits for |
| `Tenancy_proofs!TenancyTypeCorrect` | `TypeOK` | itself |
| `UpdatesNeverLost` | `NoLostUpdate` | `UpdateInv`: an update that is written holds the row at the version it expects; those that are done are of earlier ones |
| `KeysTakeEffectOnce` | `OncePerKey` | `KeyInv`: two requests that have passed the guard with one key ran at once; a key that took effect has its snapshot |
| `InvitationsAdmitOne` | `InvitationAdmitsOne` | `InvitationInv`: acceptances of one invitation that both found it open overlapped |
| `LastOwnerProtected` | `OwnerRemains` | `OwnerInv`: a request that takes an owner leaves one, unless another one that it overlaps has taken one since; two written changes are of different rows |
| `RequestGate_proofs!GateTypeCorrect` | `GateTypeOK` | itself |
| `LogoutsHold` | `LogoutHolds` | `GateInv`: the denial of a logged-out token reaches to less than a second before its expiry |
| `RateStaysBounded` | `RateBounded` | `RateInv`, a potential: what was let through since any point and what the bucket still holds are at most its capacity, the refill since and what the clock slipped back |
| `Accounts_proofs!RevocationsStick` | `RevocationSticks` | `RevocationInv`: a refresh about to insert has a live token, or the revocation has marked it late |
| `ResetsEndSessions` | `ResetEndsSessions` | `ResetInv`: no completed reset is of a later password than the account's; sessions and logins on their way are of that reset's password or later, or late |
| `WorkspaceLifecycle_proofs!TypeCorrect` | `TypeOK` | with the fields of each worker at its step |
| `PurgeComplete` | `NothingLeftBehind` | `LifecycleInv`: while a purge deletes, what is left of the files is among its keys or was PUT since (`WorkerInv`); as long as there are rows, they have the documents of every request (`RequestInv`) |
| `VerificationSound` | `VerifiedMeansPurged` | `LifecycleInv`: a worker that counted no row knows the workspace is gone, one that found the prefix empty that what is there was PUT since |
| `ExportSound` | `ArchiveWhole` | `LifecycleInv`: what an export has still to download and what it has downloaded are all it had at its request; before its upload there is no archive; once the workspace is gone no export job is complete, which covers the export whose SELECT of the documents found nothing |
| `Services_proofs!BudgetsHold` | `BudgetHeld` | `LedgerInv`: a generation on its way has a run number that no event and no other generation has, so that each event is recorded once and the two settlements follow the ledger; `AdmissionInv`, a potential: what a workspace has spent and what its admitted generations may still cost stay within its bound |
| `MemoryStaysWhole` | `MemoryWhole` | `MemoryInv`: what a turn is to compact begins where the summary it knows ends and ends where its window begins (`CompactInv`), and a window stays within the budget while messages are appended (`WindowInv`) |
| `PagesStayWhole` | `PagesWhole` | `ThreadWalkInv`, `MessageWalkInv`: what a client has seen is above the cursor, in order; what was there all the time and is not seen yet is below it |
| `ChunksStayWhole` | `ChunksWhole` | `ChunkingSpec` keeps nothing between documents, so the invariants are those of the loops. `Flat`, of the nodes read, whichever the parser made of the elements: the items are laid out in the order of the text, the stack is the headings in force. `Packed`, of the items read: the chunks are pieces that reach from one to the next with at most an overlap (`Spans`), and the buffer is the piece since the last |
| `RetrievalStaysSound` | `RetrievalSound` | `SearchInv`: what a leg found was searchable during the search. `Higher` is a strict total order (`HigherOrders`), so the fused list is its one enumeration (`FusionRanks`) and its first chunk has the greatest score; `Picked`, of the turns of the selection: distinct chunks of the shortlist, one more each turn, the first of them first |

`MembersHaveTokens`, `EnqueueSchedules` and `DeadLettersExhausted` are proved and are not properties of a
run of their own.

Every invariant and every safety action property that a run checks with success has a theorem, but
`QuietMeansResolved`: it is true of one worker only, and `QuietIsAnswered` is what holds of any number.
Only model-checked are the liveness properties (`EveryEntrySettles`, `EveryUploadEnds`, `FollowersEnd`,
`EveryCallEnds`, `EveryMailSettles`, `EveryDeletionEnds`), which are out of the prover's reach. The
assumptions of `HybridSearch` and `Chunking` hold of the configuration: the top k is 6, the pool of
candidates 20. That one hit clears the gate is stated for thresholds up to what the last rank of a leg
scores, 1/80; the configured one is 0.0082.

## 6. How the modules meet

The modules are checked one by one. Where one stands for another, it is by a contract: `DocumentPipeline`
instantiates `AtLeastOnceQueue`: `PipelineUsesPort` proves that it does nothing else with its queue, and
`QueueRefinesPort` that the Redis commands of `IngestionQueue` implement it (`queue_faulty` checks the
same). `ChatTurn`'s generator yields deltas of one source and ends or raises, which is `OneVoice` and
`EveryCallEnds` of `ModelRouter`; it admits a turn, bills it once and last, which `Budget` takes as one
generation; the outcome of its gate is either, as `HybridSearch` leaves it. `DocumentPipeline`'s chunks of
a document are those of `Chunking`, made of the nodes that the parser kept. `RequestGate` and `Tenancy`'s
guard come before every handler; the other modules start where those have let a request in. A compound of
all of them is out of TLC's reach.

## 7. Not modelled

- HTTP plumbing, composition, observability: wiring, serialisation, metrics and settings have no state of
  their own. The dependencies that open and end transactions are in `Tenancy` and `RequestGate`.
- Row-level security and grants: enforced by PostgreSQL for a setting and a statement at a time, not by
  interleavings. Every module is of one workspace, but for `IngestionQueue` and `Budget`.
- Mail, scanner, embedding and password-hash adapters: protocol clients without state; the modules model
  what their callers see, a result, a refusal or an exception. Object storage is the set of its objects,
  PostgreSQL its rows and row locks, Redis its structures.
- Plain reads (`get`, `list` without a cursor, `get_stats`): no effect on any state.
- The evaluation harness and the operation scripts: offline, one-shot, no part of the running system.
- The web client: user interface.
- Abstracted inside of the modules: texts, prompts, scores of a leg, file formats, wording of errors. In
  `Chunking` the elements of a document are those the third-party library of its parser would show it.
- The purge of a workspace in `Budget`, `Listings`, `ThreadMemory` and `ChatTurn`: the rows go with the
  workspace. Only the global counter stays (section 4).

## 8. Plan

Done: the modules and theorems above. Next, in this order:

1. A second turn in `ChatTurn` (a replay that finds another turn's message), and liveness of a document
   with two workers.
2. A death of the consumer task in `IngestionQueue`, next to the death of its process, and the hazards of
   PROJECT.json that no property covers yet.
