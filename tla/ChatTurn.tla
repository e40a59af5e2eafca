------------------------------ MODULE ChatTurn ------------------------------
(***************************************************************************)
(* POST /messages: SendMessage.execute (app/chat/send_message.py) run as a *)
(* background task per request, the Redis buffer its events go to          *)
(* (adapters/redis/stream_buffer.py), the responses that follow the buffer *)
(* (http/sse.py), cancellation over pub/sub (adapters/redis/cancellation)  *)
(* and the budget it is admitted by and settled against                    *)
(* (adapters/postgres/usage_ledger.py).                                    *)
(*                                                                         *)
(* One thread of one workspace.  One action per transaction, Redis command *)
(* or generator item.  The text of a reply is the number of its deltas, a  *)
(* grounded reply has one citation, and a generation costs 0 or 1.         *)
(***************************************************************************)
EXTENDS Integers, Sequences, FiniteSets

CONSTANTS Posts,      \* requests; each has its own generation_id
          Turn,       \* Turn[p]: the client_message_id of p (a retry repeats it)
          Streaming,  \* the requests that accept text/event-stream
          Limit,      \* monthly_limit_microcents, in costs of one generation
          MaxText,    \* bound: deltas per generation
          MaxFaults   \* bound: tasks that die (exception outside the try, crash)

ASSUME ChatAssumption ==
          /\ Streaming \subseteq Posts
          /\ Limit \in Nat
          /\ MaxText \in Nat
          /\ MaxFaults \in Nat

VARIABLES
  log,       \* the messages of the thread; a position is a seq
  settled,   \* settled_microcents of the budget
  billed,    \* generations with a usage_events row
  buffer,    \* genbuf:{p}: the <<seq, event>> pairs in the sorted set
  pc,        \* the step of execute() each task is at
  found,     \* seq of existing_user_message, then of existing_reply (0: none)
  seq,       \* the shared per-generation counter
  text,      \* deltas accumulated
  status,    \* status of the generation
  grounded,  \* the gate passed
  cost,      \* cost_microcents
  cancelled, \* is_cancelled() of the subscription
  reading,   \* what the client of p does with the stream
  batch,     \* the events its response has read and not yet sent
  cursor,    \* the last seq it got (-1: none)
  got,       \* the events it got
  faults

storeVars == <<log, settled, billed>>
genVars == <<text, status, grounded, cost, cancelled>>
taskVars == <<pc, found, seq, genVars>>
readVars == <<reading, batch, cursor, got>>
vars == <<storeVars, buffer, taskVars, readVars, faults>>

Statuses == {"complete", "partial", "cancelled", "error"}

\* "failure" is the error event; done is named by the status it carries.
EventTypes == {"meta", "token", "failure", "citation", "usage"} \cup Statuses

Steps == {"lookup", "reply", "replay", "admit", "persist", "meta", "refuse",
          "subscribe", "generate", "error", "save", "cite", "record", "usage",
          "done", "ended", "replayed", "refused", "raised"}

\* The task has ended.
Over == {"ended", "replayed", "refused", "raised"}

\* A row is never an "error": a stream may be.
Rows == [role : {"user", "assistant"}, post : Posts, size : Nat,
         status : Statuses \ {"error"}, grounded : BOOLEAN]
Events == Nat \X EventTypes

StoreTypeOK ==
  /\ log \in Seq(Rows)
  /\ settled \in Nat
  /\ billed \subseteq Posts
  /\ buffer \in [Posts -> SUBSET Events]

TaskTypeOK ==
  /\ pc \in [Posts -> Steps]
  /\ found \in [Posts -> Nat]
  /\ \A p \in Posts : found[p] <= Len(log)
  /\ \A p \in Posts : pc[p] \in {"reply", "replay"} => found[p] >= 1
  /\ seq \in [Posts -> Nat]
  /\ text \in [Posts -> Nat]
  /\ status \in [Posts -> Statuses]
  /\ grounded \in [Posts -> BOOLEAN]
  /\ cost \in [Posts -> {0, 1}]
  /\ cancelled \in [Posts -> BOOLEAN]
  /\ faults \in 0 .. MaxFaults

ReadTypeOK ==
  /\ reading \in [Posts -> {"waiting", "following", "away", "checked",
                            "closed", "gone"}]
  /\ batch \in [Posts -> SUBSET Events]
  /\ cursor \in [Posts -> Nat \cup {-1}]
  /\ got \in [Posts -> SUBSET Events]

TypeOK == StoreTypeOK /\ TaskTypeOK /\ ReadTypeOK

Init ==
  /\ log = <<>>
  /\ settled = 0
  /\ billed = {}
  /\ buffer = [p \in Posts |-> {}]
  /\ pc = [p \in Posts |-> "lookup"]
  /\ found = [p \in Posts |-> 0]
  /\ seq = [p \in Posts |-> 0]
  /\ text = [p \in Posts |-> 0]
  /\ status = [p \in Posts |-> "complete"]
  /\ grounded = [p \in Posts |-> FALSE]
  /\ cost = [p \in Posts |-> 0]
  /\ cancelled = [p \in Posts |-> FALSE]
  /\ reading = [p \in Posts |-> "waiting"]
  /\ batch = [p \in Posts |-> {}]
  /\ cursor = [p \in Posts |-> -1]
  /\ got = [p \in Posts |-> {}]
  /\ faults = 0

Goto(p, step) == pc' = [pc EXCEPT ![p] = step]

\* Nothing changes but the step.
Move(p, step) ==
  /\ Goto(p, step)
  /\ UNCHANGED <<storeVars, buffer, found, seq, genVars, readVars, faults>>

\* buffer_and_yield, with the seq += 1 that follows it.
Emit(p, event) ==
  /\ buffer' = [buffer EXCEPT ![p] = @ \cup {<<seq[p], event>>}]
  /\ seq' = [seq EXCEPT ![p] = @ + 1]

\* An event and nothing else.
EmitThen(p, event, step) ==
  /\ Emit(p, event)
  /\ Goto(p, step)
  /\ UNCHANGED <<storeVars, found, genVars, readVars, faults>>

-----------------------------------------------------------------------------
(* The replay of a turn that is already in the log.                        *)

\* The seqs at which the log has the user message of turn t.
UserSeqs(t) ==
  {k \in DOMAIN log : log[k].role = "user" /\ Turn[log[k].post] = t}

\* find_by_client_message_id
Lookup(p) ==
  /\ pc[p] = "lookup"
  /\ \/ /\ UserSeqs(Turn[p]) = {}
        /\ Goto(p, "admit")
        /\ UNCHANGED found
     \/ \E k \in UserSeqs(Turn[p]) :
          /\ found' = [found EXCEPT ![p] = k]
          /\ Goto(p, "reply")
  /\ UNCHANGED <<storeVars, buffer, seq, genVars, readVars, faults>>

\* Mutant: the case of no reply yet is forgotten.
FindReplyUnchecked(p) ==
  /\ pc[p] = "reply"
  /\ found' = [found EXCEPT ![p] = @ + 1]
  /\ Goto(p, "replay")
  /\ UNCHANGED <<storeVars, buffer, seq, genVars, readVars, faults>>

\* find_by_seq(seq + 1): whatever message is there, or none, and then the
\* turn is generated (again) without a new admission.
FindReply(p) ==
  LET next == found[p] + 1 IN
  /\ pc[p] = "reply"
  /\ \/ /\ next \in DOMAIN log
        /\ found' = [found EXCEPT ![p] = next]
        /\ grounded' = [grounded EXCEPT ![p] = log[next].grounded]
        /\ Goto(p, "replay")
     \/ /\ next \notin DOMAIN log
        /\ Goto(p, "meta")
        /\ UNCHANGED <<found, grounded>>
  /\ UNCHANGED <<storeVars, buffer, seq, text, status, cost, cancelled, readVars, faults>>

\* _replay_events: the reply as one token, and done is always complete.
ReplayEvents(p) ==
  IF grounded[p] THEN <<"meta", "token", "citation", "usage", "complete">>
                 ELSE <<"meta", "token", "usage", "complete">>

Replay(p) ==
  LET events == ReplayEvents(p) IN
  /\ pc[p] = "replay"
  /\ EmitThen(p, events[seq[p] + 1],
              IF seq[p] + 1 = Len(events) THEN "replayed" ELSE "replay")

-----------------------------------------------------------------------------
(* A new turn, up to its meta event.                                       *)

\* check_global and check: the ceiling of one generation must still fit.  With
\* one workspace both read the same growing amount, so the second decides.
Allowed == settled + 1 <= Limit

Admit(p) ==
  /\ pc[p] = "admit"
  /\ Move(p, IF Allowed THEN "persist" ELSE "refused")

Row(p, role, size, state, gate) ==
  [role |-> role, post |-> p, size |-> size, status |-> state, grounded |-> gate]

\* Mutant: no unique index on the client_message_id.
PersistAgain(p) ==
  /\ pc[p] = "persist"
  /\ log' = Append(log, Row(p, "user", 0, "complete", FALSE))
  /\ Goto(p, "meta")
  /\ UNCHANGED <<settled, billed, buffer, found, seq, genVars, readVars, faults>>

\* The INSERT of the user message; UNIQUE (thread_id, client_message_id) makes
\* it raise when a concurrent request of the same turn came first.
PersistUser(p) ==
  /\ pc[p] = "persist"
  /\ \/ /\ UserSeqs(Turn[p]) = {}
        /\ log' = Append(log, Row(p, "user", 0, "complete", FALSE))
        /\ Goto(p, "meta")
     \/ /\ UserSeqs(Turn[p]) # {}
        /\ Goto(p, "raised")
        /\ UNCHANGED log
  /\ UNCHANGED <<settled, billed, buffer, found, seq, genVars, readVars, faults>>

\* Memory, query rewriting, retrieval and the gate; then the meta event.
EmitMeta(p) ==
  /\ pc[p] = "meta"
  /\ Emit(p, "meta")
  /\ \E passed \in BOOLEAN :
       /\ grounded' = [grounded EXCEPT ![p] = passed]
       /\ Goto(p, IF passed THEN "subscribe" ELSE "refuse")
  /\ UNCHANGED <<storeVars, found, text, status, cost, cancelled, readVars, faults>>

\* The canned reply is streamed as one delta, and saved like any other.
EmitRefusal(p) ==
  /\ pc[p] = "refuse"
  /\ Emit(p, "token")
  /\ text' = [text EXCEPT ![p] = 1]
  /\ Goto(p, "save")
  /\ UNCHANGED <<storeVars, found, status, grounded, cost, cancelled, readVars, faults>>

-----------------------------------------------------------------------------
(* The generator loop.                                                     *)

Subscribe(p) == pc[p] = "subscribe" /\ Move(p, "generate")

\* DELETE /generations/{p}, from any replica, and _listen marking the
\* subscription: a cancel is heard only while p is subscribed.
Cancel(p) ==
  /\ pc[p] = "generate"
  /\ ~cancelled[p]
  /\ cancelled' = [cancelled EXCEPT ![p] = TRUE]
  /\ UNCHANGED <<storeVars, buffer, pc, found, seq, text, status, grounded, cost,
                 readVars, faults>>

\* Mutant: the delta takes the seq of the event before it.
EmitTokenUncounted(p) ==
  /\ pc[p] = "generate"
  /\ ~cancelled[p]
  /\ cost[p] = 0
  /\ text[p] < MaxText
  /\ text' = [text EXCEPT ![p] = @ + 1]
  /\ buffer' = [buffer EXCEPT ![p] = @ \cup {<<seq[p] - 1, "token">>}]
  /\ UNCHANGED <<storeVars, pc, found, seq, status, grounded, cost, cancelled, readVars,
                 faults>>

\* A delta, when no cancel was seen.
EmitToken(p) ==
  /\ pc[p] = "generate"
  /\ ~cancelled[p]
  /\ cost[p] = 0
  /\ text[p] < MaxText
  /\ text' = [text EXCEPT ![p] = @ + 1]
  /\ Emit(p, "token")
  /\ UNCHANGED <<storeVars, pc, found, status, grounded, cost, cancelled, readVars, faults>>

\* GenerationUsage with a cost: exactly one, the last item.
TakeUsage(p) ==
  /\ pc[p] = "generate"
  /\ ~cancelled[p]
  /\ cost[p] = 0
  /\ cost' = [cost EXCEPT ![p] = 1]
  /\ UNCHANGED <<storeVars, buffer, pc, found, seq, text, status, grounded, cancelled,
                 readVars, faults>>

\* "nothing worth persisting", or a reply to save.
AfterGeneration(p, outcome) ==
  IF text'[p] = 0 /\ outcome \in {"cancelled", "error"} THEN "usage" ELSE "save"

\* The loop sees the cancel at its next item, or at the generator's end.
StopCancelled(p) ==
  /\ pc[p] = "generate"
  /\ cancelled[p]
  /\ status' = [status EXCEPT ![p] = "cancelled"]
  /\ UNCHANGED text
  /\ Goto(p, AfterGeneration(p, "cancelled"))
  /\ UNCHANGED <<storeVars, buffer, found, seq, grounded, cost, cancelled, readVars, faults>>

\* The generator is exhausted after its usage (which a free model prices at 0).
Exhausted(p) ==
  /\ pc[p] = "generate"
  /\ ~cancelled[p]
  /\ Move(p, "save")

\* An exception inside the try: the provider's, or of the append of a delta,
\* before its ZADD or after it (in EXPIRE), when seq has not been advanced.
GenerationFails(p) ==
  /\ pc[p] = "generate"
  /\ \/ UNCHANGED <<text, buffer>>
     \/ /\ ~cancelled[p]
        /\ cost[p] = 0
        /\ text[p] < MaxText
        /\ text' = [text EXCEPT ![p] = @ + 1]
        /\ \/ UNCHANGED buffer
           \/ buffer' = [buffer EXCEPT ![p] = @ \cup {<<seq[p], "token">>}]
  /\ status' = [status EXCEPT ![p] = IF text'[p] > 0 THEN "partial" ELSE "error"]
  /\ Goto(p, "error")
  /\ UNCHANGED <<storeVars, found, seq, grounded, cost, cancelled, readVars, faults>>

-----------------------------------------------------------------------------
(* Settling.                                                               *)

EmitError(p) ==
  /\ pc[p] = "error"
  /\ Emit(p, "failure")
  /\ UNCHANGED text
  /\ Goto(p, AfterGeneration(p, status[p]))
  /\ UNCHANGED <<storeVars, found, status, grounded, cost, cancelled, readVars, faults>>

\* assistant_status: a row is complete, cancelled or partial.
SavedAs(s) == IF s = "error" THEN "partial" ELSE s

Save(p) ==
  /\ log' = Append(log, Row(p, "assistant", text[p], SavedAs(status[p]), grounded[p]))
  /\ Goto(p, IF grounded[p] THEN "cite" ELSE "usage")
  /\ UNCHANGED <<settled, billed, buffer, found, seq, genVars, readVars, faults>>

\* Mutant: a cancelled reply is never worth persisting.
SaveUnlessCancelled(p) ==
  /\ pc[p] = "save"
  /\ \/ status[p] # "cancelled" /\ Save(p)
     \/ status[p] = "cancelled" /\ Move(p, "usage")

\* persist_with_citations, and persist of the canned refusal: one transaction.
SaveReply(p) == pc[p] = "save" /\ Save(p)

\* Mutant: settlement is left out.
CiteUnbilled(p) == pc[p] = "cite" /\ EmitThen(p, "citation", "usage")

EmitCitation(p) ==
  /\ pc[p] = "cite"
  /\ EmitThen(p, "citation", IF cost[p] > 0 THEN "record" ELSE "usage")

\* usage_ledger.record: the ledger row and the budget in one transaction.
RecordUsage(p) ==
  /\ pc[p] = "record"
  /\ settled' = settled + cost[p]
  /\ billed' = billed \cup {p}
  /\ Goto(p, "usage")
  /\ UNCHANGED <<log, buffer, found, seq, genVars, readVars, faults>>

EmitUsage(p) == pc[p] = "usage" /\ EmitThen(p, "usage", "done")

\* Mutant: a failed generation ends with its error event.
EmitDoneUnlessError(p) ==
  /\ pc[p] = "done"
  /\ \/ status[p] # "error" /\ EmitThen(p, status[p], "ended")
     \/ status[p] = "error" /\ Move(p, "ended")

EmitDone(p) == pc[p] = "done" /\ EmitThen(p, status[p], "ended")

\* An exception outside the try leaves execute(), or the process dies: the task
\* is over, whatever it has written stays.
Raise(p) ==
  /\ faults < MaxFaults
  /\ pc[p] \notin Over
  /\ faults' = faults + 1
  /\ Goto(p, "raised")
  /\ UNCHANGED <<storeVars, buffer, found, seq, genVars, readVars>>

-----------------------------------------------------------------------------
(* The client and its response.                                            *)

Read(p, state) ==
  /\ reading' = [reading EXCEPT ![p] = state]
  /\ UNCHANGED <<storeVars, buffer, taskVars, batch, cursor, got, faults>>

\* The route has its first event and returns follow_buffer(after_seq = -1).
Follow(p) ==
  /\ p \in Streaming
  /\ reading[p] = "waiting"
  /\ seq[p] > 0
  /\ Read(p, "following")

\* The events read_after would return, and its order: by score, and members of
\* one score by their JSON, where "error" sorts before "token".
Ahead(p) == {e \in buffer[p] : e[1] > cursor[p]}
Before(e, f) == e[1] < f[1] \/ (e[1] = f[1] /\ e[2] # "token" /\ f[2] = "token")

\* follow_buffer: one frame, of the events read last or, when those are sent, of
\* a new read; a done event ends the response.
Frame(p) ==
  LET pending == IF batch[p] = {} THEN Ahead(p) ELSE batch[p] IN
  \E e \in pending :
    /\ reading[p] = "following"
    /\ \A f \in pending : ~Before(f, e)
    /\ cursor' = [cursor EXCEPT ![p] = e[1]]
    /\ got' = [got EXCEPT ![p] = @ \cup {e}]
    /\ \/ /\ e[2] \in Statuses
          /\ reading' = [reading EXCEPT ![p] = "closed"]
          /\ batch' = [batch EXCEPT ![p] = {}]
       \/ /\ e[2] \notin Statuses
          /\ batch' = [batch EXCEPT ![p] = pending \ {e}]
          /\ UNCHANGED reading
    /\ UNCHANGED <<storeVars, buffer, taskVars, faults>>

\* The connection breaks, between two frames of a batch or after it; a client
\* that knows the id will come back.
Disconnect(p) ==
  /\ reading[p] = "following"
  /\ reading' = [reading EXCEPT ![p] = "away"]
  /\ batch' = [batch EXCEPT ![p] = {}]
  /\ UNCHANGED <<storeVars, buffer, taskVars, cursor, got, faults>>

\* Last-Event-ID: get_generation_status looks for the buffer first.
Resume(p) ==
  /\ reading[p] = "away"
  /\ cursor[p] >= 0
  /\ Read(p, IF buffer[p] = {} THEN "gone" ELSE "checked")

ResumeFollow(p) ==
  /\ reading[p] = "checked"
  /\ Read(p, "following")

\* The key expires 300 s after the last append: the task is over, and a
\* follower, which polls every 50 ms, is not connected.  (The buffer of a
\* request that nobody follows may as well stay.)
Expire(p) ==
  /\ p \in Streaming
  /\ pc[p] \in Over
  /\ reading[p] # "following"
  /\ buffer[p] # {}
  /\ buffer' = [buffer EXCEPT ![p] = {}]
  /\ UNCHANGED <<storeVars, taskVars, readVars, faults>>

-----------------------------------------------------------------------------
TaskNext(p) == \/ Lookup(p)
               \/ FindReply(p)
               \/ Replay(p)
               \/ Admit(p)
               \/ PersistUser(p)
               \/ EmitMeta(p)
               \/ EmitRefusal(p)
               \/ Subscribe(p)
               \/ EmitToken(p)
               \/ TakeUsage(p)
               \/ StopCancelled(p)
               \/ Exhausted(p)
               \/ GenerationFails(p)
               \/ EmitError(p)
               \/ SaveReply(p)
               \/ EmitCitation(p)
               \/ RecordUsage(p)
               \/ EmitUsage(p)
               \/ EmitDone(p)

ServerReads(p) == Follow(p) \/ Frame(p) \/ ResumeFollow(p)

Next == \E p \in Posts : \/ TaskNext(p)
                         \/ Raise(p)
                         \/ Cancel(p)
                         \/ ServerReads(p)
                         \/ Disconnect(p)
                         \/ Resume(p)
                         \/ Expire(p)

Spec == Init /\ [][Next]_vars

-----------------------------------------------------------------------------
Replies(p) == {k \in DOMAIN log : log[k].role = "assistant" /\ log[k].post = p}

\* The deltas the client of p got.
Deltas(p) == Cardinality({e \in got[p] : e[2] = "token"})

\* The log has what a client of p that got n deltas was told.
Kept(p, n) ==
  \/ /\ Replies(p) = {}
     /\ n = 0
     /\ status[p] \in {"cancelled", "error"}
  \/ \E k \in Replies(p) :
       /\ log[k].status = SavedAs(status[p])
       /\ log[k].size >= n
       /\ status[p] = "complete" => log[k].size = n

(***************************************************************************)
(* Retries of a turn, however they overlap, store its user message once:   *)
(* what find_by_client_message_id did not see, the unique index does.      *)
(***************************************************************************)
TurnStoredOnce ==
  \A j, k \in DOMAIN log :
    log[j].role = "user" /\ log[k].role = "user"
      /\ Turn[log[j].post] = Turn[log[k].post] => j = k

\* An append that fails in EXPIRE has stored its delta without counting it: the
\* error event that follows has the same seq.
Twins(e, f) == e[1] = f[1] /\ {e[2], f[2]} = {"token", "failure"}

(***************************************************************************)
(* Last-Event-ID resume: whatever breaks and reconnects, between any two   *)
(* frames, a client has every buffered event up to its cursor.  The        *)
(* exception, a delta and an error event of one seq, costs it one of the   *)
(* two and never both.                                                     *)
(***************************************************************************)
NothingSkipped ==
  \A p \in Posts : \A e \in buffer[p] :
    e[1] <= cursor[p] => e \in got[p] \/ \E f \in got[p] : Twins(e, f)

(***************************************************************************)
(* 04-backend-api.md, section 4.4: "seq is strictly monotonic per          *)
(* generation", and a resumed stream is "at-least-once delivery".  Every   *)
(* buffered event up to the client's cursor reaches the client.            *)
(***************************************************************************)
AtLeastOnceDelivery ==
  \A p \in Posts : \A e \in buffer[p] :
    e[1] <= cursor[p] => e \in got[p] \cup batch[p]

(***************************************************************************)
(* What the client saw is what is stored: after the done event of a turn   *)
(* that was generated, the log has a reply with the announced status and   *)
(* every delta the client got (exactly those if it is complete), or no     *)
(* delta was sent and nothing is stored.                                   *)
(***************************************************************************)
SeenIsStored ==
  \A p \in Posts :
    reading[p] = "closed" /\ pc[p] = "ended" => Kept(p, Deltas(p))

(***************************************************************************)
(* Settlement: the budget counts each stored reply with a cost at most     *)
(* once, nothing else, and has counted it when the client reads done.      *)
(***************************************************************************)
SettledBeforeDone ==
  /\ settled = Cardinality(billed)
  /\ \A p \in billed : Replies(p) # {} /\ cost[p] = 1
  /\ \A p \in Posts : pc[p] = "ended" /\ cost[p] = 1 /\ Replies(p) # {} => p \in billed

-----------------------------------------------------------------------------
(* The inductive strengthenings of the invariants above.                   *)

\* TypeOK: the replay is counted by the same seq.
ReplayInv ==
  \A p \in Posts :
    /\ pc[p] \in {"lookup", "reply"} => seq[p] = 0
    /\ pc[p] = "replay" => seq[p] < Len(ReplayEvents(p))

\* The delta of p whose append failed, until its seq is taken again.
Uncounted(p, e) == e[1] = seq[p] /\ e[2] = "token" /\ pc[p] \in {"error", "raised"}

\* NothingSkipped: the counter is ahead of the buffer and of the client, but for
\* an uncounted delta, and a batch is what is left of a read from the cursor on.
SeqPart(p) ==
  /\ \A e \in buffer[p] : e[1] < seq[p] \/ Uncounted(p, e)
  /\ \A e, f \in buffer[p] : e[1] = f[1] => e = f \/ Twins(e, f)
  /\ cursor[p] < seq[p] \/ \E e \in got[p] : e[1] = cursor[p] /\ Uncounted(p, e)
  /\ batch[p] \subseteq buffer[p]
  /\ batch[p] # {} => reading[p] = "following"
  /\ \A e \in batch[p] :
       \/ cursor[p] < e[1]
       \/ cursor[p] = e[1] /\ \E f \in got[p] : Twins(e, f)
  /\ \A e \in batch[p] : \A f \in buffer[p] :
       cursor[p] < f[1] /\ f[1] < e[1] => f \in batch[p]

SeqInv == NothingSkipped /\ \A p \in Posts : SeqPart(p)

\* The steps before the reply is stored, and those before it has a cost.
Costless == {"lookup", "reply", "replay", "admit", "persist", "meta", "refuse",
             "subscribe", "replayed", "refused"}
Unsaved == Costless \cup {"generate", "error", "save"}

\* SettledBeforeDone: where the reply, its cost and its bill come to exist.
SettlePart(p) ==
  /\ pc[p] \in Unsaved => Replies(p) = {}
  /\ pc[p] \in Costless => cost[p] = 0
  /\ pc[p] \in {"subscribe", "generate", "error"} => grounded[p]
  /\ pc[p] = "save" /\ cost[p] = 1 => grounded[p]
  /\ pc[p] \in {"cite", "record"} => Replies(p) # {}
  /\ pc[p] = "record" => cost[p] = 1
  /\ p \in billed => pc[p] \in {"usage", "done", "ended", "raised"}
  /\ pc[p] \in {"usage", "done"} /\ cost[p] = 1 /\ Replies(p) # {} => p \in billed

SettleInv ==
  /\ SettledBeforeDone
  /\ IsFiniteSet(billed)
  /\ \A p \in Posts : SettlePart(p)

\* SeenIsStored: the client has nothing but buffered events, and the done event
\* is the last of them.
ShownPart(p) ==
  /\ got[p] \subseteq buffer[p] \/ (buffer[p] = {} /\ pc[p] \in Over)
  /\ \A e, f \in buffer[p] : e[2] \in Statuses => f[1] <= e[1]
  /\ (\E e \in buffer[p] : e[2] \in Statuses) => pc[p] \in {"ended", "replayed"}
  /\ reading[p] = "closed" => pc[p] \in {"ended", "replayed"}

\* The buffered deltas of p.
Tokens(p) == {e \in buffer[p] : e[2] = "token"}

\* SeenIsStored: the text accumulated is what was sent, or one delta more, and
\* so is the reply that is stored.
KeptPart(p) ==
  LET sent == Cardinality(Tokens(p)) IN
  /\ IsFiniteSet(Tokens(p))
  /\ pc[p] \in {"lookup", "reply", "admit", "persist", "meta", "refuse", "subscribe",
               "generate"} => text[p] = sent /\ status[p] = "complete"
  /\ pc[p] \in {"lookup", "reply", "admit", "persist", "meta", "refuse"} => sent = 0
  /\ (\E e \in buffer[p] : e[2] = "failure") => status[p] # "complete"
  /\ pc[p] = "error" =>
       sent <= text[p] /\ status[p] = IF text[p] > 0 THEN "partial" ELSE "error"
  /\ pc[p] = "save" => sent <= text[p] /\ status[p] # "error"
  /\ pc[p] = "save" /\ status[p] = "complete" => sent = text[p]
  /\ pc[p] \in {"cite", "record", "usage", "done"} => Kept(p, sent)
  /\ pc[p] = "ended" /\ buffer[p] # {} => Kept(p, sent)

SeenInv ==
  /\ SeenIsStored
  /\ \A p \in Posts : ShownPart(p) /\ KeptPart(p)

-----------------------------------------------------------------------------
(* Liveness.  The event loop runs every task and every poll, and a         *)
(* generator ends or raises; nothing obliges a client to do anything.      *)

Fairness == \A p \in Posts : WF_vars(TaskNext(p)) /\ WF_vars(ServerReads(p))

FairSpec == Spec /\ Fairness

(***************************************************************************)
(* A response ends: a client that keeps following gets its done event,     *)
(* unless the task died (nothing writes done for it then) or the buffer    *)
(* expired between the status check and the first read of a resume.        *)
(***************************************************************************)
FollowersEnd ==
  \A p \in Streaming :
    (reading[p] = "following") ~> \/ reading[p] # "following"
                                  \/ pc[p] = "raised"
                                  \/ buffer[p] = {}
=============================================================================
