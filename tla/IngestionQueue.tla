--------------------------- MODULE IngestionQueue ---------------------------
(***************************************************************************)
(* RedisIngestionQueue (adapters/redis/ingestion_queue.py) and the         *)
(* consumer loop that drives it (app/ingestion/consume_queue.py), one      *)
(* action per Redis command: every await in claim_next, enqueue, _schedule *)
(* and fail is a point where another process may run, or where this one    *)
(* may die.                                                                *)
(*                                                                         *)
(* The stream ingest:{t} is never trimmed, so an entry is its position in  *)
(* it; the consumer group's cursor, its pending-entries list (PEL) and its *)
(* delivery counters are Redis' own state (external, modelled from use).   *)
(***************************************************************************)
EXTENDS Naturals, Sequences, FiniteSets

CONSTANTS Tenants,        \* workspaces: one stream each
          Workers,        \* worker processes running run_ingestion_consumer
          Enqueuers,      \* processes relaying outbox rows through enqueue()
          MaxDeliveries,  \* max_deliveries
          MaxEntries,     \* bound: XADDs per stream
          MaxCrashes,     \* bound: interrupted operations per behaviour
          NoTenant        \* a process is working for no tenant

ASSUME ConstantsAssumption ==
          /\ MaxDeliveries \in Nat \ {0}
          /\ MaxEntries \in Nat
          /\ MaxCrashes \in Nat
          /\ NoTenant \notin Tenants
          /\ Workers \cap Enqueuers = {}

Procs == Workers \cup Enqueuers
Entries == 1 .. MaxEntries

VARIABLES
  rotation,  \* LIST ingest:rotation
  members,   \* SET ingest:rotation:members
  group,     \* the streams whose consumer group exists
  added,     \* entries XADDed to each stream
  cursor,    \* the group's last-delivered entry of each stream
  pel,       \* delivered and not acknowledged, per stream
  times,     \* times_delivered of each entry
  dlq,       \* entries copied to ingest:dlq, per tenant
  handled,   \* history: entries some handler call returned from
  pc,        \* the Redis command each process issues next
  tenant,    \* the tenant a process is working for
  entry,     \* the entry a worker looked up or claimed (0: none)
  count,     \* delivery_count of a worker's QueuedMessage
  crashes

streamVars == <<group, added, cursor, pel, times>>
outcomeVars == <<dlq, handled>>
localVars == <<tenant, entry, count>>
vars == <<rotation, members, streamVars, outcomeVars, pc, localVars, crashes>>

(***************************************************************************)
(* Both roles share "idle" and the two steps of _schedule.                 *)
(***************************************************************************)
EnqueuerSteps == {"idle", "xadd", "sadd", "rpush"}
WorkerSteps == {"idle", "srem", "xpending", "xclaim", "xreadgroup", "sadd",
                "rpush", "handle", "ack", "dlqadd", "dlqack", "down"}

\* A worker at these steps has a QueuedMessage.
Holding == {"sadd", "rpush", "handle", "ack", "dlqadd", "dlqack"}

RedisTypeOK ==
  /\ rotation \in Seq(Tenants)
  /\ members \subseteq Tenants
  /\ group \subseteq Tenants
  /\ added \in [Tenants -> 0 .. MaxEntries]
  /\ cursor \in [Tenants -> 0 .. MaxEntries]
  /\ pel \in [Tenants -> SUBSET Entries]
  /\ times \in [Tenants -> [Entries -> Nat]]
  /\ dlq \in [Tenants -> SUBSET Entries]
  /\ handled \in [Tenants -> SUBSET Entries]

ProcTypeOK ==
  /\ pc \in [Procs -> EnqueuerSteps \cup WorkerSteps]
  /\ \A e \in Enqueuers : pc[e] \in EnqueuerSteps
  /\ \A w \in Workers : pc[w] \in WorkerSteps
  /\ tenant \in [Procs -> Tenants \cup {NoTenant}]
  /\ \A p \in Procs : tenant[p] = NoTenant <=> pc[p] \in {"idle", "down"}

ClaimTypeOK ==
  /\ entry \in [Workers -> Entries \cup {0}]
  /\ count \in [Workers -> Nat]
  /\ \A w \in Workers : pc[w] \in Holding \cup {"xclaim"} => entry[w] \in Entries
  /\ crashes \in 0 .. MaxCrashes

TypeOK == RedisTypeOK /\ ProcTypeOK /\ ClaimTypeOK

Init ==
  /\ rotation = <<>>
  /\ members = {}
  /\ group = {}
  /\ added = [t \in Tenants |-> 0]
  /\ cursor = [t \in Tenants |-> 0]
  /\ pel = [t \in Tenants |-> {}]
  /\ times = [t \in Tenants |-> [i \in Entries |-> 0]]
  /\ dlq = [t \in Tenants |-> {}]
  /\ handled = [t \in Tenants |-> {}]
  /\ pc = [p \in Procs |-> "idle"]
  /\ tenant = [p \in Procs |-> NoTenant]
  /\ entry = [w \in Workers |-> 0]
  /\ count = [w \in Workers |-> 0]
  /\ crashes = 0

Goto(p, step) == pc' = [pc EXCEPT ![p] = step]

\* The process forgets the call it was making.
Forget(p, step) ==
  /\ Goto(p, step)
  /\ tenant' = [tenant EXCEPT ![p] = NoTenant]
  /\ entry' = [w \in Workers |-> IF w = p THEN 0 ELSE entry[w]]
  /\ count' = [w \in Workers |-> IF w = p THEN 0 ELSE count[w]]

-----------------------------------------------------------------------------
(* enqueue(): _ensure_group, XADD, then _schedule.                         *)

\* The calls that have passed _ensure_group and will XADD to t.
Adding(t) == {e \in Enqueuers : pc[e] = "xadd" /\ tenant[e] = t}

\* Mutant: the group is never created.
EnsureGroupSkipped(e, t) ==
  /\ pc[e] = "idle"
  /\ added[t] + Cardinality(Adding(t)) < MaxEntries
  /\ Goto(e, "xadd")
  /\ tenant' = [tenant EXCEPT ![e] = t]
  /\ UNCHANGED <<rotation, members, streamVars, outcomeVars, entry, count, crashes>>

EnsureGroup(e, t) ==
  /\ pc[e] = "idle"
  /\ added[t] + Cardinality(Adding(t)) < MaxEntries
  /\ group' = group \cup {t}
  /\ Goto(e, "xadd")
  /\ tenant' = [tenant EXCEPT ![e] = t]
  /\ UNCHANGED <<rotation, members, added, cursor, pel, times, outcomeVars,
                 entry, count, crashes>>

XAdd(e) ==
  /\ pc[e] = "xadd"
  /\ added[tenant[e]] < MaxEntries
  /\ added' = [added EXCEPT ![tenant[e]] = @ + 1]
  /\ Goto(e, "sadd")
  /\ UNCHANGED <<rotation, members, group, cursor, pel, times, outcomeVars,
                 localVars, crashes>>

-----------------------------------------------------------------------------
(* _schedule(): SADD, and RPUSH only if the tenant was not yet a member.   *)
(* When it returns, enqueue() is over and claim_next() has its message.    *)

ScheduleReturns(p) ==
  IF p \in Enqueuers THEN Forget(p, "idle")
                     ELSE Goto(p, "handle") /\ UNCHANGED localVars

\* Mutant: the result of SADD is ignored.
SAddUnchecked(p) ==
  /\ pc[p] = "sadd"
  /\ members' = members \cup {tenant[p]}
  /\ Goto(p, "rpush")
  /\ UNCHANGED <<rotation, streamVars, outcomeVars, localVars, crashes>>

ScheduleSAdd(p) ==
  /\ pc[p] = "sadd"
  /\ members' = members \cup {tenant[p]}
  /\ IF tenant[p] \in members THEN ScheduleReturns(p)
                              ELSE Goto(p, "rpush") /\ UNCHANGED localVars
  /\ UNCHANGED <<rotation, streamVars, outcomeVars, crashes>>

\* Mutant: LPUSH, so that the last come is the first served.
LPush(p) ==
  /\ pc[p] = "rpush"
  /\ rotation' = <<tenant[p]>> \o rotation
  /\ ScheduleReturns(p)
  /\ UNCHANGED <<members, streamVars, outcomeVars, crashes>>

\* Mutant: a member of the SET that never reaches the LIST.
RPushForgotten(p) ==
  /\ pc[p] = "rpush"
  /\ ScheduleReturns(p)
  /\ UNCHANGED <<rotation, members, streamVars, outcomeVars, crashes>>

ScheduleRPush(p) ==
  /\ pc[p] = "rpush"
  /\ rotation' = Append(rotation, tenant[p])
  /\ ScheduleReturns(p)
  /\ UNCHANGED <<members, streamVars, outcomeVars, crashes>>

-----------------------------------------------------------------------------
(* claim_next(), one command at a time.                                    *)

\* An empty rotation: claim_next returns None and the consumer sleeps.
IdlePoll(w) ==
  /\ pc[w] = "idle"
  /\ rotation = <<>>
  /\ UNCHANGED vars

LPop(w) ==
  /\ pc[w] = "idle"
  /\ rotation # <<>>
  /\ tenant' = [tenant EXCEPT ![w] = Head(rotation)]
  /\ rotation' = Tail(rotation)
  /\ Goto(w, "srem")
  /\ UNCHANGED <<members, streamVars, outcomeVars, entry, count, crashes>>

\* Mutant: the popped tenant stays in the SET.
SRemForgotten(w) ==
  /\ pc[w] = "srem"
  /\ Goto(w, "xpending")
  /\ UNCHANGED <<rotation, members, streamVars, outcomeVars, localVars, crashes>>

SRem(w) ==
  /\ pc[w] = "srem"
  /\ members' = members \ {tenant[w]}
  /\ Goto(w, "xpending")
  /\ UNCHANGED <<rotation, streamVars, outcomeVars, localVars, crashes>>

\* _claim_pending_retry, first command: the oldest pending entry, whoever holds it.
XPending(w) ==
  LET t == tenant[w] IN
  /\ pc[w] = "xpending"
  /\ \/ /\ pel[t] = {}
        /\ Goto(w, "xreadgroup")
        /\ UNCHANGED <<entry, count>>
     \/ \E i \in pel[t] :
          /\ \A j \in pel[t] : i <= j
          /\ entry' = [entry EXCEPT ![w] = i]
          /\ count' = [count EXCEPT ![w] = times[t][i] + 1]
          /\ Goto(w, "xclaim")
  /\ UNCHANGED <<rotation, members, streamVars, outcomeVars, tenant, crashes>>

\* Mutant: a retried tenant is not put back into the rotation.
XClaimUnscheduled(w) ==
  LET t == tenant[w]
      i == entry[w] IN
  /\ pc[w] = "xclaim"
  /\ i \in pel[t]
  /\ times' = [times EXCEPT ![t][i] = @ + 1]
  /\ Goto(w, "handle")
  /\ UNCHANGED <<rotation, members, group, added, cursor, pel, outcomeVars,
                 localVars, crashes>>

\* _claim_pending_retry, second command, with min_idle_time=0: an entry another
\* worker is processing is taken too; one that was acknowledged meanwhile is not.
XClaim(w) ==
  LET t == tenant[w]
      i == entry[w] IN
  /\ pc[w] = "xclaim"
  /\ \/ /\ i \in pel[t]
        /\ times' = [times EXCEPT ![t][i] = @ + 1]
        /\ Goto(w, "sadd")
        /\ UNCHANGED <<entry, count>>
     \/ /\ i \notin pel[t]
        /\ entry' = [entry EXCEPT ![w] = 0]
        /\ count' = [count EXCEPT ![w] = 0]
        /\ Goto(w, "xreadgroup")
        /\ UNCHANGED times
  /\ UNCHANGED <<rotation, members, group, added, cursor, pel, outcomeVars,
                 tenant, crashes>>

\* A fresh entry is delivered, and the worker goes on at step.
ReadFresh(w, step) ==
  LET t == tenant[w]
      i == cursor[t] + 1 IN
  /\ cursor' = [cursor EXCEPT ![t] = i]
  /\ pel' = [pel EXCEPT ![t] = @ \cup {i}]
  /\ times' = [times EXCEPT ![t][i] = 1]
  /\ entry' = [entry EXCEPT ![w] = i]
  /\ count' = [count EXCEPT ![w] = 1]
  /\ Goto(w, step)
  /\ UNCHANGED <<rotation, members, group, added, outcomeVars, tenant, crashes>>

NoneFresh(w) ==
  /\ Forget(w, "idle")
  /\ UNCHANGED <<rotation, members, streamVars, outcomeVars, crashes>>

\* Mutant: the tenant of a fresh entry is not put back into the rotation.
XReadGroupUnscheduled(w) ==
  /\ pc[w] = "xreadgroup"
  /\ \/ cursor[tenant[w]] < added[tenant[w]] /\ ReadFresh(w, "handle")
     \/ cursor[tenant[w]] = added[tenant[w]] /\ NoneFresh(w)

\* Mutant: one entry past the end of the stream.
XReadGroupPastEnd(w) ==
  /\ pc[w] = "xreadgroup"
  /\ \/ cursor[tenant[w]] <= added[tenant[w]] /\ ReadFresh(w, "sadd")
     \/ cursor[tenant[w]] > added[tenant[w]] /\ NoneFresh(w)

\* _claim_fresh: the next entry the group has not read; with none, claim_next
\* moves on to the next tenant and leaves this one out of the rotation.
XReadGroup(w) ==
  /\ pc[w] = "xreadgroup"
  /\ \/ cursor[tenant[w]] < added[tenant[w]] /\ ReadFresh(w, "sadd")
     \/ cursor[tenant[w]] = added[tenant[w]] /\ NoneFresh(w)

-----------------------------------------------------------------------------
(* run_ingestion_consumer: the handler, then ack() or fail().              *)

HandlerReturns(w) ==
  /\ pc[w] = "handle"
  /\ handled' = [handled EXCEPT ![tenant[w]] = @ \cup {entry[w]}]
  /\ Goto(w, "ack")
  /\ UNCHANGED <<rotation, members, streamVars, dlq, localVars, crashes>>

\* Mutant: the last failure is acknowledged and not dead-lettered.
LastFailureAcked(w) ==
  /\ pc[w] = "handle"
  /\ \/ count[w] >= MaxDeliveries /\ Goto(w, "ack") /\ UNCHANGED localVars
     \/ count[w] < MaxDeliveries /\ Forget(w, "idle")
  /\ UNCHANGED <<rotation, members, streamVars, outcomeVars, crashes>>

\* Mutant: dead-lettered one delivery too early.
OneDeliveryShort(w) ==
  /\ pc[w] = "handle"
  /\ \/ count[w] + 1 >= MaxDeliveries /\ Goto(w, "dlqadd") /\ UNCHANGED localVars
     \/ count[w] + 1 < MaxDeliveries /\ Forget(w, "idle")
  /\ UNCHANGED <<rotation, members, streamVars, outcomeVars, crashes>>

\* fail(): the last delivery goes to the dead letters, any other stays in the PEL.
HandlerRaises(w) ==
  /\ pc[w] = "handle"
  /\ \/ count[w] >= MaxDeliveries /\ Goto(w, "dlqadd") /\ UNCHANGED localVars
     \/ count[w] < MaxDeliveries /\ Forget(w, "idle")
  /\ UNCHANGED <<rotation, members, streamVars, outcomeVars, crashes>>

DlqAdd(w) ==
  /\ pc[w] = "dlqadd"
  /\ dlq' = [dlq EXCEPT ![tenant[w]] = @ \cup {entry[w]}]
  /\ Goto(w, "dlqack")
  /\ UNCHANGED <<rotation, members, streamVars, handled, localVars, crashes>>

\* XACK, at the end of ack() and of a fail() that dead-lettered.
XAck(w) ==
  /\ pc[w] \in {"ack", "dlqack"}
  /\ pel' = [pel EXCEPT ![tenant[w]] = @ \ {entry[w]}]
  /\ Forget(w, "idle")
  /\ UNCHANGED <<rotation, members, group, added, cursor, times, outcomeVars,
                 crashes>>

-----------------------------------------------------------------------------
(* A process is killed, its task is cancelled after the 30 s of grace, or  *)
(* a Redis command raises: the call in progress ends where it is.  The     *)
(* relay calls enqueue() again at a later poll; a consumer task that died  *)
(* comes back with its process.                                            *)

EnqueueInterrupted(e) ==
  /\ pc[e] # "idle"
  /\ crashes < MaxCrashes
  /\ crashes' = crashes + 1
  /\ Forget(e, "idle")
  /\ UNCHANGED <<rotation, members, streamVars, outcomeVars>>

WorkerDies(w) ==
  /\ pc[w] # "down"
  /\ crashes < MaxCrashes
  /\ crashes' = crashes + 1
  /\ Forget(w, "down")
  /\ UNCHANGED <<rotation, members, streamVars, outcomeVars>>

WorkerRestarts(w) ==
  /\ pc[w] = "down"
  /\ Forget(w, "idle")
  /\ UNCHANGED <<rotation, members, streamVars, outcomeVars, crashes>>

-----------------------------------------------------------------------------
EnqueuerNext(e) == \/ \E t \in Tenants : EnsureGroup(e, t)
                   \/ XAdd(e)
                   \/ ScheduleSAdd(e)
                   \/ ScheduleRPush(e)

WorkerNext(w) == \/ IdlePoll(w)
                 \/ LPop(w)
                 \/ SRem(w)
                 \/ XPending(w)
                 \/ XClaim(w)
                 \/ XReadGroup(w)
                 \/ ScheduleSAdd(w)
                 \/ ScheduleRPush(w)
                 \/ HandlerReturns(w)
                 \/ HandlerRaises(w)
                 \/ DlqAdd(w)
                 \/ XAck(w)

Failure == \/ \E e \in Enqueuers : EnqueueInterrupted(e)
           \/ \E w \in Workers : WorkerDies(w) \/ WorkerRestarts(w)

\* No process is ever interrupted.
Next == \/ \E e \in Enqueuers : EnqueuerNext(e)
        \/ \E w \in Workers : WorkerNext(w)

FaultyNext == Next \/ Failure

Spec == Init /\ [][Next]_vars
FaultySpec == Init /\ [][FaultyNext]_vars
-----------------------------------------------------------------------------
(* The rotation.  "Token": the one thing that can bring t back into the    *)
(* LIST, or is in it.                                                      *)

Waiting(t) == \E k \in DOMAIN rotation : rotation[k] = t

\* p popped t and has not yet SREMed it, or SADDed t and has not yet RPUSHed it.
InHand(p, t) == tenant[p] = t /\ pc[p] \in {"srem", "rpush"}

Token(t) == Waiting(t) \/ \E p \in Procs : InHand(p, t)

(***************************************************************************)
(* _schedule's SADD guard keeps one token per tenant: the LIST never holds *)
(* a tenant twice, a tenant in the LIST is in nobody's hand, it is in one  *)
(* hand at most, and every token is covered by the SET.  This survives any *)
(* crash.                                                                  *)
(***************************************************************************)
OneToken ==
  /\ \A k, l \in DOMAIN rotation : rotation[k] = rotation[l] => k = l
  /\ \A t \in Tenants, p \in Procs : InHand(p, t) => ~Waiting(t)
  /\ \A t \in Tenants, p, q \in Procs : InHand(p, t) /\ InHand(q, t) => p = q
  /\ \A t \in Tenants : Token(t) => t \in members

(***************************************************************************)
(* While no call is interrupted, a member of the SET has its token: SADD   *)
(* returning 0 really means that the tenant is scheduled.                  *)
(***************************************************************************)
MembersHaveTokens == \A t \in members : Token(t)

\* p is between its claim or its enqueue of t and the end of its _schedule.
Attending(p, t) ==
  /\ tenant[p] = t
  /\ pc[p] \in {"srem", "xpending", "xclaim", "xreadgroup", "sadd", "rpush"}

Attended(t) == Waiting(t) \/ \E p \in Procs : Attending(p, t)

(***************************************************************************)
(* No lost wake-up for new work: whatever two enqueuers and several        *)
(* workers interleave, a stream with an unread entry is in the rotation or *)
(* some process is about to read it or to put it there ("don't reschedule  *)
(* them; the next enqueue() will").                                        *)
(***************************************************************************)
UnreadEntriesAttended == \A t \in Tenants : cursor[t] < added[t] => Attended(t)

\* Worker w has claimed entry i of t and not yet finished with it.
Holds(w, t, i) == tenant[w] = t /\ entry[w] = i /\ pc[w] \in Holding

(***************************************************************************)
(* fail(): "Left un-acked in the PEL - claim_next()'s pending-retry check  *)
(* picks it back up (and claim_next() already rescheduled this tenant into *)
(* rotation on the way in, so no re-add needed here)".  An entry nobody    *)
(* holds and that is still pending belongs to a tenant that is attended.   *)
(***************************************************************************)
FailedEntriesAttended ==
  \A t \in Tenants : \A i \in pel[t] :
    Attended(t) \/ \E w \in Workers : Holds(w, t, i)

(***************************************************************************)
(* XPENDING, XCLAIM and XREADGROUP never meet a stream without its group   *)
(* (NOGROUP would end the consumer task): _ensure_group precedes the       *)
(* scheduling of the tenant in every interleaving.                         *)
(***************************************************************************)
GroupBeforeRead ==
  \A w \in Workers : pc[w] \in {"xpending", "xclaim", "xreadgroup"}
                       => tenant[w] \in group

(***************************************************************************)
(* At-least-once, crashes included: an entry the group has delivered       *)
(* leaves the PEL only after some handler call returned or after its copy  *)
(* reached the dead-letter stream.                                         *)
(***************************************************************************)
SettledNotLost ==
  \A t \in Tenants : \A i \in 1 .. cursor[t] :
    i \notin pel[t] => i \in handled[t] \cup dlq[t]

(***************************************************************************)
(* An entry is dead-lettered only after Redis counted max_deliveries       *)
(* deliveries of it, although the count in the message was read one        *)
(* command before the claim.                                               *)
(***************************************************************************)
DeadLettersExhausted ==
  \A t \in Tenants : \A i \in dlq[t] : times[t][i] >= MaxDeliveries

(***************************************************************************)
(* The inductive strengthening of the two properties above: the cursor     *)
(* separates what Redis has counted from what it has not, and the message  *)
(* a worker works with agrees with the stream although both move on.       *)
(***************************************************************************)
StreamInv ==
  \A t \in Tenants :
    /\ cursor[t] <= added[t]
    /\ \A i \in Entries : i > cursor[t] =>
         times[t][i] = 0 /\ i \notin pel[t] /\ i \notin dlq[t]

MessageInv(w, t, i) ==
  /\ pc[w] \in Holding \cup {"xclaim"} => i <= cursor[t] /\ count[w] >= 1
  /\ pc[w] = "xclaim" => count[w] <= times[t][i] + 1
  /\ pc[w] \in Holding => count[w] <= times[t][i]
  /\ pc[w] \in {"dlqadd", "dlqack"} => count[w] >= MaxDeliveries
  /\ pc[w] = "ack" => i \in handled[t]
  /\ pc[w] = "dlqack" => i \in dlq[t]

DeliveryInv == /\ StreamInv
               /\ \A w \in Workers : MessageInv(w, tenant[w], entry[w])
               /\ SettledNotLost
               /\ DeadLettersExhausted

Before(t, u) ==
  \E k, l \in DOMAIN rotation : k < l /\ rotation[k] = t /\ rotation[l] = u

(***************************************************************************)
(* Round robin (NFR-S-2): a tenant that waits is never overtaken by one    *)
(* that joins, or rejoins, the rotation after it.                          *)
(***************************************************************************)
NeverOvertaken ==
  [][\A t, u \in Tenants : Waiting(t) /\ Waiting(t)' /\ ~Before(u, t)
                             => ~Before(u, t)']_vars

(***************************************************************************)
(* "the next enqueue() will [reschedule the tenant]": when enqueue()       *)
(* returns, its tenant has a token.                                        *)
(***************************************************************************)
EnqueueSchedules ==
  [][\A e \in Enqueuers, t \in Tenants :
       pc[e] \in {"sadd", "rpush"} /\ tenant[e] = t /\ pc'[e] = "idle"
         /\ crashes' = crashes => Token(t)']_vars

-----------------------------------------------------------------------------
(* Liveness.  asyncio runs every task, Redis answers and a handler call    *)
(* returns or raises; nothing obliges a caller to enqueue.                 *)

EnqueueProceeds(e) == XAdd(e) \/ ScheduleSAdd(e) \/ ScheduleRPush(e)

Fairness == /\ \A w \in Workers : WF_vars(WorkerNext(w))
            /\ \A e \in Enqueuers : WF_vars(EnqueueProceeds(e))

FairSpec == Spec /\ Fairness

(***************************************************************************)
(* With retries, every entry is in the end acknowledged: handled, or       *)
(* dead-lettered after max_deliveries.                                     *)
(***************************************************************************)
EveryEntrySettles ==
  \A t \in Tenants, i \in Entries :
    (added[t] >= i) ~> (cursor[t] >= i /\ i \notin pel[t])

-----------------------------------------------------------------------------
(* The queue implements its port's promise.                                *)

Items == Tenants \X Entries
NoItem == <<NoTenant, 0>>

\* An entry is owed while it waits in the stream or is pending.
Owed == {it \in Items : /\ it[2] <= added[it[1]]
                        /\ it[2] > cursor[it[1]] \/ it[2] \in pel[it[1]]}
Deliveries == [it \in Items |-> times[it[1]][it[2]]]
Held == [w \in Workers |-> IF pc[w] \in Holding THEN <<tenant[w], entry[w]>>
                                                 ELSE NoItem]
Seen == [w \in Workers |-> IF pc[w] \in Holding THEN count[w] ELSE 0]
Done == {it \in Items : it[2] \in handled[it[1]]}
Dead == {it \in Items : it[2] \in dlq[it[1]]}

Port == INSTANCE AtLeastOnceQueue WITH
  Items <- Items, Consumers <- Workers, NoItem <- NoItem,
  owed <- Owed, deliveries <- Deliveries, held <- Held, seen <- Seen,
  done <- Done, dead <- Dead

(***************************************************************************)
(* Every behaviour of the Redis queue, crashes included, is one of the     *)
(* at-least-once queue that IngestionQueuePort describes.                  *)
(***************************************************************************)
ImplementsPort == Port!QSpec
=============================================================================
