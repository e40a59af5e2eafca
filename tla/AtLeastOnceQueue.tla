-------------------------- MODULE AtLeastOnceQueue --------------------------
(***************************************************************************)
(* What IngestionQueuePort promises (ports/ingestion_queue.py), without    *)
(* streams, rotation or consumer groups: an entry that was enqueued stays  *)
(* owed until a consumer that finished it, or that has dead-lettered it    *)
(* after MaxDeliveries deliveries, settles it.  Several consumers may hold *)
(* the same entry, and a consumer may vanish while it holds one.           *)
(***************************************************************************)
EXTENDS Naturals

CONSTANTS Items,          \* the entries that may be enqueued
          Consumers,      \* the processes that claim entries
          MaxDeliveries,  \* max_deliveries of RedisIngestionQueue
          NoItem          \* a consumer holds nothing

VARIABLES owed,       \* enqueued and not yet settled
          deliveries, \* how often each entry was handed to a consumer
          held,       \* the entry each consumer holds
          seen,       \* the delivery_count the consumer was told
          done,       \* entries some handler finished
          dead        \* entries in the dead-letter stream

queueVars == <<owed, deliveries, held, seen, done, dead>>

QInit == /\ owed = {}
         /\ deliveries = [i \in Items |-> 0]
         /\ held = [c \in Consumers |-> NoItem]
         /\ seen = [c \in Consumers |-> 0]
         /\ done = {}
         /\ dead = {}

\* enqueue(): the entry becomes owed.
Enqueue(i) == /\ deliveries[i] = 0
              /\ owed' = owed \cup {i}
              /\ UNCHANGED <<deliveries, held, seen, done, dead>>

\* claim_next(): any entry that is owed, held by another consumer or not.  The
\* count told to the consumer may lag behind the true one.
Deliver(c, i, n) == /\ held[c] = NoItem
                    /\ i \in owed
                    /\ n <= deliveries[i] + 1
                    /\ deliveries' = [deliveries EXCEPT ![i] = @ + 1]
                    /\ held' = [held EXCEPT ![c] = i]
                    /\ seen' = [seen EXCEPT ![c] = n]
                    /\ UNCHANGED <<owed, done, dead>>

\* The handler returned.
Finish(c) == /\ held[c] # NoItem
             /\ done' = done \cup {held[c]}
             /\ UNCHANGED <<owed, deliveries, held, seen, dead>>

\* fail() on the last allowed delivery: the entry is copied to the dead letters.
DeadLetter(c) == /\ held[c] # NoItem
                 /\ seen[c] >= MaxDeliveries
                 /\ dead' = dead \cup {held[c]}
                 /\ UNCHANGED <<owed, deliveries, held, seen, done>>

\* ack(): only for an entry that was finished or dead-lettered.
Settle(c) == /\ held[c] \in done \cup dead
             /\ owed' = owed \ {held[c]}
             /\ held' = [held EXCEPT ![c] = NoItem]
             /\ seen' = [seen EXCEPT ![c] = 0]
             /\ UNCHANGED <<deliveries, done, dead>>

\* fail() with deliveries left, or the consumer died: the entry stays owed.
LetGo(c) == /\ held[c] # NoItem
            /\ held' = [held EXCEPT ![c] = NoItem]
            /\ seen' = [seen EXCEPT ![c] = 0]
            /\ UNCHANGED <<owed, deliveries, done, dead>>

QNext == \/ \E i \in Items : Enqueue(i)
         \/ \E c \in Consumers, i \in Items :
               \E n \in 1 .. (deliveries[i] + 1) : Deliver(c, i, n)
         \/ \E c \in Consumers : \/ Finish(c)
                                 \/ DeadLetter(c)
                                 \/ Settle(c)
                                 \/ LetGo(c)

QSpec == QInit /\ [][QNext]_queueVars
=============================================================================
