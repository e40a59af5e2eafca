----------------------- MODULE DocumentPipeline_proofs -----------------------
(***************************************************************************)
(* Theorems about DocumentPipeline, for any documents, relays, workers and *)
(* bounds, crashes included.                                               *)
(***************************************************************************)
EXTENDS DocumentPipeline, TLAPS

\* Each step of a process, by name: the case split of every proof below.
LEMMA StepCases ==
  ASSUME Next
  PROVE  \/ \E d \in Docs : Confirm(d) \/ Delete(d)
         \/ \E r \in Relays : \/ Fetch(r)
                              \/ \E d \in Docs : Enqueue(r, d) \/ EnqueueFails(r, d)
                              \/ MarkDispatched(r) \/ RecordAttemptFailure(r)
                              \/ RelayCrashes(r)
         \/ \E w \in Workers : \/ \E m \in Messages : Claim(w, m)
                               \/ MarkScanning(w) \/ Scan(w) \/ MarkParsing(w)
                               \/ MarkChunking(w) \/ MarkFailed(w)
                               \/ InsertChunks(w) \/ ListChunks(w)
                               \/ FindCached(w) \/ EmbedMissing(w)
                               \/ AttachEmbeddings(w) \/ HandlerReturns(w)
                               \/ Raise(w) \/ Ack(w) \/ WorkerCrashes(w)
  BY DEF Next, ApiNext, RelayNext, HandlerNext

\* A worker that is not idle holds a message, and so works on a document.
LEMMA HeldDoc ==
  ASSUME QueueTypeOK, WorkTypeOK, NEW w \in Workers, stage[w] # "idle"
  PROVE  held[w] \in Messages /\ held[w] # NoMessage /\ DocOf(w) \in Docs
  BY DEF QueueTypeOK, WorkTypeOK, DocOf, Messages

\* The chunks of a document are chunks, and tell which document they are of.
LEMMA ChunkFacts ==
  ASSUME NEW d \in Docs
  PROVE  /\ ChunkRows(d) \subseteq Chunks
         /\ \A c \in ChunkRows(d) : c[1] = d
  BY DEF ChunkRows, Chunks

\* The type invariant holds initially and every step, crashes included, keeps it.
LEMMA TypeInductive ==
  /\ Init => TypeOK
  /\ TypeOK /\ [Next]_vars => TypeOK'
<1>1. Init => TypeOK
  BY PipelineAssumption
     DEF Init, TypeOK, OutboxTypeOK, DocTypeOK, RelayTypeOK, QueueTypeOK, WorkTypeOK,
         Queue!QInit, Messages, Statuses, Stages, HandlerStages, FailStages
<1>2. ASSUME TypeOK, [Next]_vars PROVE TypeOK'
  <2> USE PipelineAssumption, <1>2
      DEF TypeOK, outboxVars, docVars, relayVars, queueVars, workVars
  <2>1. ASSUME NEW d \in Docs, Confirm(d) PROVE TypeOK'
    <3>1. OutboxTypeOK'
      <4>1. rows' = rows \/ rows' = Append(rows, d) BY <2>1 DEF Confirm, CreateIfAbsent
      <4>2. rows' \in Seq(Docs) BY <4>1 DEF OutboxTypeOK
      <4> QED BY <2>1, <4>2 DEF OutboxTypeOK, Confirm, CreateIfAbsent
    <3>2. DocTypeOK' BY <2>1 DEF DocTypeOK, Confirm, CreateIfAbsent, Statuses
    <3>3. RelayTypeOK' BY <2>1 DEF RelayTypeOK, Confirm, CreateIfAbsent
    <3>4. QueueTypeOK' BY <2>1 DEF QueueTypeOK, Confirm, CreateIfAbsent
    <3>5. WorkTypeOK' BY <2>1 DEF WorkTypeOK, Confirm, CreateIfAbsent
    <3> QED BY <3>1, <3>2, <3>3, <3>4, <3>5
  <2>2. ASSUME NEW d \in Docs, Delete(d) PROVE TypeOK'
    <3>1. OutboxTypeOK' BY <2>2 DEF OutboxTypeOK, Delete, DeleteRows
    <3>2. DocTypeOK' BY <2>2 DEF DocTypeOK, Delete, DeleteRows, Events
    <3>3. RelayTypeOK' BY <2>2 DEF RelayTypeOK, Delete, DeleteRows
    <3>4. QueueTypeOK' BY <2>2 DEF QueueTypeOK, Delete, DeleteRows
    <3>5. WorkTypeOK' BY <2>2 DEF WorkTypeOK, Delete, DeleteRows
    <3> QED BY <3>1, <3>2, <3>3, <3>4, <3>5
  <2>3. ASSUME NEW r \in Relays, Fetch(r) PROVE TypeOK'
    <3>1. OutboxTypeOK' BY <2>3 DEF OutboxTypeOK, Fetch
    <3>2. DocTypeOK' BY <2>3 DEF DocTypeOK, Fetch
    <3>3. RelayTypeOK' BY <2>3 DEF RelayTypeOK, Fetch, Pending
    <3>4. QueueTypeOK' BY <2>3 DEF QueueTypeOK, Fetch
    <3>5. WorkTypeOK' BY <2>3 DEF WorkTypeOK, Fetch
    <3> QED BY <3>1, <3>2, <3>3, <3>4, <3>5
  <2>4. ASSUME NEW r \in Relays, NEW d \in Docs, Enqueue(r, d) PROVE TypeOK'
    <3>1. OutboxTypeOK' BY <2>4 DEF OutboxTypeOK, Enqueue, Relay, Publish, Queue!Enqueue
    <3>2. DocTypeOK' BY <2>4 DEF DocTypeOK, Enqueue, Relay, Publish, Queue!Enqueue
    <3>3. RelayTypeOK' BY <2>4 DEF RelayTypeOK, Enqueue, Relay, Publish, Queue!Enqueue
    <3>4. QueueTypeOK' BY <2>4 DEF QueueTypeOK, Enqueue, Relay, Publish, Queue!Enqueue, Messages, RelayTypeOK
    <3>5. WorkTypeOK' BY <2>4 DEF WorkTypeOK, Enqueue, Relay, Publish, Queue!Enqueue
    <3> QED BY <3>1, <3>2, <3>3, <3>4, <3>5
  <2>5. ASSUME NEW r \in Relays, NEW d \in Docs, EnqueueFails(r, d) PROVE TypeOK'
    <3>1. OutboxTypeOK' BY <2>5 DEF OutboxTypeOK, EnqueueFails, Relay, Publish, Queue!Enqueue
    <3>2. DocTypeOK' BY <2>5 DEF DocTypeOK, EnqueueFails, Relay, Publish, Queue!Enqueue
    <3>3. RelayTypeOK' BY <2>5 DEF RelayTypeOK, EnqueueFails, Relay, Publish, Queue!Enqueue
    <3>4. QueueTypeOK' BY <2>5 DEF QueueTypeOK, EnqueueFails, Relay, Publish, Queue!Enqueue, Messages, RelayTypeOK
    <3>5. WorkTypeOK' BY <2>5 DEF WorkTypeOK, EnqueueFails, Relay, Publish, Queue!Enqueue
    <3> QED BY <3>1, <3>2, <3>3, <3>4, <3>5
  <2>6. ASSUME NEW r \in Relays, MarkDispatched(r) PROVE TypeOK'
    <3>1. OutboxTypeOK' BY <2>6 DEF OutboxTypeOK, MarkDispatched, NextRow, RelayTypeOK
    <3>2. DocTypeOK' BY <2>6 DEF DocTypeOK, MarkDispatched, NextRow
    <3>3. RelayTypeOK' BY <2>6 DEF RelayTypeOK, MarkDispatched, NextRow
    <3>4. QueueTypeOK' BY <2>6 DEF QueueTypeOK, MarkDispatched, NextRow
    <3>5. WorkTypeOK' BY <2>6 DEF WorkTypeOK, MarkDispatched, NextRow
    <3> QED BY <3>1, <3>2, <3>3, <3>4, <3>5
  <2>7. ASSUME NEW r \in Relays, RecordAttemptFailure(r) PROVE TypeOK'
    <3>1. OutboxTypeOK' BY <2>7 DEF OutboxTypeOK, RecordAttemptFailure, NextRow, RelayTypeOK
    <3>2. DocTypeOK' BY <2>7 DEF DocTypeOK, RecordAttemptFailure, NextRow
    <3>3. RelayTypeOK' BY <2>7 DEF RelayTypeOK, RecordAttemptFailure, NextRow
    <3>4. QueueTypeOK' BY <2>7 DEF QueueTypeOK, RecordAttemptFailure, NextRow
    <3>5. WorkTypeOK' BY <2>7 DEF WorkTypeOK, RecordAttemptFailure, NextRow
    <3> QED BY <3>1, <3>2, <3>3, <3>4, <3>5
  <2>8. ASSUME NEW r \in Relays, RelayCrashes(r) PROVE TypeOK'
    <3>1. OutboxTypeOK' BY <2>8 DEF OutboxTypeOK, RelayCrashes
    <3>2. DocTypeOK' BY <2>8 DEF DocTypeOK, RelayCrashes
    <3>3. RelayTypeOK' BY <2>8 DEF RelayTypeOK, RelayCrashes
    <3>4. QueueTypeOK' BY <2>8 DEF QueueTypeOK, RelayCrashes
    <3>5. WorkTypeOK' BY <2>8 DEF WorkTypeOK, RelayCrashes
    <3> QED BY <3>1, <3>2, <3>3, <3>4, <3>5
  <2>9. ASSUME NEW w \in Workers, NEW m \in Messages, Claim(w, m) PROVE TypeOK'
    <3>1. OutboxTypeOK' BY <2>9 DEF OutboxTypeOK, Claim, Goto, Queue!Deliver
    <3>2. DocTypeOK' BY <2>9 DEF DocTypeOK, Claim, Goto, Queue!Deliver
    <3>3. RelayTypeOK' BY <2>9 DEF RelayTypeOK, Claim, Goto, Queue!Deliver
    <3>4. QueueTypeOK' BY <2>9 DEF QueueTypeOK, Claim, Goto, Queue!Deliver
    <3>5. WorkTypeOK' BY <2>9 DEF WorkTypeOK, Claim, Goto, Queue!Deliver, QueueTypeOK, Messages, Stages, HandlerStages, FailStages
    <3> QED BY <3>1, <3>2, <3>3, <3>4, <3>5
  <2>10. ASSUME NEW w \in Workers, MarkScanning(w) PROVE TypeOK'
    <3>1. DocOf(w) \in Docs
      BY <2>10, HeldDoc DEF MarkScanning, Advance, HandlerStages, FailStages
    <3>2. OutboxTypeOK' BY <2>10 DEF OutboxTypeOK, MarkScanning, Advance, Goto
    <3>3. DocTypeOK' BY <2>10, <3>1 DEF DocTypeOK, MarkScanning, Advance, SetStatus, Goto, Statuses
    <3>4. RelayTypeOK' BY <2>10 DEF RelayTypeOK, MarkScanning, Advance, Goto
    <3>5. QueueTypeOK' BY <2>10 DEF QueueTypeOK, MarkScanning, Advance, Goto
    <3>6. WorkTypeOK' BY <2>10 DEF WorkTypeOK, MarkScanning, Advance, Goto, QueueTypeOK, Stages, HandlerStages, FailStages
    <3> QED BY <3>2, <3>3, <3>4, <3>5, <3>6
  <2>11. ASSUME NEW w \in Workers, Scan(w) PROVE TypeOK'
    <3>1. DocOf(w) \in Docs
      BY <2>11, HeldDoc DEF Scan, Advance, HandlerStages, FailStages
    <3>2. OutboxTypeOK' BY <2>11 DEF OutboxTypeOK, Scan, Goto
    <3>3. DocTypeOK' BY <2>11, <3>1 DEF DocTypeOK, Scan, Goto
    <3>4. RelayTypeOK' BY <2>11 DEF RelayTypeOK, Scan, Goto
    <3>5. QueueTypeOK' BY <2>11 DEF QueueTypeOK, Scan, Goto
    <3>6. WorkTypeOK' BY <2>11 DEF WorkTypeOK, Scan, Goto, QueueTypeOK, Stages, HandlerStages, FailStages
    <3> QED BY <3>2, <3>3, <3>4, <3>5, <3>6
  <2>12. ASSUME NEW w \in Workers, MarkParsing(w) PROVE TypeOK'
    <3>1. DocOf(w) \in Docs
      BY <2>12, HeldDoc DEF MarkParsing, Advance, HandlerStages, FailStages
    <3>2. OutboxTypeOK' BY <2>12 DEF OutboxTypeOK, MarkParsing, Advance, Goto
    <3>3. DocTypeOK' BY <2>12, <3>1 DEF DocTypeOK, MarkParsing, Advance, SetStatus, Goto, Statuses
    <3>4. RelayTypeOK' BY <2>12 DEF RelayTypeOK, MarkParsing, Advance, Goto
    <3>5. QueueTypeOK' BY <2>12 DEF QueueTypeOK, MarkParsing, Advance, Goto
    <3>6. WorkTypeOK' BY <2>12 DEF WorkTypeOK, MarkParsing, Advance, Goto, QueueTypeOK, Stages, HandlerStages, FailStages
    <3> QED BY <3>2, <3>3, <3>4, <3>5, <3>6
  <2>13. ASSUME NEW w \in Workers, MarkChunking(w) PROVE TypeOK'
    <3>1. DocOf(w) \in Docs
      BY <2>13, HeldDoc DEF MarkChunking, Advance, HandlerStages, FailStages
    <3>2. OutboxTypeOK' BY <2>13 DEF OutboxTypeOK, MarkChunking, Advance, Goto
    <3>3. DocTypeOK' BY <2>13, <3>1 DEF DocTypeOK, MarkChunking, Advance, SetStatus, Goto, Statuses
    <3>4. RelayTypeOK' BY <2>13 DEF RelayTypeOK, MarkChunking, Advance, Goto
    <3>5. QueueTypeOK' BY <2>13 DEF QueueTypeOK, MarkChunking, Advance, Goto
    <3>6. WorkTypeOK' BY <2>13 DEF WorkTypeOK, MarkChunking, Advance, Goto, QueueTypeOK, Stages, HandlerStages, FailStages
    <3> QED BY <3>2, <3>3, <3>4, <3>5, <3>6
  <2>14. ASSUME NEW w \in Workers, MarkFailed(w) PROVE TypeOK'
    <3>1. DocOf(w) \in Docs
      BY <2>14, HeldDoc DEF MarkFailed, Advance, HandlerStages, FailStages
    <3>2. OutboxTypeOK' BY <2>14 DEF OutboxTypeOK, MarkFailed, Goto
    <3>3. DocTypeOK' BY <2>14, <3>1 DEF DocTypeOK, MarkFailed, Goto, Statuses, Events, FailStages
    <3>4. RelayTypeOK' BY <2>14 DEF RelayTypeOK, MarkFailed, Goto
    <3>5. QueueTypeOK' BY <2>14 DEF QueueTypeOK, MarkFailed, Goto
    <3>6. WorkTypeOK' BY <2>14 DEF WorkTypeOK, MarkFailed, Goto, QueueTypeOK, Stages, HandlerStages, FailStages
    <3> QED BY <3>2, <3>3, <3>4, <3>5, <3>6
  <2>15. ASSUME NEW w \in Workers, InsertChunks(w) PROVE TypeOK'
    <3>1. DocOf(w) \in Docs
      BY <2>15, HeldDoc DEF InsertChunks, Advance, HandlerStages, FailStages
    <3>2. OutboxTypeOK' BY <2>15 DEF OutboxTypeOK, InsertChunks, Goto
    <3>3. DocTypeOK' BY <2>15, <3>1, ChunkFacts DEF DocTypeOK, InsertChunks, SetStatus, Goto, Statuses
    <3>4. RelayTypeOK' BY <2>15 DEF RelayTypeOK, InsertChunks, Goto
    <3>5. QueueTypeOK' BY <2>15 DEF QueueTypeOK, InsertChunks, Goto
    <3>6. WorkTypeOK' BY <2>15 DEF WorkTypeOK, InsertChunks, Goto, QueueTypeOK, Stages, HandlerStages, FailStages
    <3> QED BY <3>2, <3>3, <3>4, <3>5, <3>6
  <2>16. ASSUME NEW w \in Workers, ListChunks(w) PROVE TypeOK'
    <3>1. DocOf(w) \in Docs
      BY <2>16, HeldDoc DEF ListChunks, Advance, HandlerStages, FailStages
    <3>2. OutboxTypeOK' BY <2>16 DEF OutboxTypeOK, ListChunks, Goto
    <3>3. DocTypeOK' BY <2>16, <3>1 DEF DocTypeOK, ListChunks, Goto
    <3>4. RelayTypeOK' BY <2>16 DEF RelayTypeOK, ListChunks, Goto
    <3>5. QueueTypeOK' BY <2>16 DEF QueueTypeOK, ListChunks, Goto
    <3>6. WorkTypeOK' BY <2>16 DEF WorkTypeOK, ListChunks, Goto, DocTypeOK, QueueTypeOK, Stages, HandlerStages, FailStages
    <3> QED BY <3>2, <3>3, <3>4, <3>5, <3>6
  <2>17. ASSUME NEW w \in Workers, FindCached(w) PROVE TypeOK'
    <3>1. DocOf(w) \in Docs
      BY <2>17, HeldDoc DEF FindCached, Advance, HandlerStages, FailStages
    <3>2. OutboxTypeOK' BY <2>17 DEF OutboxTypeOK, FindCached, Goto
    <3>3. DocTypeOK' BY <2>17, <3>1 DEF DocTypeOK, FindCached, Goto
    <3>4. RelayTypeOK' BY <2>17 DEF RelayTypeOK, FindCached, Goto
    <3>5. QueueTypeOK' BY <2>17 DEF QueueTypeOK, FindCached, Goto
    <3>6. WorkTypeOK' BY <2>17 DEF WorkTypeOK, FindCached, Goto, QueueTypeOK, Stages, HandlerStages, FailStages
    <3> QED BY <3>2, <3>3, <3>4, <3>5, <3>6
  <2>18. ASSUME NEW w \in Workers, EmbedMissing(w) PROVE TypeOK'
    <3>1. DocOf(w) \in Docs
      BY <2>18, HeldDoc DEF EmbedMissing, Advance, HandlerStages, FailStages
    <3>2. OutboxTypeOK' BY <2>18 DEF OutboxTypeOK, EmbedMissing, Goto
    <3>3. DocTypeOK' BY <2>18, <3>1 DEF DocTypeOK, EmbedMissing, Goto
    <3>4. RelayTypeOK' BY <2>18 DEF RelayTypeOK, EmbedMissing, Goto
    <3>5. QueueTypeOK' BY <2>18 DEF QueueTypeOK, EmbedMissing, Goto
    <3>6. WorkTypeOK' BY <2>18 DEF WorkTypeOK, EmbedMissing, Goto, QueueTypeOK, Stages, HandlerStages, FailStages
    <3> QED BY <3>2, <3>3, <3>4, <3>5, <3>6
  <2>19. ASSUME NEW w \in Workers, AttachEmbeddings(w) PROVE TypeOK'
    <3>1. DocOf(w) \in Docs
      BY <2>19, HeldDoc DEF AttachEmbeddings, Attach, Advance, HandlerStages, FailStages
    <3>2. OutboxTypeOK' BY <2>19 DEF OutboxTypeOK, AttachEmbeddings, Attach, Goto
    <3>3. DocTypeOK' BY <2>19, <3>1 DEF DocTypeOK, AttachEmbeddings, Attach, SetStatus, Goto, Statuses, Events
    <3>4. RelayTypeOK' BY <2>19 DEF RelayTypeOK, AttachEmbeddings, Attach, Goto
    <3>5. QueueTypeOK' BY <2>19 DEF QueueTypeOK, AttachEmbeddings, Attach, Goto
    <3>6. WorkTypeOK' BY <2>19 DEF WorkTypeOK, AttachEmbeddings, Attach, Goto, QueueTypeOK, Stages, HandlerStages, FailStages
    <3> QED BY <3>2, <3>3, <3>4, <3>5, <3>6
  <2>20. ASSUME NEW w \in Workers, HandlerReturns(w) PROVE TypeOK'
    <3>1. OutboxTypeOK' BY <2>20 DEF OutboxTypeOK, HandlerReturns, Rest, Goto, Queue!Finish
    <3>2. DocTypeOK' BY <2>20 DEF DocTypeOK, HandlerReturns, Rest, Goto, Queue!Finish
    <3>3. RelayTypeOK' BY <2>20 DEF RelayTypeOK, HandlerReturns, Rest, Goto, Queue!Finish
    <3>4. QueueTypeOK' BY <2>20 DEF QueueTypeOK, HandlerReturns, Rest, Goto, Queue!Finish
    <3>5. WorkTypeOK' BY <2>20 DEF WorkTypeOK, HandlerReturns, Rest, Goto, Queue!Finish, QueueTypeOK, Stages, HandlerStages, FailStages
    <3> QED BY <3>1, <3>2, <3>3, <3>4, <3>5
  <2>21. ASSUME NEW w \in Workers, Raise(w) PROVE TypeOK'
    <3>1. OutboxTypeOK' BY <2>21 DEF OutboxTypeOK, Raise, Rest, Goto, Queue!DeadLetter, Queue!LetGo
    <3>2. DocTypeOK' BY <2>21 DEF DocTypeOK, Raise, Rest, Goto, Queue!DeadLetter, Queue!LetGo
    <3>3. RelayTypeOK' BY <2>21 DEF RelayTypeOK, Raise, Rest, Goto, Queue!DeadLetter, Queue!LetGo
    <3>4. QueueTypeOK'
      <4>1. CASE Queue!DeadLetter(w)
        BY <4>1, HeldDoc, <2>21 DEF QueueTypeOK, Queue!DeadLetter, Raise, HandlerStages, FailStages
      <4>2. CASE Queue!LetGo(w)
        BY <4>2 DEF QueueTypeOK, Queue!LetGo
      <4> QED BY <2>21, <4>1, <4>2 DEF Raise
    <3>5. WorkTypeOK' BY <2>21 DEF WorkTypeOK, Raise, Rest, Goto, Queue!DeadLetter, Queue!LetGo, QueueTypeOK, Stages, HandlerStages, FailStages
    <3> QED BY <3>1, <3>2, <3>3, <3>4, <3>5
  <2>22. ASSUME NEW w \in Workers, Ack(w) PROVE TypeOK'
    <3>1. OutboxTypeOK' BY <2>22 DEF OutboxTypeOK, Ack, Rest, Goto, Queue!Settle
    <3>2. DocTypeOK' BY <2>22 DEF DocTypeOK, Ack, Rest, Goto, Queue!Settle
    <3>3. RelayTypeOK' BY <2>22 DEF RelayTypeOK, Ack, Rest, Goto, Queue!Settle
    <3>4. QueueTypeOK' BY <2>22 DEF QueueTypeOK, Ack, Rest, Goto, Queue!Settle
    <3>5. WorkTypeOK' BY <2>22 DEF WorkTypeOK, Ack, Rest, Goto, Queue!Settle, QueueTypeOK, Stages, HandlerStages, FailStages
    <3> QED BY <3>1, <3>2, <3>3, <3>4, <3>5
  <2>23. ASSUME NEW w \in Workers, WorkerCrashes(w) PROVE TypeOK'
    <3>1. OutboxTypeOK' BY <2>23 DEF OutboxTypeOK, WorkerCrashes, Rest, Goto, Queue!LetGo
    <3>2. DocTypeOK' BY <2>23 DEF DocTypeOK, WorkerCrashes, Rest, Goto, Queue!LetGo
    <3>3. RelayTypeOK' BY <2>23 DEF RelayTypeOK, WorkerCrashes, Rest, Goto, Queue!LetGo
    <3>4. QueueTypeOK' BY <2>23 DEF QueueTypeOK, WorkerCrashes, Rest, Goto, Queue!LetGo
    <3>5. WorkTypeOK' BY <2>23 DEF WorkTypeOK, WorkerCrashes, Rest, Goto, Queue!LetGo, QueueTypeOK, Stages, HandlerStages, FailStages
    <3> QED BY <3>1, <3>2, <3>3, <3>4, <3>5
  <2>24. CASE UNCHANGED vars
    BY <2>24 DEF vars, OutboxTypeOK, DocTypeOK, RelayTypeOK, QueueTypeOK, WorkTypeOK
  <2> QED BY StepCases, <2>1, <2>2, <2>3, <2>4, <2>5, <2>6, <2>7, <2>8, <2>9, <2>10, <2>11, <2>12, <2>13, <2>14, <2>15, <2>16, <2>17, <2>18, <2>19, <2>20, <2>21, <2>22, <2>23, <2>24
<1> QED BY <1>1, <1>2

(***************************************************************************)
(* Type correctness of the pipeline, crashes and redeliveries included.    *)
(***************************************************************************)
THEOREM PipelineTypeCorrect == Spec => []TypeOK
BY TypeInductive, PTL DEF Spec

-----------------------------------------------------------------------------
(* No upload is lost.                                                      *)

\* What only workers do, and leaves the queue alone.
WorkOn(w) == \/ MarkScanning(w) \/ Scan(w) \/ MarkParsing(w) \/ MarkChunking(w)
             \/ MarkFailed(w) \/ InsertChunks(w) \/ ListChunks(w)
             \/ FindCached(w) \/ EmbedMissing(w) \/ AttachEmbeddings(w)

\* A step of the handler changes at most the status of the document it is about.
LEMMA WorkFrame ==
  ASSUME TypeOK, NEW w \in Workers, WorkOn(w)
  PROVE  /\ UNCHANGED <<outboxVars, deleted, relayVars, queueVars, crashes>>
         /\ DocOf(w) \in Docs
         /\ stage[w] # "idle"
         /\ \A d \in Docs : d # DocOf(w) => status'[d] = status[d]
<1> USE DEF WorkOn
<1>1. UNCHANGED <<outboxVars, deleted, relayVars, queueVars, crashes>>
  BY DEF MarkScanning, Scan, MarkParsing, MarkChunking, MarkFailed, Advance, SetStatus,
         InsertChunks, ListChunks, FindCached, EmbedMissing, AttachEmbeddings, Attach, docVars
<1>2. stage[w] # "idle"
  BY DEF MarkScanning, Scan, MarkParsing, MarkChunking, MarkFailed, Advance, SetStatus, FailStages,
         InsertChunks, ListChunks, FindCached, EmbedMissing, AttachEmbeddings, Attach
<1>3. DocOf(w) \in Docs
  BY <1>2, HeldDoc DEF TypeOK
<1>4. \A d \in Docs : d # DocOf(w) => status'[d] = status[d]
  BY DEF MarkScanning, Scan, MarkParsing, MarkChunking, MarkFailed, Advance, SetStatus,
         InsertChunks, ListChunks, FindCached, EmbedMissing, AttachEmbeddings, Attach, docVars,
         TypeOK, DocTypeOK
<1> QED BY <1>1, <1>2, <1>3, <1>4

\* The queue never forgets a message: what leaves owed was handled or is dead.
LEMMA KnownGrows ==
  ASSUME TypeOK, [Next]_vars
  PROVE  Known \subseteq Known'
<1> USE DEF Known, queueVars
<1>1. ASSUME NEW w \in Workers, WorkOn(w) PROVE Known \subseteq Known'
  BY <1>1, WorkFrame
<1>2. ASSUME NEW w \in Workers, NEW m \in Messages, Claim(w, m) PROVE Known \subseteq Known'
  BY <1>2 DEF Claim, Queue!Deliver
<1>3. ASSUME NEW w \in Workers, HandlerReturns(w) PROVE Known \subseteq Known'
  BY <1>3 DEF HandlerReturns, Queue!Finish
<1>4. ASSUME NEW w \in Workers, Raise(w) PROVE Known \subseteq Known'
  BY <1>4 DEF Raise, Queue!DeadLetter, Queue!LetGo
<1>5. ASSUME NEW w \in Workers, Ack(w) PROVE Known \subseteq Known'
  BY <1>5 DEF Ack, Queue!Settle
<1>6. ASSUME NEW w \in Workers, WorkerCrashes(w) PROVE Known \subseteq Known'
  BY <1>6 DEF WorkerCrashes, Queue!LetGo
<1>7. ASSUME NEW r \in Relays, NEW d \in Docs, Enqueue(r, d) \/ EnqueueFails(r, d)
      PROVE  Known \subseteq Known'
  BY <1>7 DEF Enqueue, EnqueueFails, Publish, Queue!Enqueue
<1>8. ASSUME NEW r \in Relays, \/ Fetch(r) \/ MarkDispatched(r)
                               \/ RecordAttemptFailure(r) \/ RelayCrashes(r)
      PROVE  Known \subseteq Known'
  BY <1>8 DEF Fetch, MarkDispatched, RecordAttemptFailure, NextRow, RelayCrashes
<1>9. ASSUME NEW d \in Docs, Confirm(d) \/ Delete(d) PROVE Known \subseteq Known'
  BY <1>9 DEF Confirm, CreateIfAbsent, Delete, DeleteRows
<1>10. CASE UNCHANGED vars
  BY <1>10 DEF vars
<1> QED
  BY StepCases, <1>1, <1>2, <1>3, <1>4, <1>5, <1>6, <1>7, <1>8, <1>9, <1>10 DEF WorkOn

\* A worker's message is known to the queue.
HeldKnown == \A w \in Workers : held[w] # NoMessage => held[w] \in Known

\* It stays so: a message is claimed from owed, and Known only grows.
LEMMA HeldKnownInductive ==
  ASSUME TypeOK, HeldKnown, [Next]_vars
  PROVE  HeldKnown'
<1>1. Known \subseteq Known'
  BY KnownGrows
<1>2. ASSUME NEW v \in Workers, held'[v] # NoMessage, held'[v] = held[v]
      PROVE  held'[v] \in Known'
  BY <1>1, <1>2 DEF HeldKnown
<1>3. ASSUME NEW w \in Workers, NEW m \in Messages, Claim(w, m) PROVE HeldKnown'
  <2>1. held' = [held EXCEPT ![w] = m] /\ m \in Known
    BY <1>3 DEF Claim, Queue!Deliver, Known
  <2> QED BY <1>1, <1>2, <2>1 DEF HeldKnown, TypeOK, QueueTypeOK
<1>4. ASSUME NEW w \in Workers, \/ WorkOn(w) \/ HandlerReturns(w) \/ Raise(w)
                                \/ Ack(w) \/ WorkerCrashes(w)
      PROVE  HeldKnown'
  <2>1. held' = held \/ held' = [held EXCEPT ![w] = NoMessage]
    BY <1>4, WorkFrame DEF HandlerReturns, Raise, Ack, WorkerCrashes, Queue!Finish,
       Queue!DeadLetter, Queue!LetGo, Queue!Settle, queueVars
  <2> QED BY <1>2, <2>1 DEF HeldKnown, TypeOK, QueueTypeOK
<1>5. CASE held' = held
  BY <1>2, <1>5 DEF HeldKnown
<1>6. ASSUME NEW r \in Relays, NEW d \in Docs, Enqueue(r, d) \/ EnqueueFails(r, d)
      PROVE  held' = held
  BY <1>6 DEF Enqueue, EnqueueFails, Publish, Queue!Enqueue, queueVars
<1>7. ASSUME NEW r \in Relays, \/ Fetch(r) \/ MarkDispatched(r)
                               \/ RecordAttemptFailure(r) \/ RelayCrashes(r)
      PROVE  held' = held
  BY <1>7 DEF Fetch, MarkDispatched, RecordAttemptFailure, NextRow, RelayCrashes, queueVars
<1>8. ASSUME NEW d \in Docs, Confirm(d) \/ Delete(d) PROVE held' = held
  BY <1>8 DEF Confirm, CreateIfAbsent, Delete, DeleteRows, queueVars
<1>9. CASE UNCHANGED vars
  BY <1>9, <1>5 DEF vars, queueVars
<1> QED
  BY StepCases, <1>3, <1>4, <1>5, <1>6, <1>7, <1>8, <1>9 DEF WorkOn

\* A relay at "mark" has published its row.
MarkKnown == \A r \in Relays : relaying[r] = "mark" => Published(entry[r])

\* It stays so: only a successful enqueue() leads to "mark".
LEMMA MarkKnownInductive ==
  ASSUME TypeOK, MarkKnown, [Next]_vars
  PROVE  MarkKnown'
<1>1. \A d : Published(d) => Published(d)'
  BY KnownGrows DEF Published
<1>2. ASSUME NEW s \in Relays, relaying'[s] = "mark",
             relaying'[s] = relaying[s], entry'[s] = entry[s]
      PROVE  Published(entry[s])'
  <2>1. Published(entry[s]) BY <1>2 DEF MarkKnown
  <2>2. PICK m \in Known : m[1] = entry[s] BY <2>1 DEF Published
  <2>3. m \in Known' BY KnownGrows
  <2> QED BY <1>2, <2>2, <2>3 DEF Published
<1>3. CASE UNCHANGED <<relaying, entry>>
  BY <1>2, <1>3 DEF MarkKnown
<1>4. ASSUME NEW r \in Relays, NEW d \in Docs, Enqueue(r, d) PROVE MarkKnown'
  <2>1. <<d, copies[d] + 1>> \in Known' /\ entry'[r] = d
    BY <1>4 DEF Enqueue, Relay, Publish, Queue!Enqueue, Known, TypeOK, RelayTypeOK
  <2>2. Published(entry[r])'
    BY <2>1 DEF Published
  <2>3. \A s \in Relays : s # r => entry'[s] = entry[s] /\ relaying'[s] = relaying[s]
    BY <1>4 DEF Enqueue, Relay, TypeOK, RelayTypeOK
  <2> QED BY <1>2, <2>2, <2>3 DEF MarkKnown
<1>5. ASSUME NEW r \in Relays, \/ \E d \in Docs : EnqueueFails(r, d)
                               \/ MarkDispatched(r) \/ RecordAttemptFailure(r)
                               \/ RelayCrashes(r) \/ Fetch(r)
      PROVE  MarkKnown'
  <2>1. relaying'[r] # "mark"
    BY <1>5 DEF EnqueueFails, Relay, MarkDispatched, RecordAttemptFailure, NextRow,
       RelayCrashes, Fetch, TypeOK, RelayTypeOK
  <2>2. \A s \in Relays : s # r => entry'[s] = entry[s] /\ relaying'[s] = relaying[s]
    BY <1>5 DEF EnqueueFails, Relay, MarkDispatched, RecordAttemptFailure, NextRow,
       RelayCrashes, Fetch, TypeOK, RelayTypeOK
  <2> QED BY <1>2, <2>1, <2>2 DEF MarkKnown
<1>6. ASSUME NEW w \in Workers, \/ WorkOn(w) \/ HandlerReturns(w) \/ Raise(w)
                                \/ Ack(w) \/ WorkerCrashes(w)
                                \/ \E m \in Messages : Claim(w, m)
      PROVE  UNCHANGED <<relaying, entry>>
  BY <1>6, WorkFrame DEF HandlerReturns, Raise, Ack, WorkerCrashes, Claim, Rest, relayVars
<1>7. ASSUME NEW d \in Docs, Confirm(d) \/ Delete(d)
      PROVE  UNCHANGED <<relaying, entry>>
  BY <1>7 DEF Confirm, CreateIfAbsent, Delete, DeleteRows, relayVars
<1>8. CASE UNCHANGED vars
  BY <1>8, <1>3 DEF vars, relayVars
<1> QED
  BY StepCases, <1>3, <1>4, <1>5, <1>6, <1>7, <1>8 DEF WorkOn

\* A dispatched row has its message: only "mark" sets dispatched_at.
LEMMA DispatchedInductive ==
  ASSUME TypeOK, MarkKnown, \A d \in dispatched : Published(d), [Next]_vars
  PROVE  \A d \in dispatched' : Published(d)'
<1>1. \A d : Published(d) => Published(d)'
  BY KnownGrows DEF Published
<1>2. CASE dispatched' = dispatched
  BY <1>1, <1>2
<1>3. ASSUME NEW r \in Relays, MarkDispatched(r) PROVE \A d \in dispatched' : Published(d)'
  BY <1>1, <1>3 DEF MarkDispatched, MarkKnown
<1>4. ASSUME NEW r \in Relays, \/ \E d \in Docs : Enqueue(r, d) \/ EnqueueFails(r, d)
                               \/ RecordAttemptFailure(r) \/ RelayCrashes(r) \/ Fetch(r)
      PROVE  dispatched' = dispatched
  BY <1>4 DEF Enqueue, EnqueueFails, Relay, RecordAttemptFailure, RelayCrashes, Fetch,
     outboxVars
<1>5. ASSUME NEW w \in Workers, \/ WorkOn(w) \/ HandlerReturns(w) \/ Raise(w)
                                \/ Ack(w) \/ WorkerCrashes(w)
                                \/ \E m \in Messages : Claim(w, m)
      PROVE  dispatched' = dispatched
  BY <1>5, WorkFrame DEF HandlerReturns, Raise, Ack, WorkerCrashes, Claim, Rest, outboxVars
<1>6. ASSUME NEW d \in Docs, Confirm(d) \/ Delete(d) PROVE dispatched' = dispatched
  BY <1>6 DEF Confirm, CreateIfAbsent, Delete, DeleteRows, outboxVars
<1>7. CASE UNCHANGED vars
  BY <1>7, <1>2 DEF vars, outboxVars
<1> QED
  BY StepCases, <1>2, <1>3, <1>4, <1>5, <1>6, <1>7 DEF WorkOn

\* Either the row is there, undispatched, or the message is.
Tracked(d) == (\E k \in DOMAIN rows : rows[k] = d /\ d \notin dispatched) \/ Published(d)

\* A tracked document stays tracked: rows are never removed, and a row is marked
\* only once it is published.
LEMMA TrackedStays ==
  ASSUME TypeOK, UploadInv, [Next]_vars, NEW d \in Docs, Tracked(d)
  PROVE  Tracked(d)'
<1>1. Published(d) => Published(d)'
  BY KnownGrows DEF Published
<1>2. d \in dispatched' => Published(d)'
  BY DispatchedInductive DEF UploadInv, MarkKnown
<1>3. rows' = rows \/ \E e \in Docs : rows' = Append(rows, e)
  <2>1. ASSUME NEW e \in Docs, Confirm(e) \/ Delete(e)
        PROVE  rows' = rows \/ rows' = Append(rows, e)
    BY <2>1 DEF Confirm, CreateIfAbsent, Delete, DeleteRows, outboxVars
  <2>2. ASSUME NEW r \in Relays, \/ \E e \in Docs : Enqueue(r, e) \/ EnqueueFails(r, e)
                                 \/ MarkDispatched(r) \/ RecordAttemptFailure(r)
                                 \/ RelayCrashes(r) \/ Fetch(r)
        PROVE  rows' = rows
    BY <2>2 DEF Enqueue, EnqueueFails, Relay, MarkDispatched, RecordAttemptFailure,
       NextRow, RelayCrashes, Fetch, outboxVars
  <2>3. ASSUME NEW w \in Workers, \/ WorkOn(w) \/ HandlerReturns(w) \/ Raise(w)
                                  \/ Ack(w) \/ WorkerCrashes(w)
                                  \/ \E m \in Messages : Claim(w, m)
        PROVE  rows' = rows
    BY <2>3, WorkFrame DEF HandlerReturns, Raise, Ack, WorkerCrashes, Claim, Rest, outboxVars
  <2>4. CASE UNCHANGED vars
    BY <2>4 DEF vars, outboxVars
  <2> QED BY StepCases, <2>1, <2>2, <2>3, <2>4 DEF WorkOn
<1>4. ASSUME NEW k \in DOMAIN rows PROVE k \in DOMAIN rows' /\ rows'[k] = rows[k]
  BY <1>3, <1>4 DEF TypeOK, OutboxTypeOK
<1> QED BY <1>1, <1>2, <1>4 DEF Tracked

\* Every document with a row in documents is tracked.
LEMMA UploadInductive ==
  /\ Init => UploadInv
  /\ TypeOK /\ UploadInv /\ [Next]_vars => UploadInv'
<1>1. Init => UploadInv
  BY DEF Init, UploadInv, NoUploadLost, Queue!QInit
<1>2. ASSUME TypeOK, UploadInv, [Next]_vars PROVE UploadInv'
  <2>1. HeldKnown' BY <1>2, HeldKnownInductive DEF HeldKnown, UploadInv
  <2>2. MarkKnown' BY <1>2, MarkKnownInductive DEF MarkKnown, UploadInv
  <2>3. \A d \in dispatched' : Published(d)'
    BY <1>2, DispatchedInductive DEF MarkKnown, UploadInv
  <2>4. ASSUME NEW d \in Docs, status'[d] # "absent" PROVE Tracked(d)'
    <3>1. CASE status[d] # "absent"
      BY <1>2, <3>1, TrackedStays DEF UploadInv, NoUploadLost, Tracked
    <3>2. ASSUME status[d] = "absent", NEW e \in Docs, Confirm(e) PROVE Tracked(d)'
      <4>1. e = d /\ rows' = Append(rows, d)
        BY <2>4, <3>2, <1>2 DEF Confirm, CreateIfAbsent, TypeOK, DocTypeOK
      <4>2. Len(rows) + 1 \in DOMAIN rows' /\ rows'[Len(rows) + 1] = d
        BY <4>1, <1>2 DEF TypeOK, OutboxTypeOK
      <4> QED BY <2>3, <4>2 DEF Tracked
    <3>3. ASSUME status[d] = "absent", NEW w \in Workers, WorkOn(w) PROVE Tracked(d)'
      <4>1. d = DocOf(w) /\ stage[w] # "idle"
        BY <1>2, <2>4, <3>3, WorkFrame
      <4>2. Published(d)
        BY <1>2, <4>1, HeldDoc DEF UploadInv, Published, DocOf, TypeOK
      <4> QED BY <1>2, <4>2, KnownGrows DEF Tracked, Published
    <3>4. CASE status' = status
      BY <2>4, <3>1, <3>4
    <3>5. ASSUME NEW e \in Docs, Delete(e) PROVE status' = status
      BY <3>5 DEF Delete, DeleteRows
    <3>6. ASSUME NEW r \in Relays, \/ \E e \in Docs : Enqueue(r, e) \/ EnqueueFails(r, e)
                                   \/ MarkDispatched(r) \/ RecordAttemptFailure(r)
                                   \/ RelayCrashes(r) \/ Fetch(r)
          PROVE  status' = status
      BY <3>6 DEF Enqueue, EnqueueFails, Relay, MarkDispatched, RecordAttemptFailure,
         NextRow, RelayCrashes, Fetch, docVars
    <3>7. ASSUME NEW w \in Workers, \/ HandlerReturns(w) \/ Raise(w)
                                    \/ Ack(w) \/ WorkerCrashes(w)
                                    \/ \E m \in Messages : Claim(w, m)
          PROVE  status' = status
      BY <3>7 DEF HandlerReturns, Raise, Ack, WorkerCrashes, Claim, Rest, docVars
    <3>8. CASE UNCHANGED vars
      BY <3>8, <3>4 DEF vars, docVars
    <3> QED
      BY <1>2, StepCases, <3>1, <3>2, <3>3, <3>4, <3>5, <3>6, <3>7, <3>8 DEF WorkOn
  <2> QED BY <2>1, <2>2, <2>3, <2>4 DEF UploadInv, NoUploadLost, Tracked, HeldKnown, MarkKnown
<1> QED BY <1>1, <1>2

(***************************************************************************)
(* A confirmed upload is never lost between the API's transaction and the  *)
(* queue, whichever process dies: the outbox's promise, for any number of  *)
(* relays and workers.                                                     *)
(***************************************************************************)
THEOREM UploadsNeverLost == Spec => []NoUploadLost
<1>1. UploadInv => NoUploadLost
  BY DEF UploadInv
<1> QED BY <1>1, TypeInductive, UploadInductive, PTL DEF Spec

-----------------------------------------------------------------------------
(* What search serves is complete.                                         *)

\* Steps that touch neither the tables nor what a worker knows of them, and only
\* end or begin a worker's call.
LEMMA TablesFrame ==
  ASSUME TypeOK, Next, ~ \E w \in Workers : WorkOn(w), ~ \E d \in Docs : Delete(d)
  PROVE  /\ UNCHANGED <<deleted, chunks, embedded, events>>
         /\ \A d \in Docs : status'[d] = status[d] \/ status'[d] = "queued"
         /\ \A w \in Workers : \/ stage'[w] \in {"idle", "begin", "ack"}
                               \/ /\ stage'[w] = stage[w]
                                  /\ held'[w] = held[w]
                                  /\ listed'[w] = listed[w]
<1>1. ASSUME NEW d \in Docs, Confirm(d)
      PROVE  /\ UNCHANGED <<deleted, chunks, embedded, events, workVars, queueVars>>
             /\ \A e \in Docs : status'[e] = status[e] \/ status'[e] = "queued"
  BY <1>1 DEF Confirm, CreateIfAbsent, TypeOK, DocTypeOK
<1>2. ASSUME NEW r \in Relays, \/ \E d \in Docs : Enqueue(r, d) \/ EnqueueFails(r, d)
                               \/ MarkDispatched(r) \/ RecordAttemptFailure(r)
                               \/ RelayCrashes(r) \/ Fetch(r)
      PROVE  UNCHANGED <<docVars, workVars, held>>
  BY <1>2 DEF Enqueue, EnqueueFails, Relay, Publish, Queue!Enqueue, MarkDispatched,
     RecordAttemptFailure, NextRow, RelayCrashes, Fetch, queueVars
<1>3. ASSUME NEW w \in Workers, \/ HandlerReturns(w) \/ Raise(w) \/ Ack(w)
                                \/ WorkerCrashes(w) \/ \E m \in Messages : Claim(w, m)
      PROVE  /\ UNCHANGED docVars
             /\ stage'[w] \in {"idle", "begin", "ack"}
             /\ \A v \in Workers : v # w => /\ stage'[v] = stage[v]
                                            /\ held'[v] = held[v]
                                            /\ listed'[v] = listed[v]
  <2>1. UNCHANGED docVars
    BY <1>3 DEF HandlerReturns, Raise, Ack, WorkerCrashes, Claim, Rest
  <2>2. stage'[w] \in {"idle", "begin", "ack"}
    BY <1>3 DEF HandlerReturns, Raise, Ack, WorkerCrashes, Claim, Goto, TypeOK, WorkTypeOK
  <2>3. \A v \in Workers : v # w => stage'[v] = stage[v] /\ listed'[v] = listed[v]
    BY <1>3 DEF HandlerReturns, Raise, Ack, WorkerCrashes, Claim, Goto, Rest,
       TypeOK, WorkTypeOK
  <2>4. \A v \in Workers : v # w => held'[v] = held[v]
    BY <1>3 DEF HandlerReturns, Raise, Ack, WorkerCrashes, Claim, Queue!Finish,
       Queue!DeadLetter, Queue!LetGo, Queue!Settle, Queue!Deliver, TypeOK, QueueTypeOK
  <2> QED BY <2>1, <2>2, <2>3, <2>4
<1> QED
  BY StepCases, <1>1, <1>2, <1>3 DEF WorkOn, docVars, workVars, queueVars

\* The steps of the handler, in the part of the state this section is about.
LEMMA CompleteWork ==
  ASSUME TypeOK, CompleteInv, NEW w \in Workers, WorkOn(w)
  PROVE  CompleteInv'
<1>1. /\ UNCHANGED <<deleted, held>>
      /\ DocOf(w) \in Docs
      /\ \A v \in Workers : DocOf(v)' = DocOf(v)
  BY WorkFrame DEF DocOf, queueVars
<1>2. /\ chunks \subseteq chunks'
      /\ embedded \subseteq embedded'
      /\ \A v \in Workers : v # w => stage'[v] = stage[v] /\ listed'[v] = listed[v]
  BY DEF WorkOn, MarkScanning, Scan, MarkParsing, MarkChunking, MarkFailed, Advance, SetStatus,
     InsertChunks, ListChunks, FindCached, EmbedMissing, AttachEmbeddings, Attach, docVars, Goto,
     TypeOK, WorkTypeOK
<1>3. \/ stage'[w] \notin {"list", "cache", "embed", "attach"}
      \/ InsertChunks(w) \/ ListChunks(w) \/ FindCached(w) \/ EmbedMissing(w)
  BY DEF WorkOn, MarkScanning, Scan, MarkParsing, MarkChunking, MarkFailed, Advance, SetStatus,
     AttachEmbeddings, Attach, Goto, TypeOK, WorkTypeOK
<1>4. /\ stage'[w] \in {"list", "cache", "embed", "attach"}
           => DocOf(w) \in deleted \/ ChunkRows(DocOf(w)) \subseteq chunks'
      /\ stage'[w] \in {"cache", "embed", "attach"}
           => DocOf(w) \in deleted \/ ChunkRows(DocOf(w)) \subseteq listed'[w]
  <2>1. CASE InsertChunks(w)
    BY <2>1 DEF InsertChunks, SetStatus, Goto, TypeOK, WorkTypeOK
  <2>2. CASE ListChunks(w)
    <3>1. DocOf(w) \in deleted \/ ChunkRows(DocOf(w)) \subseteq chunks
      BY <2>2 DEF CompleteInv, ListChunks
    <3>2. listed'[w] = chunks \cap ChunkRows(DocOf(w)) /\ chunks' = chunks
      BY <2>2 DEF ListChunks, docVars, TypeOK, WorkTypeOK
    <3> QED BY <3>1, <3>2
  <2>3. CASE FindCached(w) \/ EmbedMissing(w)
    BY <2>3 DEF CompleteInv, FindCached, EmbedMissing, docVars
  <2> QED BY <1>3, <2>1, <2>2, <2>3
<1>5. ASSUME NEW d \in Docs \ deleted, status'[d] = "ready" \/ <<d, "ready">> \in events'
      PROVE  ChunkRows(d) \subseteq embedded'
  <2>1. CASE status[d] = "ready" \/ <<d, "ready">> \in events
    BY <1>2, <2>1 DEF CompleteInv, ReadyIsComplete
  <2>2. CASE AttachEmbeddings(w) /\ d = DocOf(w)
    BY <1>1, <2>2 DEF AttachEmbeddings, Attach, CompleteInv, SetStatus
  <2>3. status'[d] # "ready" \/ status[d] = "ready" \/ (AttachEmbeddings(w) /\ d = DocOf(w))
    <3>1. d # DocOf(w) => status'[d] = status[d]
      BY WorkFrame
    <3>2. \/ status' = status
          \/ \E x \in Statuses \ {"ready"} : status' = [status EXCEPT ![DocOf(w)] = x]
          \/ AttachEmbeddings(w)
      BY DEF WorkOn, MarkScanning, Scan, MarkParsing, MarkChunking, MarkFailed, Advance, SetStatus,
         InsertChunks, ListChunks, FindCached, EmbedMissing, docVars, Statuses
    <3>3. ASSUME NEW x \in Statuses \ {"ready"}, status' = [status EXCEPT ![DocOf(w)] = x],
                 d = DocOf(w)
          PROVE  status'[d] # "ready"
      BY <1>1, <3>3 DEF TypeOK, DocTypeOK
    <3> QED BY <3>1, <3>2, <3>3
  <2>4. \/ <<d, "ready">> \notin events' \/ <<d, "ready">> \in events
        \/ AttachEmbeddings(w) /\ d = DocOf(w)
    <3>1. CASE MarkFailed(w)
      <4>1. stage[w] # "ready" /\ events' = events \cup {<<DocOf(w), stage[w]>>}
        BY <3>1 DEF MarkFailed, FailStages
      <4> QED BY <4>1
    <3>2. CASE AttachEmbeddings(w)
      BY <3>2 DEF AttachEmbeddings, Attach, SetStatus
    <3>3. CASE events' = events
      BY <3>3
    <3> QED
      BY <3>1, <3>2, <3>3 DEF WorkOn, MarkScanning, Scan, MarkParsing, MarkChunking, Advance, SetStatus,
         InsertChunks, ListChunks, FindCached, EmbedMissing, docVars
  <2> QED BY <1>5, <2>1, <2>2, <2>3, <2>4
<1> QED BY <1>1, <1>2, <1>4, <1>5 DEF CompleteInv, ReadyIsComplete

\* A delete spoils nobody else's chunks.
LEMMA CompleteDelete ==
  ASSUME TypeOK, CompleteInv, NEW e \in Docs, Delete(e)
  PROVE  CompleteInv'
<1>1. ASSUME NEW d \in Docs, d # e PROVE ChunkRows(d) \cap ChunkRows(e) = {}
  BY <1>1, ChunkFacts
<1>2. /\ UNCHANGED <<status, held, stage, listed>>
      /\ deleted' = deleted \cup {e}
      /\ chunks' = chunks \ ChunkRows(e)
      /\ embedded' = embedded \ ChunkRows(e)
      /\ \A d : <<d, "ready">> \in events' => <<d, "ready">> \in events
  BY DEF Delete, DeleteRows, queueVars, workVars
<1>3. ReadyIsComplete'
  BY <1>1, <1>2 DEF CompleteInv, ReadyIsComplete
<1>4. ASSUME NEW w \in Workers, stage[w] \in {"list", "cache", "embed", "attach"}
      PROVE  /\ DocOf(w)' = DocOf(w)
             /\ DocOf(w) \in deleted' \/ ChunkRows(DocOf(w)) \subseteq chunks'
             /\ stage[w] # "list" =>
                  DocOf(w) \in deleted' \/ ChunkRows(DocOf(w)) \subseteq listed[w]
  <2>1. DocOf(w) \in Docs BY <1>4, HeldDoc DEF TypeOK
  <2>2. DocOf(w)' = DocOf(w) BY <1>2 DEF DocOf
  <2>3. DocOf(w) = e \/ ChunkRows(DocOf(w)) \cap ChunkRows(e) = {} BY <1>1, <2>1
  <2> QED BY <1>2, <1>4, <2>2, <2>3 DEF CompleteInv
<1> QED BY <1>2, <1>3, <1>4 DEF CompleteInv

\* From Init on, and across every step.
LEMMA CompleteInductive ==
  /\ Init => CompleteInv
  /\ TypeOK /\ CompleteInv /\ [Next]_vars => CompleteInv'
<1>1. Init => CompleteInv
  BY DEF Init, CompleteInv, ReadyIsComplete
<1>2. ASSUME TypeOK, CompleteInv, [Next]_vars PROVE CompleteInv'
  <2>1. CASE UNCHANGED vars
    BY <1>2, <2>1 DEF vars, docVars, queueVars, workVars, CompleteInv, ReadyIsComplete, DocOf
  <2>2. CASE Next /\ ~(\E w \in Workers : WorkOn(w)) /\ ~(\E d \in Docs : Delete(d))
    BY <1>2, <2>2, TablesFrame DEF CompleteInv, ReadyIsComplete, DocOf
  <2> QED BY <1>2, <2>1, <2>2, CompleteWork, CompleteDelete
<1> QED BY <1>1, <1>2

(***************************************************************************)
(* A READY or announced document that is not deleted has every chunk       *)
(* embedded, however many workers reprocess it at the same time.           *)
(***************************************************************************)
THEOREM SearchIsComplete == Spec => []ReadyIsComplete
<1>1. CompleteInv => ReadyIsComplete
  BY DEF CompleteInv
<1> QED BY <1>1, TypeInductive, CompleteInductive, PTL DEF Spec

(***************************************************************************)
(* No step but a document's deletion takes an embedding away.              *)
(***************************************************************************)
THEOREM EmbeddingsNeverTaken == Spec => EmbeddingsSurvive
<1>1. ASSUME TypeOK, [Next]_vars, NEW c \in embedded
      PROVE  c \in embedded' \/ c[1] \in deleted' \ deleted
  <2>1. ASSUME NEW d \in Docs, Delete(d) PROVE c \in embedded' \/ c[1] \in deleted' \ deleted
    BY <2>1, ChunkFacts DEF Delete, DeleteRows
  <2>2. ASSUME NEW w \in Workers, WorkOn(w) PROVE c \in embedded'
    BY <2>2 DEF WorkOn, MarkScanning, Scan, MarkParsing, MarkChunking, MarkFailed,
       Advance, SetStatus, InsertChunks, ListChunks, FindCached, EmbedMissing, AttachEmbeddings, Attach, docVars
  <2>3. CASE UNCHANGED vars
    BY <2>3 DEF vars, docVars
  <2> QED BY <1>1, <2>1, <2>2, <2>3, TablesFrame
<1>2. TypeOK /\ [Next]_vars
        => [\A c \in embedded : c \in embedded' \/ c[1] \in deleted' \ deleted]_vars
  BY <1>1
<1> QED BY <1>2, TypeInductive, PTL DEF Spec, EmbeddingsSurvive

\* No step of any worker, relay or request takes a document out of FAILED.
LEMMA FailedStep ==
  ASSUME TypeOK, [Next]_vars, NEW d \in Docs, status[d] = "failed"
  PROVE  status'[d] = "failed"
<1>1. ASSUME NEW w \in Workers, WorkOn(w) PROVE status'[d] = "failed"
  <2>1. CASE d # DocOf(w) BY <1>1, <2>1, WorkFrame
  <2>2. CASE d = DocOf(w)
    BY <1>1, <2>2 DEF WorkOn, MarkScanning, Scan, MarkParsing, MarkChunking,
       MarkFailed, Advance, SetStatus, InsertChunks, ListChunks, FindCached,
       EmbedMissing, AttachEmbeddings, Attach, docVars, TypeOK, DocTypeOK
  <2> QED BY <2>1, <2>2
<1>2. ASSUME NEW e \in Docs, Confirm(e) PROVE status'[d] = "failed"
  BY <1>2 DEF Confirm, CreateIfAbsent, TypeOK, DocTypeOK
<1>3. ASSUME NEW e \in Docs, Delete(e) PROVE status'[d] = "failed"
  BY <1>3 DEF Delete
<1>4. ASSUME NEW r \in Relays, \/ \E e \in Docs : Enqueue(r, e) \/ EnqueueFails(r, e)
                               \/ MarkDispatched(r) \/ RecordAttemptFailure(r)
                               \/ RelayCrashes(r) \/ Fetch(r)
      PROVE  status'[d] = "failed"
  BY <1>4 DEF Enqueue, EnqueueFails, Relay, MarkDispatched,
     RecordAttemptFailure, NextRow, RelayCrashes, Fetch, docVars
<1>5. ASSUME NEW w \in Workers, \/ HandlerReturns(w) \/ Raise(w) \/ Ack(w)
                                \/ WorkerCrashes(w) \/ \E m \in Messages : Claim(w, m)
      PROVE  status'[d] = "failed"
  BY <1>5 DEF HandlerReturns, Raise, Ack, WorkerCrashes, Claim, Rest, docVars
<1>6. CASE UNCHANGED vars BY <1>6 DEF vars, docVars
<1> QED BY <1>1, <1>2, <1>3, <1>4, <1>5, <1>6, StepCases DEF WorkOn

(***************************************************************************)
(* FAILED is final: no step of any worker, relay or request takes a        *)
(* document out of it.                                                     *)
(***************************************************************************)
THEOREM FailedStaysFailed == Spec => FailedIsFinal
<1>1. TypeOK /\ [Next]_vars
        => [\A d \in Docs : status[d] = "failed" => status'[d] = "failed"]_vars
  BY FailedStep
<1> QED BY <1>1, TypeInductive, PTL DEF Spec, FailedIsFinal

-----------------------------------------------------------------------------
(* What was refused is never served.                                       *)

\* The steps of the handler: the scan and the parser stand before the INSERT.
LEMMA RefusedWork ==
  ASSUME TypeOK, RefusedInv, NEW w \in Workers, WorkOn(w)
  PROVE  RefusedInv'
<1>1. /\ DocOf(w) \in Docs
      /\ \A v \in Workers : DocOf(v)' = DocOf(v)
  BY WorkFrame DEF DocOf, queueVars
<1>2. \A v \in Workers : v # w => stage'[v] = stage[v]
  BY DEF WorkOn, MarkScanning, Scan, MarkParsing, MarkChunking, MarkFailed, Advance, SetStatus,
     InsertChunks, ListChunks, FindCached, EmbedMissing, AttachEmbeddings, Attach, Goto,
     TypeOK, WorkTypeOK
<1>3. /\ stage'[w] \in {"parse", "chunk", "insert", "list", "cache", "embed", "attach"}
           => DocOf(w) \notin Infected
      /\ stage'[w] \in {"chunk", "insert", "list", "cache", "embed", "attach"}
           => DocOf(w) \notin Unparseable
  BY DEF RefusedInv, WorkOn, MarkScanning, Scan, MarkParsing, MarkChunking, MarkFailed,
     Advance, SetStatus, InsertChunks, ListChunks, FindCached, EmbedMissing, AttachEmbeddings, Attach, Goto,
     TypeOK, WorkTypeOK
<1>4. ASSUME NEW d \in Infected \cup Unparseable
      PROVE  status'[d] # "ready" /\ chunks' \cap ChunkRows(d) = {}
  <2>1. d \in Docs /\ status[d] # "ready" /\ chunks \cap ChunkRows(d) = {}
    BY PipelineAssumption DEF RefusedInv, RefusedNeverServed
  <2>2. CASE InsertChunks(w)
    <3>1. d # DocOf(w)
      BY <2>2 DEF RefusedInv, InsertChunks, SetStatus
    <3>2. ChunkRows(DocOf(w)) \cap ChunkRows(d) = {}
      BY <1>1, <2>1, <3>1, ChunkFacts
    <3>3. chunks' \cap ChunkRows(d) = {}
      BY <2>1, <2>2, <3>2 DEF InsertChunks, SetStatus
    <3> QED BY <2>1, <3>1, <3>3, WorkFrame
  <2>3. CASE AttachEmbeddings(w)
    <3>1. d # DocOf(w) /\ chunks' = chunks
      BY <2>3 DEF RefusedInv, AttachEmbeddings, Attach, SetStatus
    <3> QED BY <2>1, <3>1, WorkFrame
  <2>4. CASE ~InsertChunks(w) /\ ~AttachEmbeddings(w)
    <3>1. chunks' = chunks
      BY <2>4 DEF WorkOn, MarkScanning, Scan, MarkParsing, MarkChunking, MarkFailed,
         Advance, SetStatus, ListChunks, FindCached, EmbedMissing, docVars
    <3>2. \/ status' = status
          \/ \E x \in Statuses \ {"ready"} : status' = [status EXCEPT ![DocOf(w)] = x]
      BY <2>4 DEF WorkOn, MarkScanning, Scan, MarkParsing, MarkChunking, MarkFailed,
         Advance, SetStatus, ListChunks, FindCached, EmbedMissing, docVars, Statuses
    <3>3. status'[d] # "ready"
      BY <1>1, <2>1, <3>2 DEF TypeOK, DocTypeOK
    <3> QED BY <2>1, <3>1, <3>3
  <2> QED BY <2>2, <2>3, <2>4
<1> QED BY <1>1, <1>2, <1>3, <1>4 DEF RefusedInv, RefusedNeverServed

\* From Init on, and across every step.
LEMMA RefusedInductive ==
  /\ Init => RefusedInv
  /\ TypeOK /\ RefusedInv /\ [Next]_vars => RefusedInv'
<1>1. Init => RefusedInv
  BY PipelineAssumption DEF Init, RefusedInv, RefusedNeverServed
<1>2. ASSUME TypeOK, RefusedInv, [Next]_vars PROVE RefusedInv'
  <2>1. CASE UNCHANGED vars
    BY <1>2, <2>1 DEF vars, docVars, queueVars, workVars, RefusedInv, RefusedNeverServed, DocOf
  <2>2. CASE Next /\ ~(\E w \in Workers : WorkOn(w)) /\ ~(\E d \in Docs : Delete(d))
    BY <1>2, <2>2, TablesFrame, PipelineAssumption DEF RefusedInv, RefusedNeverServed, DocOf
  <2>3. ASSUME NEW d \in Docs, Delete(d) PROVE RefusedInv'
    BY <1>2, <2>3 DEF Delete, DeleteRows, queueVars, workVars, RefusedInv, RefusedNeverServed, DocOf
  <2> QED BY <1>2, <2>1, <2>2, <2>3, RefusedWork
<1> QED BY <1>1, <1>2

(***************************************************************************)
(* Content the scanner or the parser refused is never stored or READY, in  *)
(* whatever order deliveries of the same document overlap.                 *)
(***************************************************************************)
THEOREM RefusedStaysOut == Spec => []RefusedNeverServed
<1>1. RefusedInv => RefusedNeverServed
  BY DEF RefusedInv
<1> QED BY <1>1, TypeInductive, RefusedInductive, PTL DEF Spec

-----------------------------------------------------------------------------
(* What a quiet pipeline leaves behind, with any number of workers.        *)

\* FAILED stays and an announcement is never taken back, so an answer stays.
LEMMA AnswerStays ==
  ASSUME TypeOK, [Next]_vars, NEW d \in Docs, Answered(d)
  PROVE  Answered(d)'
<1>1. events \subseteq events'
  BY TablesFrame DEF WorkOn, MarkScanning, Scan, MarkParsing, MarkChunking, MarkFailed,
     Advance, SetStatus, InsertChunks, ListChunks, FindCached, EmbedMissing,
     AttachEmbeddings, Attach, Delete, vars, docVars
<1>2. status[d] = "failed" => status'[d] = "failed" BY FailedStep
<1> QED BY <1>1, <1>2 DEF Answered

\* The queue's list of handled messages grows by the message that is returned.
LEMMA DoneFrame ==
  ASSUME TypeOK, [Next]_vars, NEW m \in done', m \notin done
  PROVE  \E w \in Workers : HandlerReturns(w) /\ m = held[w]
<1>1. ASSUME NEW w \in Workers, WorkOn(w) PROVE done' = done
  BY <1>1, WorkFrame DEF queueVars
<1>2. ASSUME NEW d \in Docs, Confirm(d) \/ Delete(d) PROVE done' = done
  BY <1>2 DEF Confirm, Delete, queueVars
<1>3. ASSUME NEW r \in Relays, \/ \E d \in Docs : Enqueue(r, d) \/ EnqueueFails(r, d)
                               \/ MarkDispatched(r) \/ RecordAttemptFailure(r)
                               \/ RelayCrashes(r) \/ Fetch(r)
      PROVE  done' = done
  BY <1>3 DEF Enqueue, EnqueueFails, Relay, Publish, Queue!Enqueue, MarkDispatched,
     RecordAttemptFailure, NextRow, RelayCrashes, Fetch, queueVars
<1>4. ASSUME NEW w \in Workers, \/ \E i \in Messages : Claim(w, i)
                                \/ Raise(w) \/ Ack(w) \/ WorkerCrashes(w)
      PROVE  done' = done
  BY <1>4 DEF Claim, Raise, Ack, WorkerCrashes, Queue!Deliver, Queue!DeadLetter,
     Queue!LetGo, Queue!Settle
<1>5. ASSUME NEW w \in Workers, HandlerReturns(w) PROVE done' = done \cup {held[w]}
  BY <1>5 DEF HandlerReturns, Queue!Finish
<1>6. CASE UNCHANGED vars BY <1>6 DEF vars, queueVars
<1> QED BY <1>1, <1>2, <1>3, <1>4, <1>5, <1>6, StepCases DEF WorkOn

\* A worker comes to its return only by mark_failed or by announcing READY.
LEMMA ReturnFrame ==
  ASSUME TypeOK, [Next]_vars, NEW w \in Workers, stage'[w] = "return"
  PROVE  /\ held'[w] = held[w] /\ DocOf(w) \in Docs
         /\ stage[w] # "return" => Answered(DocOf(w))'
<1>1. ASSUME NEW v \in Workers, WorkOn(v)
      PROVE  /\ held'[w] = held[w] /\ DocOf(w) \in Docs
             /\ stage[w] # "return" => Answered(DocOf(w))'
  <2>1. UNCHANGED <<held, DocOf(w)>> BY <1>1, WorkFrame DEF DocOf, queueVars
  <2>2. CASE stage[w] = "return" BY <2>1, <2>2, HeldDoc DEF TypeOK
  <2>3. CASE stage[w] # "return"
    <3>1. w = v /\ (MarkFailed(w) \/ AttachEmbeddings(w))
      BY <1>1, <2>3 DEF WorkOn, MarkScanning, Scan, MarkParsing, MarkChunking, MarkFailed,
         Advance, InsertChunks, ListChunks, FindCached, EmbedMissing, AttachEmbeddings,
         Attach, Goto, TypeOK, WorkTypeOK
    <3>2. DocOf(w) \in Docs BY <1>1, <3>1, WorkFrame
    <3>3. status'[DocOf(w)] = "failed" \/ <<DocOf(w), "ready">> \in events'
      BY <3>1, <3>2 DEF MarkFailed, AttachEmbeddings, Attach, TypeOK, DocTypeOK
    <3> QED BY <2>1, <3>2, <3>3 DEF Answered
  <2> QED BY <2>2, <2>3
<1>2. CASE Next /\ ~(\E v \in Workers : WorkOn(v)) /\ ~(\E d \in Docs : Delete(d))
  <2>1. held'[w] = held[w] /\ stage[w] = "return" BY <1>2, TablesFrame
  <2> QED BY <2>1, HeldDoc DEF TypeOK
<1>3. CASE UNCHANGED vars \/ \E d \in Docs : Delete(d)
  <2>1. held' = held /\ stage[w] = "return"
    BY <1>3 DEF vars, queueVars, workVars, Delete
  <2> QED BY <2>1, HeldDoc DEF TypeOK
<1> QED BY <1>1, <1>2, <1>3

\* From Init on, and across every step.
LEMMA AnsweredInductive ==
  /\ Init => AnsweredInv
  /\ TypeOK /\ AnsweredInv /\ [Next]_vars => AnsweredInv'
<1>1. Init => AnsweredInv
  BY DEF Init, AnsweredInv, Queue!QInit
<1>2. ASSUME TypeOK, AnsweredInv, [Next]_vars PROVE AnsweredInv'
  <2>1. ASSUME NEW w \in Workers, stage'[w] = "return"
        PROVE  Answered(held[w][1])' /\ held'[w] = held[w]
    <3>1. held'[w] = held[w] /\ DocOf(w) \in Docs
          /\ (stage[w] # "return" => Answered(DocOf(w))')
      BY <1>2, <2>1, ReturnFrame
    <3>2. Answered(DocOf(w))'
      <4>1. CASE stage[w] = "return"
        <5>1. Answered(DocOf(w)) BY <1>2, <4>1 DEF AnsweredInv
        <5>2. PICK d \in Docs : d = DocOf(w) BY <3>1
        <5>3. Answered(d)' BY <1>2, <5>1, <5>2, AnswerStays
        <5> QED BY <3>1, <5>2, <5>3 DEF DocOf, Answered
      <4> QED BY <3>1, <4>1
    <3> QED BY <3>1, <3>2 DEF DocOf
  <2>2. ASSUME NEW m \in done'
        PROVE  Answered(m[1])'
    <3>1. m[1] \in Docs /\ Answered(m[1])
      <4>1. CASE m \in done
        BY <1>2, <4>1 DEF AnsweredInv, TypeOK, QueueTypeOK, Messages
      <4>2. CASE m \notin done
        <5>1. PICK w \in Workers : HandlerReturns(w) /\ m = held[w]
          BY <1>2, <2>2, <4>2, DoneFrame
        <5>2. stage[w] = "return" BY <5>1 DEF HandlerReturns
        <5> QED BY <1>2, <5>1, <5>2, HeldDoc DEF AnsweredInv, DocOf, TypeOK
      <4> QED BY <4>1, <4>2
    <3>2. PICK d \in Docs : d = m[1] BY <3>1
    <3>3. Answered(d)' BY <1>2, <3>1, <3>2, AnswerStays
    <3> QED BY <3>2, <3>3 DEF Answered
  <2> QED BY <2>1, <2>2 DEF AnsweredInv, DocOf, Answered
<1> QED BY <1>1, <1>2

(***************************************************************************)
(* Any number of workers, relays, duplicates and crashes: a document the   *)
(* pipeline has nothing left to do for, and which has no dead letter, is   *)
(* FAILED, or was announced as READY and has all its chunks embedded until *)
(* it is deleted.  (Its status alone does not say so: see                  *)
(* QuietMeansResolved.)                                                    *)
(***************************************************************************)
THEOREM QuietIsAnswered == Spec => []QuietMeansAnswered
<1>1. TypeOK /\ UploadInv /\ CompleteInv /\ AnsweredInv => QuietMeansAnswered
  <2> SUFFICES ASSUME TypeOK, UploadInv, CompleteInv, AnsweredInv, NEW d \in Docs,
                      Quiet(d), NoDeadLetter(d)
               PROVE  /\ Answered(d)
                      /\ \/ status[d] = "failed"
                         \/ d \in deleted
                         \/ ChunkRows(d) \subseteq embedded
    BY DEF QuietMeansAnswered
  <2>1. PICK m \in Known : m[1] = d BY DEF UploadInv, Quiet, Published
  <2>2. m \in done BY <2>1 DEF Quiet, NoDeadLetter, Known
  <2>3. Answered(d) BY <2>1, <2>2 DEF AnsweredInv
  <2> QED BY <2>3 DEF Answered, CompleteInv, ReadyIsComplete
<1>2. Init => TypeOK /\ UploadInv /\ CompleteInv /\ AnsweredInv
  BY TypeInductive, UploadInductive, CompleteInductive, AnsweredInductive
<1>3. TypeOK /\ UploadInv /\ CompleteInv /\ AnsweredInv /\ [Next]_vars
        => TypeOK' /\ UploadInv' /\ CompleteInv' /\ AnsweredInv'
  BY TypeInductive, UploadInductive, CompleteInductive, AnsweredInductive
<1> QED BY <1>1, <1>2, <1>3, PTL DEF Spec

-----------------------------------------------------------------------------
(* The pipeline and the queue's port.                                      *)

(***************************************************************************)
(* Relays, workers and crashes use the queue as its port allows and in no  *)
(* other way: every step of the pipeline is one call of AtLeastOnceQueue,  *)
(* or none.  IngestionQueue implements that specification                  *)
(* (QueueRefinesPort), so what the pipeline assumes of its queue is what   *)
(* the Redis commands give.                                                *)
(***************************************************************************)
THEOREM PipelineUsesPort == Spec => Queue!QSpec
<1>1. Init => Queue!QInit
  BY DEF Init
<1>2. ASSUME TypeOK, [Next]_vars
      PROVE  [Queue!QNext]_(Queue!queueVars)
  <2> USE <1>2
  <2>1. ASSUME UNCHANGED queueVars PROVE UNCHANGED Queue!queueVars
    BY <2>1 DEF queueVars, Queue!queueVars
  <2>2. ASSUME NEW d \in Docs, Confirm(d) \/ Delete(d) PROVE UNCHANGED Queue!queueVars
    BY <2>1, <2>2 DEF Confirm, Delete
  <2>3. ASSUME NEW r \in Relays, NEW d \in Docs, Enqueue(r, d) \/ EnqueueFails(r, d)
        PROVE  UNCHANGED Queue!queueVars \/ \E i \in Messages : Queue!Enqueue(i)
    <3>1. CASE UNCHANGED queueVars BY <2>1, <3>1
    <3>2. CASE Publish(d)
      <4>1. PICK i : i = <<d, copies[d] + 1>> OBVIOUS
      <4>2. copies[d] + 1 \in 1 .. MaxCopies
        BY <3>2, PipelineAssumption DEF Publish, TypeOK, RelayTypeOK
      <4>3. i \in Messages BY <4>1, <4>2 DEF Messages
      <4> QED BY <3>2, <4>1, <4>3 DEF Publish
    <3> QED BY <2>3, <3>1, <3>2 DEF Enqueue, EnqueueFails
  <2>4. ASSUME NEW r \in Relays, \/ MarkDispatched(r) \/ RecordAttemptFailure(r)
                                 \/ RelayCrashes(r) \/ Fetch(r)
        PROVE  UNCHANGED Queue!queueVars
    BY <2>1, <2>4 DEF MarkDispatched, RecordAttemptFailure, NextRow, RelayCrashes, Fetch
  <2>5. ASSUME NEW w \in Workers, WorkOn(w) PROVE UNCHANGED Queue!queueVars
    BY <2>1, <2>5, WorkFrame
  <2>6. ASSUME NEW w \in Workers, NEW m \in Messages, Claim(w, m)
        PROVE  \E n \in 1 .. deliveries[m] + 1 : Queue!Deliver(w, m, n)
    <3>1. PICK n : n = deliveries[m] + 1 OBVIOUS
    <3>2. deliveries[m] \in Nat BY DEF TypeOK, QueueTypeOK
    <3>3. n \in 1 .. deliveries[m] + 1 BY <3>1, <3>2
    <3> QED BY <2>6, <3>1, <3>3 DEF Claim
  <2>7. ASSUME NEW w \in Workers, \/ HandlerReturns(w) \/ Raise(w) \/ Ack(w)
                                  \/ WorkerCrashes(w)
        PROVE  \/ Queue!Finish(w) \/ Queue!DeadLetter(w) \/ Queue!Settle(w)
               \/ Queue!LetGo(w)
    BY <2>7 DEF HandlerReturns, Raise, Ack, WorkerCrashes
  <2>8. CASE UNCHANGED vars BY <2>1, <2>8 DEF vars
  <2> QED
    BY StepCases, <2>2, <2>3, <2>4, <2>5, <2>6, <2>7, <2>8
    DEF Queue!QNext, WorkOn
<1> QED BY <1>1, <1>2, TypeInductive, PTL DEF Spec, Queue!QSpec

=============================================================================
