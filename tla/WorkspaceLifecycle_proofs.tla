---------------------- MODULE WorkspaceLifecycle_proofs ----------------------
(***************************************************************************)
(* Theorems about WorkspaceLifecycle, for any documents, jobs, workers and *)
(* bounds, store failures and crashes included.                            *)
(***************************************************************************)
EXTENDS WorkspaceLifecycle, TLAPS

(***************************************************************************)
(* What a worker may rely on at each of its steps although the others go   *)
(* on meanwhile: the event of its job was recorded, what it has still to   *)
(* delete covers what is left of the workspace, what it has downloaded and *)
(* has still to download covers the documents of the request, unless the   *)
(* workspace has gone.                                                     *)
(***************************************************************************)
WorkerInv(r) ==
  /\ r.pc # "idle" => r.job \in Jobs
  /\ r.pc \in {"get", "run", "list", "delete", "fetch", "select", "download", "finish", "mark"}
       => outbox[r.job].event
  /\ r.pc \in {"list", "delete", "count", "prefix", "record"} => r.job \in Deletions
  /\ r.pc \in {"fetch", "select", "download", "finish"} => r.job \in Exports
  /\ r.pc = "delete" =>
       \A j \in Deletions : objects \cap had[j] \subseteq put \cup r.keys
  /\ r.pc = "download" => workspace = "gone" \/ had[r.job] \subseteq r.keys \cup r.files
  /\ r.pc = "finish" => archives[r.job] # {None}
  /\ r.pc \in {"prefix", "record"} /\ r.clean => workspace = "gone"
  /\ r.pc = "record" /\ r.clean => objects \subseteq put

(***************************************************************************)
(* What the rows say of the requests: as long as the workspace has rows,   *)
(* the documents of every request are among them; nothing was deleted or   *)
(* archived before it was requested; no export job outlives the workspace. *)
(***************************************************************************)
RequestInv ==
  /\ workspace = "active" =>
       \A j \in Deletions : ~ outbox[j].event /\ had[j] = {}
  /\ workspace # "gone" => \A j \in Jobs : had[j] \subseteq documents
  /\ \A e \in Exports : ~ outbox[e].event => archives[e] = {None}
  /\ workspace = "gone" => \A e \in Exports : job[e] # "complete"

LifecycleInv ==
  /\ \A w \in Workers : WorkerInv(worker[w])
  /\ RequestInv
  /\ NothingLeftBehind
  /\ VerifiedMeansPurged
  /\ ArchiveWhole

-----------------------------------------------------------------------------
(* Types.                                                                  *)

\* Each step, by name: the case split of every proof below.
LEMMA StepCases ==
  ASSUME Next
  PROVE  \/ \E d \in Docs : Put(d) \/ Confirm(d)
         \/ \E j \in Deletions : DeleteWorkspace(j)
         \/ \E e \in Exports : ExportWorkspace(e)
         \/ \E w \in Workers :
              \/ \E j \in Jobs : FetchPending(w, j)
              \/ GetJob(w) \/ MarkRunning(w) \/ MarkDispatched(w)
              \/ ListKeys(w) \/ CompleteDeletion(w)
              \/ \E d \in Docs : DeleteObject(w, d)
              \/ FetchWorkspace(w) \/ FetchDocuments(w) \/ Upload(w) \/ CompleteExport(w)
              \/ \E d \in Docs : Download(w, d)
              \/ \E j \in Deletions : FetchUnverified(w, j)
              \/ CountRows(w) \/ ListPrefix(w) \/ RecordVerification(w)
              \/ CallFails(w) \/ Crash(w)
BY DEF Next, WorkerStep, PurgeWorkspace, BuildExport, VerifyDeletion, Jobs

LEMMA IdleTyped == Idle \in Worker
BY DEF Idle, Worker

\* A worker's record changes field by field.
LEMMA WorkerFields ==
  ASSUME NEW r \in Worker, NEW pc \in {"idle", "get", "run", "list", "delete", "fetch",
           "select", "download", "finish", "mark", "count", "prefix", "record"},
         NEW j \in Jobs, NEW keys \in SUBSET Docs, NEW files \in SUBSET Docs,
         NEW clean \in BOOLEAN
  PROVE  /\ [r EXCEPT !.pc = pc] \in Worker
         /\ [r EXCEPT !.pc = pc, !.job = j] \in Worker
         /\ [r EXCEPT !.pc = pc, !.keys = keys] \in Worker
         /\ [r EXCEPT !.pc = pc, !.clean = clean] \in Worker
         /\ [r EXCEPT !.keys = keys] \in Worker
         /\ [r EXCEPT !.keys = keys, !.files = files] \in Worker
BY DEF Worker

\* The type invariant by tables; the two tables of jobs are one function.
RowsTyped == /\ workspace \in {"active", "deleted", "gone"}
             /\ documents \subseteq Docs
             /\ job \in [Jobs -> DeletionJobStatus]
             /\ outbox \in [Jobs -> OutboxEntry]
             /\ verified \in [Deletions -> Verification]
StoreTyped == /\ objects \subseteq Docs
              /\ archives \in [Exports -> (SUBSET Docs) \cup {{None}}]
HistoryTyped == had \in [Jobs -> SUBSET Docs] /\ put \subseteq Docs
WorkersTyped == worker \in [Workers -> Worker]

Typed == /\ RowsTyped /\ StoreTyped /\ HistoryTyped /\ WorkersTyped
         /\ faults \in 0 .. MaxFaults

LEMMA TypedIsTypeOK == Typed => TypeOK
<1>1. job \in [Jobs -> DeletionJobStatus] =>
        /\ [j \in Deletions |-> job[j]] \in DeletionJobs
        /\ [e \in Exports |-> job[e]] \in ExportJobs
  BY DEF Jobs, DeletionJobs, ExportJobs, DeletionJobStatus, ExportJobStatus
<1> QED
  BY <1>1 DEF Typed, TypeOK, RowsTyped, StoreTyped, HistoryTyped, WorkersTyped

\* An event of the outbox is recorded, tried once more, or dispatched.
LEMMA OutboxTyped ==
  ASSUME outbox \in [Jobs -> OutboxEntry], NEW j \in Jobs
  PROVE  /\ [outbox EXCEPT ![j].event = TRUE] \in [Jobs -> OutboxEntry]
         /\ [outbox EXCEPT ![j].attempts = @ + 1] \in [Jobs -> OutboxEntry]
         /\ [outbox EXCEPT ![j].dispatched = TRUE] \in [Jobs -> OutboxEntry]
<1>1. PICK o \in OutboxEntry : o = outbox[j] OBVIOUS
<1>2. o.attempts + 1 \in Nat BY DEF OutboxEntry
<1>3. PICK n \in Nat : n = o.attempts + 1 BY <1>2
<1>4. /\ [o EXCEPT !.event = TRUE] \in OutboxEntry
      /\ [o EXCEPT !.attempts = n] \in OutboxEntry
      /\ [o EXCEPT !.dispatched = TRUE] \in OutboxEntry
  BY DEF OutboxEntry
<1>5. /\ [outbox EXCEPT ![j].event = TRUE] = [outbox EXCEPT ![j] = [o EXCEPT !.event = TRUE]]
      /\ [outbox EXCEPT ![j].attempts = @ + 1] = [outbox EXCEPT ![j] = [o EXCEPT !.attempts = n]]
      /\ [outbox EXCEPT ![j].dispatched = TRUE] = [outbox EXCEPT ![j] = [o EXCEPT !.dispatched = TRUE]]
  BY <1>1, <1>3
<1> QED BY <1>4, <1>5

LEMMA TypedInit == Init => Typed
<1> SUFFICES ASSUME Init PROVE Typed OBVIOUS
<1>1. RowsTyped
  <2>1. [event |-> FALSE, attempts |-> 0, dispatched |-> FALSE] \in OutboxEntry
    BY DEF OutboxEntry
  <2>2. outbox \in [Jobs -> OutboxEntry] BY <2>1 DEF Init
  <2> QED BY <2>2 DEF Init, RowsTyped, DeletionJobStatus, Verification
<1>s. StoreTyped
  <2>1. {None} \in (SUBSET Docs) \cup {{None}} OBVIOUS
  <2> QED BY <2>1 DEF Init, StoreTyped
<1>h. HistoryTyped BY DEF Init, HistoryTyped
<1>2. WorkersTyped BY IdleTyped DEF Init, WorkersTyped
<1> QED BY <1>1, <1>s, <1>h, <1>2, LifecycleAssumption DEF Typed, Init

\* Requests.
LEMMA RequestTyped ==
  ASSUME Typed,
         \/ \E d \in Docs : Put(d) \/ Confirm(d)
         \/ \E j \in Deletions : DeleteWorkspace(j)
         \/ \E e \in Exports : ExportWorkspace(e)
  PROVE  Typed'
<1>t. RowsTyped /\ StoreTyped /\ HistoryTyped /\ WorkersTyped /\ faults \in 0 .. MaxFaults
  BY DEF Typed
<1>1. ASSUME NEW d \in Docs, Put(d) PROVE Typed'
  BY <1>t, <1>1
  DEF Typed, Put, rows, RowsTyped, StoreTyped, HistoryTyped, WorkersTyped
<1>2. ASSUME NEW d \in Docs, Confirm(d) PROVE Typed'
  BY <1>t, <1>2
  DEF Typed, Confirm, store, history, RowsTyped, StoreTyped, HistoryTyped, WorkersTyped
<1>3. ASSUME NEW j \in Deletions, DeleteWorkspace(j) PROVE Typed'
  <2>1. j \in Jobs BY DEF Jobs
  <2>2. RowsTyped'
    BY <1>t, <1>3, <2>1, OutboxTyped
    DEF DeleteWorkspace, RequestDeletion, SoftDelete, CreateDeletionJob, Enqueue,
        RowsTyped, DeletionJobStatus
  <2>3. StoreTyped' /\ WorkersTyped' /\ faults' = faults
    BY <1>t, <1>3 DEF DeleteWorkspace, RequestDeletion, store, StoreTyped, WorkersTyped
  <2>4. HistoryTyped'
    BY <1>t, <1>3, <2>1 DEF DeleteWorkspace, RequestDeletion, RowsTyped, HistoryTyped
  <2> QED BY <1>t, <2>2, <2>3, <2>4 DEF Typed
<1>4. ASSUME NEW e \in Exports, ExportWorkspace(e) PROVE Typed'
  <2>1. e \in Jobs BY DEF Jobs
  <2>2. RowsTyped'
    BY <1>t, <1>4, <2>1, OutboxTyped
    DEF ExportWorkspace, RequestExport, CreateExportJob, Enqueue,
        RowsTyped, DeletionJobStatus
  <2>3. StoreTyped' /\ WorkersTyped' /\ faults' = faults
    BY <1>t, <1>4 DEF ExportWorkspace, RequestExport, store, StoreTyped, WorkersTyped
  <2>4. HistoryTyped'
    BY <1>t, <1>4, <2>1 DEF ExportWorkspace, RequestExport, RowsTyped, HistoryTyped
  <2> QED BY <1>t, <2>2, <2>3, <2>4 DEF Typed
<1> QED BY <1>1, <1>2, <1>3, <1>4

\* A step that changes nothing but the worker's own record.
LEMMA OnlyTyped ==
  ASSUME Typed, NEW w \in Workers, NEW r \in Worker, Only(w, r)
  PROVE  Typed'
BY DEF Typed, Only, Becomes, rows, store, history, RowsTyped, StoreTyped,
                  HistoryTyped, WorkersTyped

\* A failed attempt.
LEMMA AttemptFailedTyped ==
  ASSUME Typed, NEW w \in Workers, worker[w].job \in Jobs, AttemptFailed(w),
         faults' \in 0 .. MaxFaults
  PROVE  Typed'
<1>1. PICK j \in Jobs : j = worker[w].job OBVIOUS
<1>2. outbox' \in [Jobs -> OutboxEntry]
  BY <1>1, OutboxTyped DEF Typed, AttemptFailed, RowsTyped
<1> QED
  BY <1>2, IdleTyped
  DEF Typed, AttemptFailed, Becomes, store, history, RowsTyped, StoreTyped, HistoryTyped,
      WorkersTyped

\* Every step of a worker.  LifecycleInv tells it that it has a job.
LEMMA WorkerTyped ==
  ASSUME Typed, NEW w \in Workers, WorkerInv(worker[w]), Next,
         \/ \E j \in Jobs : FetchPending(w, j)
         \/ GetJob(w) \/ MarkRunning(w) \/ MarkDispatched(w)
         \/ ListKeys(w) \/ CompleteDeletion(w)
         \/ \E d \in Docs : DeleteObject(w, d)
         \/ FetchWorkspace(w) \/ FetchDocuments(w) \/ Upload(w) \/ CompleteExport(w)
         \/ \E d \in Docs : Download(w, d)
         \/ \E j \in Deletions : FetchUnverified(w, j)
         \/ CountRows(w) \/ ListPrefix(w) \/ RecordVerification(w)
         \/ CallFails(w) \/ Crash(w)
  PROVE  Typed'
<1>t. RowsTyped /\ StoreTyped /\ HistoryTyped /\ WorkersTyped /\ faults \in 0 .. MaxFaults
  BY DEF Typed
<1>w. PICK r \in Worker : r = worker[w] BY <1>t DEF WorkersTyped
<1>f. /\ r.pc # "idle" => r.job \in Jobs
      /\ r.keys \in SUBSET Docs /\ r.files \in SUBSET Docs /\ r.clean \in BOOLEAN
  BY <1>w DEF WorkerInv, Worker
<1>m. MaxFaults \in Nat BY LifecycleAssumption
<1>1. ASSUME NEW j \in Jobs, FetchPending(w, j) PROVE Typed'
  BY <1>1, IdleTyped, WorkerFields, OnlyTyped DEF FetchPending
<1>2. CASE GetJob(w)
  <2>1. PICK pc \in {"mark", "run"} :
          pc = IF job[worker[w].job] = "complete" THEN "mark" ELSE "run"
    OBVIOUS
  <2>2. Only(w, [r EXCEPT !.pc = pc]) BY <1>2, <1>w, <2>1 DEF GetJob
  <2>3. [r EXCEPT !.pc = pc] \in Worker BY <1>w, <2>1 DEF Worker
  <2> QED BY <2>2, <2>3, OnlyTyped
<1>3. CASE MarkRunning(w)
  <2>1. PICK j \in Jobs : j = r.job BY <1>3, <1>w, <1>f DEF MarkRunning
  <2>2. job' \in [Jobs -> DeletionJobStatus]
    BY <1>3, <1>t, <1>w, <2>1 DEF MarkRunning, RowsTyped, DeletionJobStatus
  <2>3. PICK pc \in {"list", "fetch"} : pc = IF j \in Deletions THEN "list" ELSE "fetch"
    OBVIOUS
  <2>4. worker' = [worker EXCEPT ![w] = [r EXCEPT !.pc = pc]]
    BY <1>3, <1>w, <2>1, <2>3 DEF MarkRunning, Goto, Becomes
  <2>5. [r EXCEPT !.pc = pc] \in Worker BY <2>3 DEF Worker
  <2>6. WorkersTyped' BY <1>t, <2>4, <2>5 DEF WorkersTyped
  <2> QED
    BY <1>3, <1>t, <2>2, <2>6
    DEF Typed, MarkRunning, store, history, RowsTyped, StoreTyped, HistoryTyped
<1>4. CASE MarkDispatched(w)
  <2>1. PICK j \in Jobs : j = worker[w].job BY <1>4, <1>w, <1>f DEF MarkDispatched
  <2>2. outbox' \in [Jobs -> OutboxEntry]
    BY <1>4, <1>t, <2>1, OutboxTyped DEF MarkDispatched, RowsTyped
  <2>3. WorkersTyped' BY <1>4, <1>t, IdleTyped DEF MarkDispatched, Becomes, WorkersTyped
  <2> QED
    BY <1>4, <1>t, <2>2, <2>3
    DEF Typed, MarkDispatched, store, history, RowsTyped, StoreTyped, HistoryTyped
<1>5. CASE ListKeys(w)
  <2>1. documents \in SUBSET Docs BY <1>t DEF RowsTyped
  <2> QED BY <1>5, <1>w, <2>1, OnlyTyped DEF ListKeys, Worker
<1>6. CASE CompleteDeletion(w)
  <2>1. RowsTyped' BY <1>6, <1>t DEF CompleteDeletion, RowsTyped, DeletionJobStatus
  <2>2. worker' = [worker EXCEPT ![w] = [r EXCEPT !.pc = "mark"]]
    BY <1>6, <1>w DEF CompleteDeletion, Goto, Becomes
  <2>3. [r EXCEPT !.pc = "mark"] \in Worker BY DEF Worker
  <2>4. WorkersTyped' BY <1>t, <2>2, <2>3 DEF WorkersTyped
  <2> QED
    BY <1>6, <1>t, <2>1, <2>4
    DEF Typed, CompleteDeletion, store, history, StoreTyped, HistoryTyped
<1>7. ASSUME NEW d \in Docs, DeleteObject(w, d) PROVE Typed'
  <2>1. PICK keys \in SUBSET Docs : keys = r.keys \ {d} BY <1>f
  <2>2. worker' = [worker EXCEPT ![w] = [r EXCEPT !.keys = keys]]
    BY <1>7, <1>w, <2>1 DEF DeleteObject, Becomes
  <2>3. [r EXCEPT !.keys = keys] \in Worker BY DEF Worker
  <2>4. WorkersTyped' BY <1>t, <2>2, <2>3 DEF WorkersTyped
  <2> QED
    BY <1>7, <1>t, <2>4
    DEF Typed, DeleteObject, RemoveObject, rows, history, RowsTyped, StoreTyped, HistoryTyped
<1>8. CASE FetchWorkspace(w)
  <2>1. CASE Only(w, [worker[w] EXCEPT !.pc = "select"])
    <3>1. [r EXCEPT !.pc = "select"] \in Worker BY DEF Worker
    <3> QED BY <1>w, <2>1, <3>1, OnlyTyped
  <2>2. CASE AttemptFailed(w) /\ UNCHANGED faults
    BY <1>8, <1>f, <1>t, <1>w, <2>2, AttemptFailedTyped DEF FetchWorkspace
  <2> QED BY <1>8, <2>1, <2>2 DEF FetchWorkspace
<1>18. CASE FetchDocuments(w)
  <2>1. documents \in SUBSET Docs BY <1>t DEF RowsTyped
  <2> QED BY <1>18, <1>w, <2>1, OnlyTyped DEF FetchDocuments, Worker
<1>9. CASE Upload(w)
  <2>1. PICK e \in Exports, files \in SUBSET Docs : e = worker[w].job /\ files = r.files
    BY <1>9, <1>f, <1>w DEF Upload, WorkerInv
  <2>2. archives' = [archives EXCEPT ![e] = files]
    BY <1>9, <1>w, <2>1 DEF Upload, UploadArchive, BuildArchive
  <2>3. worker' = [worker EXCEPT ![w] = [r EXCEPT !.pc = "finish"]]
    BY <1>9, <1>w DEF Upload, Goto, Becomes
  <2>4. [r EXCEPT !.pc = "finish"] \in Worker BY DEF Worker
  <2>5. WorkersTyped' BY <1>t, <2>3, <2>4 DEF WorkersTyped
  <2>6. StoreTyped' BY <1>9, <1>t, <2>2 DEF Upload, StoreTyped
  <2> QED
    BY <1>9, <1>t, <2>5, <2>6
    DEF Typed, Upload, rows, history, RowsTyped, HistoryTyped
<1>10. CASE CompleteExport(w)
  <2>1. PICK j \in Jobs : j = worker[w].job BY <1>10, <1>f, <1>w DEF CompleteExport
  <2>2. job' \in [Jobs -> DeletionJobStatus]
    BY <1>10, <1>t, <2>1 DEF CompleteExport, RowsTyped, DeletionJobStatus
  <2>3. worker' = [worker EXCEPT ![w] = [r EXCEPT !.pc = "mark"]]
    BY <1>10, <1>w DEF CompleteExport, Goto, Becomes
  <2>4. [r EXCEPT !.pc = "mark"] \in Worker BY DEF Worker
  <2>5. WorkersTyped' BY <1>t, <2>3, <2>4 DEF WorkersTyped
  <2> QED
    BY <1>10, <1>t, <2>2, <2>5
    DEF Typed, CompleteExport, store, history, RowsTyped, StoreTyped, HistoryTyped
<1>11. ASSUME NEW d \in Docs, Download(w, d) PROVE Typed'
  <2>1. PICK keys \in SUBSET Docs, files \in SUBSET Docs :
          keys = r.keys \ {d} /\ files = r.files \cup {d}
    BY <1>f
  <2>2. CASE Only(w, [worker[w] EXCEPT !.keys = @ \ {d}, !.files = @ \cup {d}])
    <3>1. [r EXCEPT !.keys = keys, !.files = files] \in Worker BY DEF Worker
    <3>2. Only(w, [r EXCEPT !.keys = keys, !.files = files]) BY <1>w, <2>1, <2>2
    <3> QED BY <3>1, <3>2, OnlyTyped
  <2>3. CASE AttemptFailed(w) /\ UNCHANGED faults
    BY <1>11, <1>f, <1>t, <1>w, <2>3, AttemptFailedTyped DEF Download
  <2> QED BY <1>11, <2>2, <2>3 DEF Download
<1>12. ASSUME NEW j \in Deletions, FetchUnverified(w, j) PROVE Typed'
  <2>1. [Idle EXCEPT !.pc = "count", !.job = j] \in Worker
    BY IdleTyped DEF Jobs, Worker
  <2> QED BY <1>12, <2>1, OnlyTyped DEF FetchUnverified
<1>13. CASE CountRows(w)
  <2>1. PICK clean \in BOOLEAN : clean <=> ~ ResidualRows OBVIOUS
  <2>2. [worker[w] EXCEPT !.pc = "prefix", !.clean = ~ ResidualRows] \in Worker
    BY <1>w, <2>1 DEF Worker
  <2> QED BY <1>13, <2>2, OnlyTyped DEF CountRows
<1>14. CASE ListPrefix(w)
  <2>1. [worker[w] EXCEPT !.pc = "record", !.clean = @ /\ PrefixEmpty] \in Worker
    BY <1>w DEF Worker
  <2> QED BY <1>14, <2>1, OnlyTyped DEF ListPrefix
<1>15. CASE RecordVerification(w)
  <2>1. verified' \in [Deletions -> Verification]
    BY <1>15, <1>t DEF RecordVerification, RowsTyped, Verification
  <2>2. WorkersTyped' BY <1>15, <1>t, IdleTyped DEF RecordVerification, Becomes, WorkersTyped
  <2> QED
    BY <1>15, <1>t, <2>1, <2>2
    DEF Typed, RecordVerification, store, history, RowsTyped, StoreTyped, HistoryTyped
<1>16. CASE CallFails(w)
  <2>1. r.job \in Jobs BY <1>16, <1>f, <1>w DEF CallFails
  <2>2. faults' \in 0 .. MaxFaults BY <1>16, <1>t, <1>m DEF CallFails
  <2> QED BY <1>16, <1>w, <2>1, <2>2, AttemptFailedTyped DEF CallFails
<1>17. CASE Crash(w)
  <2>1. faults' \in 0 .. MaxFaults BY <1>17, <1>t, <1>m DEF Crash
  <2>2. WorkersTyped' BY <1>17, <1>t, IdleTyped DEF Crash, Becomes, WorkersTyped
  <2> QED
    BY <1>17, <1>t, <2>1, <2>2
    DEF Typed, Crash, rows, store, history, RowsTyped, StoreTyped, HistoryTyped
<1> QED
  BY <1>1, <1>2, <1>3, <1>4, <1>5, <1>6, <1>7, <1>8, <1>9, <1>10, <1>11, <1>12,
     <1>13, <1>14, <1>15, <1>16, <1>17, <1>18

-----------------------------------------------------------------------------
(* The invariant.                                                          *)

LEMMA InvInit == Init => LifecycleInv
<1> SUFFICES ASSUME Init PROVE LifecycleInv OBVIOUS
<1>1. \A w \in Workers : WorkerInv(worker[w]) BY DEF Init, Idle, WorkerInv
<1>2. RequestInv BY DEF Init, RequestInv, Jobs
<1>3. NothingLeftBehind /\ VerifiedMeansPurged /\ ArchiveWhole
  BY DEF Init, NothingLeftBehind, VerifiedMeansPurged, ArchiveWhole, Jobs
<1> QED BY <1>1, <1>2, <1>3 DEF LifecycleInv

(***************************************************************************)
(* What a step, whoever takes it, leaves a worker that takes no part: once *)
(* the workspace is closed, a new object is one that was PUT since; what a *)
(* request found is never rewritten; nothing brings a workspace back.      *)
(***************************************************************************)
Undisturbed ==
  /\ workspace # "active" => objects' \subseteq objects \cup put'
  /\ put \subseteq put'
  /\ \A j \in Jobs : outbox[j].event => outbox'[j].event /\ had'[j] = had[j]
  /\ workspace # "active" => \A j \in Deletions : had'[j] = had[j]
  /\ \A e \in Exports : archives[e] # {None} => archives'[e] # {None}
  /\ workspace = "gone" => workspace' = "gone"

LEMMA WorkerUndisturbed ==
  ASSUME RequestInv, Undisturbed, NEW r, WorkerInv(r)
  PROVE  WorkerInv(r)'
<1>1. ASSUME r.pc \in {"list", "delete"} PROVE workspace # "active"
  BY <1>1 DEF WorkerInv, RequestInv
<1>2. r.pc = "delete" => \A j \in Deletions : objects' \cap had'[j] \subseteq put' \cup r.keys
  BY <1>1 DEF WorkerInv, Undisturbed
<1>3. r.pc = "download" => workspace' = "gone" \/ had'[r.job] \subseteq r.keys \cup r.files
  BY DEF WorkerInv, Undisturbed
<1>4. r.pc = "record" /\ r.clean => objects' \subseteq put'
  BY DEF WorkerInv, Undisturbed
<1>5. /\ r.pc \in {"get", "run", "list", "delete", "fetch", "select", "download", "finish", "mark"}
           => outbox'[r.job].event
      /\ r.pc = "finish" => archives'[r.job] # {None}
      /\ r.pc \in {"prefix", "record"} /\ r.clean => workspace' = "gone"
  BY DEF WorkerInv, Undisturbed
<1> QED BY <1>2, <1>3, <1>4, <1>5 DEF WorkerInv

\* A step of w is undisturbed by the others if its own record is consistent.
LEMMA WorkersKeep ==
  ASSUME RequestInv, Undisturbed, \A v \in Workers : WorkerInv(worker[v]),
         NEW w \in Workers, NEW r, worker \in [Workers -> Worker],
         worker' = [worker EXCEPT ![w] = r], WorkerInv(r)'
  PROVE  \A v \in Workers : WorkerInv(worker[v])'
<1> SUFFICES ASSUME NEW v \in Workers PROVE WorkerInv(worker[v])' OBVIOUS
<1>1. CASE v = w
  <2>1. worker'[v] = r BY <1>1
  <2> QED BY <2>1 DEF WorkerInv
<1>2. CASE v # w
  <2>1. PICK x : x = worker[v] OBVIOUS
  <2>2. worker'[v] = x BY <1>2, <2>1
  <2>3. WorkerInv(x)' BY <2>1, WorkerUndisturbed
  <2> QED BY <2>2, <2>3 DEF WorkerInv
<1> QED BY <1>1, <1>2

LEMMA InvIntro ==
  ASSUME (\A w \in Workers : WorkerInv(worker[w]))', RequestInv',
         NothingLeftBehind', VerifiedMeansPurged', ArchiveWhole'
  PROVE  LifecycleInv'
BY DEF LifecycleInv

\* A step that touches no row, no object and no history keeps all but the
\* record of its worker.
LEMMA OnlyKeeps ==
  ASSUME Typed, LifecycleInv, NEW w \in Workers, NEW r, Only(w, r), WorkerInv(r)
  PROVE  LifecycleInv'
<1>1. Undisturbed
  BY DEF Only, rows, store, history, Undisturbed
<1>2. RequestInv' /\ NothingLeftBehind' /\ VerifiedMeansPurged' /\ ArchiveWhole'
  BY DEF Only, rows, store, history, LifecycleInv, RequestInv, NothingLeftBehind,
         VerifiedMeansPurged, ArchiveWhole
<1>3. WorkerInv(r)' BY <1>1, WorkerUndisturbed DEF LifecycleInv
<1>4. \A v \in Workers : WorkerInv(worker[v])'
  BY <1>1, <1>3, WorkersKeep DEF LifecycleInv, Typed, WorkersTyped, Only, Becomes
<1> QED BY <1>2, <1>4, InvIntro

LEMMA IdleConsistent == WorkerInv(Idle)
BY DEF Idle, WorkerInv

\* Neither does an attempt that fails, nor a crash.
LEMMA AttemptFailedKeeps ==
  ASSUME Typed, LifecycleInv, NEW w \in Workers, worker[w].job \in Jobs,
         AttemptFailed(w)
  PROVE  LifecycleInv'
<1>1. PICK j \in Jobs : j = worker[w].job OBVIOUS
<1>2. \A k \in Jobs : outbox'[k].event = outbox[k].event
  BY <1>1 DEF AttemptFailed, Typed, RowsTyped, OutboxEntry
<1>3. Undisturbed BY <1>2 DEF AttemptFailed, store, history, Undisturbed
<1>4. RequestInv' /\ NothingLeftBehind' /\ VerifiedMeansPurged' /\ ArchiveWhole'
  BY <1>2 DEF AttemptFailed, store, history, LifecycleInv, RequestInv,
              NothingLeftBehind, VerifiedMeansPurged, ArchiveWhole, Jobs
<1>5. WorkerInv(Idle)' BY DEF Idle, WorkerInv
<1>6. PICK r : r = Idle OBVIOUS
<1>7. WorkerInv(r)' BY <1>5, <1>6
<1>8. \A v \in Workers : WorkerInv(worker[v])'
  BY <1>3, <1>6, <1>7, WorkersKeep
  DEF LifecycleInv, Typed, WorkersTyped, AttemptFailed, Becomes
<1> QED BY <1>4, <1>8, InvIntro

\* Requests.
LEMMA RequestKeeps ==
  ASSUME Typed, LifecycleInv,
         \/ \E d \in Docs : Put(d) \/ Confirm(d)
         \/ \E j \in Deletions : DeleteWorkspace(j)
         \/ \E e \in Exports : ExportWorkspace(e)
  PROVE  LifecycleInv'
<1>i. /\ \A w \in Workers : WorkerInv(worker[w])
      /\ RequestInv /\ NothingLeftBehind /\ VerifiedMeansPurged /\ ArchiveWhole
  BY DEF LifecycleInv
<1>t. /\ outbox \in [Jobs -> OutboxEntry] /\ had \in [Jobs -> SUBSET Docs]
      /\ job \in [Jobs -> DeletionJobStatus] /\ workspace \in {"active", "deleted", "gone"}
  BY DEF Typed, RowsTyped, HistoryTyped
<1>d. Deletions \cap Exports = {} BY LifecycleAssumption
<1>w. ASSUME Undisturbed, worker' = worker
      PROVE  \A w \in Workers : WorkerInv(worker[w])'
  <2> SUFFICES ASSUME NEW w \in Workers PROVE WorkerInv(worker[w])' OBVIOUS
  <2>1. PICK r : r = worker[w] OBVIOUS
  <2>2. WorkerInv(r)' BY <1>i, <1>w, <2>1, WorkerUndisturbed
  <2> QED BY <1>w, <2>1, <2>2 DEF WorkerInv
<1>1. ASSUME NEW d \in Docs, Put(d) PROVE LifecycleInv'
  <2>1. Undisturbed BY <1>1 DEF Put, rows, Undisturbed
  <2>2. RequestInv' /\ ArchiveWhole'
    BY <1>i, <1>1 DEF Put, rows, RequestInv, ArchiveWhole
  <2>3. NothingLeftBehind' /\ VerifiedMeansPurged'
    BY <1>i, <1>1 DEF Put, rows, NothingLeftBehind, VerifiedMeansPurged
  <2>4. worker' = worker BY <1>1 DEF Put
  <2>5. \A w \in Workers : WorkerInv(worker[w])' BY <1>w, <2>1, <2>4
  <2> QED BY <2>2, <2>3, <2>5, InvIntro
<1>2. ASSUME NEW d \in Docs, Confirm(d) PROVE LifecycleInv'
  <2>1. Undisturbed BY <1>2 DEF Confirm, store, history, Undisturbed
  <2>2. RequestInv' /\ NothingLeftBehind' /\ VerifiedMeansPurged' /\ ArchiveWhole'
    BY <1>i, <1>2 DEF Confirm, store, history, RequestInv, NothingLeftBehind,
                      VerifiedMeansPurged, ArchiveWhole
  <2>3. worker' = worker BY <1>2 DEF Confirm
  <2>4. \A w \in Workers : WorkerInv(worker[w])' BY <1>w, <2>1, <2>3
  <2> QED BY <2>2, <2>4, InvIntro
<1>3. ASSUME NEW j \in Deletions, DeleteWorkspace(j) PROVE LifecycleInv'
  <2>a. j \in Jobs /\ j \notin Exports BY <1>d DEF Jobs
  <2>b. /\ workspace # "gone" /\ workspace' = "deleted" /\ ~ outbox[j].event
        /\ had' = [had EXCEPT ![j] = IF workspace = "active" THEN documents ELSE @]
        /\ outbox' = [outbox EXCEPT ![j].event = TRUE]
        /\ job' = [job EXCEPT ![j] = "queued"]
        /\ UNCHANGED <<documents, verified, objects, archives, worker, put>>
    BY <1>3 DEF DeleteWorkspace, RequestDeletion, Scoped, SoftDelete, CreateDeletionJob,
                Enqueue, store
  <2>c. \A k \in Jobs : k # j => outbox'[k] = outbox[k] /\ had'[k] = had[k] /\ job'[k] = job[k]
    BY <1>t, <2>a, <2>b
  <2>e. outbox'[j].event BY <1>t, <2>a, <2>b DEF OutboxEntry
  <2>f. had'[j] = IF workspace = "active" THEN documents ELSE had[j]
    BY <1>t, <2>a, <2>b
  <2>1. Undisturbed BY <2>a, <2>b, <2>c, <2>e, <2>f DEF Undisturbed, Jobs
  <2>2. RequestInv'
    BY <1>i, <2>a, <2>b, <2>c, <2>e, <2>f DEF RequestInv, Jobs
  <2>3. NothingLeftBehind' BY <2>b DEF NothingLeftBehind
  <2>4. VerifiedMeansPurged' BY <1>i, <2>b DEF VerifiedMeansPurged
  <2>5. ArchiveWhole' BY <1>i, <2>a, <2>b, <2>c DEF ArchiveWhole, Jobs
  <2>6. \A w \in Workers : WorkerInv(worker[w])' BY <1>w, <2>1, <2>b
  <2> QED BY <2>2, <2>3, <2>4, <2>5, <2>6, InvIntro
<1>4. ASSUME NEW e \in Exports, ExportWorkspace(e) PROVE LifecycleInv'
  <2>a. e \in Jobs /\ e \notin Deletions BY <1>d DEF Jobs
  <2>b. /\ workspace # "gone" /\ ~ outbox[e].event
        /\ had' = [had EXCEPT ![e] = documents]
        /\ outbox' = [outbox EXCEPT ![e].event = TRUE]
        /\ job' = [job EXCEPT ![e] = "queued"]
        /\ UNCHANGED <<workspace, documents, verified, objects, archives, worker, put>>
    BY <1>4 DEF ExportWorkspace, RequestExport, Scoped, CreateExportJob, Enqueue, store
  <2>c. \A k \in Jobs : k # e => outbox'[k] = outbox[k] /\ had'[k] = had[k] /\ job'[k] = job[k]
    BY <1>t, <2>a, <2>b
  <2>e. outbox'[e].event /\ had'[e] = documents /\ job'[e] = "queued"
    BY <1>t, <2>a, <2>b DEF OutboxEntry
  <2>1. Undisturbed BY <2>a, <2>b, <2>c, <2>e DEF Undisturbed, Jobs
  <2>2. RequestInv'
    BY <1>i, <2>a, <2>b, <2>c, <2>e DEF RequestInv, Jobs
  <2>3. NothingLeftBehind' BY <2>b DEF NothingLeftBehind
  <2>4. VerifiedMeansPurged' BY <1>i, <2>b DEF VerifiedMeansPurged
  <2>5. ArchiveWhole'
    <3>1. archives[e] = {None} BY <1>i, <2>b DEF RequestInv
    <3> QED BY <1>i, <2>b, <2>c, <2>e, <3>1 DEF ArchiveWhole, Jobs
  <2>6. \A w \in Workers : WorkerInv(worker[w])' BY <1>w, <2>1, <2>b
  <2> QED BY <2>2, <2>3, <2>4, <2>5, <2>6, InvIntro
<1> QED BY <1>1, <1>2, <1>3, <1>4

\* The dispatch of an event, and the purge.
LEMMA PurgeKeeps ==
  ASSUME Typed, LifecycleInv, NEW w \in Workers,
         \/ \E j \in Jobs : FetchPending(w, j)
         \/ GetJob(w) \/ MarkRunning(w) \/ MarkDispatched(w)
         \/ ListKeys(w) \/ CompleteDeletion(w)
         \/ \E d \in Docs : DeleteObject(w, d)
  PROVE  LifecycleInv'
<1>i. /\ \A v \in Workers : WorkerInv(worker[v])
      /\ RequestInv /\ NothingLeftBehind /\ VerifiedMeansPurged /\ ArchiveWhole
  BY DEF LifecycleInv
<1>t. /\ worker \in [Workers -> Worker] /\ outbox \in [Jobs -> OutboxEntry]
      /\ job \in [Jobs -> DeletionJobStatus]
  BY DEF Typed, RowsTyped, WorkersTyped
<1>w. PICK r \in Worker : r = worker[w] BY <1>t
<1>r. WorkerInv(r) BY <1>i, <1>w
<1>d. Deletions \cap Exports = {} BY LifecycleAssumption
<1>1. ASSUME NEW j \in Jobs, FetchPending(w, j) PROVE LifecycleInv'
  <2>1. PICK x : x = [Idle EXCEPT !.pc = "get", !.job = j] OBVIOUS
  <2>2. x.pc = "get" /\ x.job = j BY <2>1 DEF Idle
  <2>3. WorkerInv(x) BY <1>1, <2>2 DEF FetchPending, Pending, WorkerInv
  <2> QED BY <1>1, <2>1, <2>3, OnlyKeeps DEF FetchPending
<1>2. CASE GetJob(w)
  <2>1. PICK x : x = [r EXCEPT !.pc = IF job[r.job] = "complete" THEN "mark" ELSE "run"]
    OBVIOUS
  <2>2. x.pc \in {"mark", "run"} /\ x.job = r.job BY <2>1 DEF Worker
  <2>3. WorkerInv(x) BY <1>2, <1>r, <1>w, <2>2 DEF GetJob, WorkerInv
  <2> QED BY <1>2, <1>w, <2>1, <2>3, OnlyKeeps DEF GetJob
<1>3. CASE MarkRunning(w)
  <2>1. PICK j \in Jobs : j = r.job BY <1>3, <1>r, <1>w DEF MarkRunning, WorkerInv
  <2>2. PICK x : x = [r EXCEPT !.pc = IF j \in Deletions THEN "list" ELSE "fetch"]
    OBVIOUS
  <2>3. worker' = [worker EXCEPT ![w] = x]
    BY <1>3, <1>w, <2>1, <2>2 DEF MarkRunning, Goto, Becomes
  <2>4. /\ job' = [job EXCEPT ![j] = IF @ = "queued" THEN "running" ELSE @]
        /\ UNCHANGED <<workspace, documents, outbox, verified, objects, archives, had, put>>
    BY <1>3, <1>w, <2>1 DEF MarkRunning, store, history
  <2>5. \A k \in Jobs : job'[k] = "complete" => job[k] = "complete"
    BY <1>t, <2>4
  <2>6. Undisturbed BY <2>4 DEF Undisturbed
  <2>7. RequestInv' /\ NothingLeftBehind' /\ VerifiedMeansPurged' /\ ArchiveWhole'
    BY <1>i, <2>4, <2>5 DEF RequestInv, NothingLeftBehind, VerifiedMeansPurged,
                            ArchiveWhole, Jobs
  <2>8. x.pc = (IF j \in Deletions THEN "list" ELSE "fetch") /\ x.job = j
    BY <2>1, <2>2 DEF Worker
  <2>9. outbox[j].event BY <1>3, <1>r, <1>w, <2>1 DEF MarkRunning, WorkerInv
  <2>10. WorkerInv(x)' BY <2>4, <2>8, <2>9 DEF WorkerInv, Jobs
  <2>11. \A v \in Workers : WorkerInv(worker[v])'
    BY <1>i, <1>t, <2>3, <2>6, <2>10, WorkersKeep
  <2> QED BY <2>7, <2>11, InvIntro
<1>4. CASE MarkDispatched(w)
  <2>1. PICK j \in Jobs : j = worker[w].job
    BY <1>4, <1>r, <1>w DEF MarkDispatched, WorkerInv
  <2>2. \A k \in Jobs : outbox'[k].event = outbox[k].event
    BY <1>4, <1>t, <2>1 DEF MarkDispatched, OutboxEntry
  <2>3. /\ UNCHANGED <<workspace, documents, job, verified, objects, archives, had, put>>
        /\ worker' = [worker EXCEPT ![w] = Idle]
    BY <1>4 DEF MarkDispatched, store, history, Becomes
  <2>4. Undisturbed BY <2>2, <2>3 DEF Undisturbed
  <2>5. RequestInv' /\ NothingLeftBehind' /\ VerifiedMeansPurged' /\ ArchiveWhole'
    BY <1>i, <2>2, <2>3 DEF RequestInv, NothingLeftBehind, VerifiedMeansPurged,
                            ArchiveWhole, Jobs
  <2>6. PICK x : x = Idle OBVIOUS
  <2>7. WorkerInv(x)' BY <2>6 DEF Idle, WorkerInv
  <2>8. \A v \in Workers : WorkerInv(worker[v])'
    BY <1>i, <1>t, <2>3, <2>4, <2>6, <2>7, WorkersKeep
  <2> QED BY <2>5, <2>8, InvIntro
\* The documents listed cover what a deletion request found: they are still
\* rows, unless the workspace is gone, and then nothing is left of them.
<1>5. CASE ListKeys(w)
  <2>1. PICK x : x = [r EXCEPT !.pc = "delete", !.keys = documents] OBVIOUS
  <2>2. x.pc = "delete" /\ x.job = r.job /\ x.keys = documents BY <2>1 DEF Worker
  <2>3. r.job \in Deletions /\ outbox[r.job].event
    BY <1>5, <1>r, <1>w DEF ListKeys, WorkerInv
  <2>4. \A j \in Deletions : objects \cap had[j] \subseteq put \cup documents
    BY <1>i DEF RequestInv, NothingLeftBehind, Jobs
  <2>5. WorkerInv(x) BY <2>2, <2>3, <2>4 DEF WorkerInv, Jobs
  <2> QED BY <1>5, <1>w, <2>1, <2>5, OnlyKeeps DEF ListKeys
<1>6. CASE CompleteDeletion(w)
  <2>1. /\ r.pc = "delete" /\ r.keys = {} /\ workspace' = "gone"
        /\ job' = [j \in Jobs |-> IF j = r.job THEN "complete"
                                  ELSE IF j \in Exports THEN "none" ELSE job[j]]
        /\ UNCHANGED <<outbox, verified, objects, archives, had, put>>
    BY <1>6, <1>w DEF CompleteDeletion, store, history
  <2>2. r.job \in Deletions /\ r.job \in Jobs /\ outbox[r.job].event
    BY <1>r, <2>1 DEF WorkerInv
  <2>3. PICK x : x = [r EXCEPT !.pc = "mark"] OBVIOUS
  <2>4. worker' = [worker EXCEPT ![w] = x]
    BY <1>6, <1>w, <2>3 DEF CompleteDeletion, Goto, Becomes
  <2>5. Undisturbed BY <2>1 DEF Undisturbed
  <2>a. \A e \in Exports : job'[e] = "none" BY <1>d, <2>1, <2>2 DEF Jobs
  <2>6. RequestInv' BY <1>i, <2>1, <2>a DEF RequestInv
  <2>7. NothingLeftBehind' BY <1>r, <2>1 DEF NothingLeftBehind, WorkerInv
  <2>8. VerifiedMeansPurged' BY <1>i, <2>1 DEF VerifiedMeansPurged
  <2>9. ArchiveWhole' BY <2>1, <2>a DEF ArchiveWhole
  <2>10. x.pc = "mark" /\ x.job = r.job BY <2>3 DEF Worker
  <2>11. WorkerInv(x)' BY <2>1, <2>2, <2>10 DEF WorkerInv
  <2>12. \A v \in Workers : WorkerInv(worker[v])'
    BY <1>i, <1>t, <2>4, <2>5, <2>11, WorkersKeep
  <2> QED BY <2>6, <2>7, <2>8, <2>9, <2>12, InvIntro
<1>7. ASSUME NEW d \in Docs, DeleteObject(w, d) PROVE LifecycleInv'
  <2>1. /\ r.pc = "delete" /\ objects' = objects \ {d}
        /\ UNCHANGED <<workspace, documents, job, outbox, verified, archives, had, put>>
    BY <1>7, <1>w DEF DeleteObject, RemoveObject, rows, history
  <2>2. PICK x : x = [r EXCEPT !.keys = r.keys \ {d}] OBVIOUS
  <2>3. worker' = [worker EXCEPT ![w] = x]
    BY <1>7, <1>w, <2>2 DEF DeleteObject, Becomes
  <2>4. Undisturbed BY <2>1 DEF Undisturbed
  <2>5. RequestInv' /\ NothingLeftBehind' /\ VerifiedMeansPurged' /\ ArchiveWhole'
    BY <1>i, <2>1 DEF RequestInv, NothingLeftBehind, VerifiedMeansPurged, ArchiveWhole
  <2>6. x.pc = "delete" /\ x.job = r.job /\ x.keys = r.keys \ {d}
    BY <2>1, <2>2 DEF Worker
  <2>7. \A j \in Deletions : objects' \cap had'[j] \subseteq put' \cup x.keys
    BY <1>r, <2>1, <2>6 DEF WorkerInv
  <2>8. WorkerInv(x)' BY <1>r, <2>1, <2>6, <2>7 DEF WorkerInv
  <2>9. \A v \in Workers : WorkerInv(worker[v])'
    BY <1>i, <1>t, <2>3, <2>4, <2>8, WorkersKeep
  <2> QED BY <2>5, <2>9, InvIntro
<1> QED BY <1>1, <1>2, <1>3, <1>4, <1>5, <1>6, <1>7

\* The export.
LEMMA ExportKeeps ==
  ASSUME Typed, LifecycleInv, NEW w \in Workers,
         \/ FetchWorkspace(w) \/ FetchDocuments(w) \/ Upload(w) \/ CompleteExport(w)
         \/ \E d \in Docs : Download(w, d)
  PROVE  LifecycleInv'
<1>i. /\ \A v \in Workers : WorkerInv(worker[v])
      /\ RequestInv /\ NothingLeftBehind /\ VerifiedMeansPurged /\ ArchiveWhole
  BY DEF LifecycleInv
<1>t. /\ worker \in [Workers -> Worker] /\ job \in [Jobs -> DeletionJobStatus]
      /\ archives \in [Exports -> (SUBSET Docs) \cup {{None}}]
  BY DEF Typed, RowsTyped, StoreTyped, WorkersTyped
<1>w. PICK r \in Worker : r = worker[w] BY <1>t
<1>r. WorkerInv(r) BY <1>i, <1>w
<1>1. CASE FetchWorkspace(w)
  <2>1. CASE AttemptFailed(w)
    <3>1. worker[w].job \in Jobs BY <1>1, <1>r, <1>w DEF FetchWorkspace, WorkerInv
    <3> QED BY <2>1, <3>1, AttemptFailedKeeps
  <2>2. CASE Only(w, [worker[w] EXCEPT !.pc = "select"])
    <3>1. PICK x : x = [r EXCEPT !.pc = "select"] OBVIOUS
    <3>2. x.pc = "select" /\ x.job = r.job BY <3>1 DEF Worker
    <3>3. WorkerInv(x) BY <1>1, <1>r, <1>w, <3>2 DEF FetchWorkspace, WorkerInv
    <3> QED BY <1>w, <2>2, <3>1, <3>3, OnlyKeeps
  <2> QED BY <1>1, <2>1, <2>2 DEF FetchWorkspace
\* The rows have the documents of the request, or a purge has taken them all.
<1>5. CASE FetchDocuments(w)
  <2>1. PICK x : x = [r EXCEPT !.pc = "download", !.keys = documents] OBVIOUS
  <2>2. x.pc = "download" /\ x.job = r.job /\ x.keys = documents
    BY <2>1 DEF Worker
  <2>3. r.job \in Exports /\ r.job \in Jobs /\ outbox[r.job].event
    BY <1>5, <1>r, <1>w DEF FetchDocuments, WorkerInv
  <2>4. workspace = "gone" \/ had[r.job] \subseteq documents
    BY <1>i, <2>3 DEF RequestInv
  <2>5. WorkerInv(x) BY <2>2, <2>3, <2>4 DEF WorkerInv
  <2> QED BY <1>5, <1>w, <2>1, <2>5, OnlyKeeps DEF FetchDocuments
<1>2. ASSUME NEW d \in Docs, Download(w, d) PROVE LifecycleInv'
  <2>1. CASE AttemptFailed(w)
    <3>1. worker[w].job \in Jobs BY <1>2, <1>r, <1>w DEF Download, WorkerInv
    <3> QED BY <2>1, <3>1, AttemptFailedKeeps
  <2>2. CASE Only(w, [worker[w] EXCEPT !.keys = @ \ {d}, !.files = @ \cup {d}])
    <3>1. PICK x : x = [r EXCEPT !.keys = r.keys \ {d}, !.files = r.files \cup {d}]
      OBVIOUS
    <3>2. /\ r.pc = "download" /\ x.pc = "download" /\ x.job = r.job
          /\ x.keys = r.keys \ {d} /\ x.files = r.files \cup {d}
      BY <1>2, <1>w, <3>1 DEF Worker, Download
    <3>3. WorkerInv(x) BY <1>r, <3>2 DEF WorkerInv
    <3>4. Only(w, x) BY <1>w, <2>2, <3>1
    <3> QED BY <3>3, <3>4, OnlyKeeps
  <2> QED BY <1>2, <2>1, <2>2 DEF Download
\* An archive is built when everything has been downloaded, and {None}, the
\* sign that there is none, is not one.
<1>3. CASE Upload(w)
  <2>1. /\ r.pc = "download" /\ r.keys = {}
        /\ UNCHANGED <<workspace, documents, job, outbox, verified, objects, had, put>>
    BY <1>3, <1>w DEF Upload, rows, history
  <2>2. PICK e \in Exports, files \in SUBSET Docs : e = r.job /\ files = r.files
    BY <1>r, <2>1 DEF WorkerInv, Worker
  <2>3. archives' = [archives EXCEPT ![e] = files]
    BY <1>3, <1>w, <2>2 DEF Upload, UploadArchive, BuildArchive
  <2>4. /\ workspace = "gone" \/ had[e] \subseteq files
        /\ outbox[e].event /\ e \in Jobs
    BY <1>r, <2>1, <2>2 DEF WorkerInv
  <2>5. files # {None} BY LifecycleAssumption
  <2>6. /\ archives'[e] = files
        /\ \A f \in Exports : f # e => archives'[f] = archives[f]
    BY <1>t, <2>3
  <2>7. Undisturbed BY <2>1, <2>5, <2>6 DEF Undisturbed
  <2>8. RequestInv' BY <1>i, <2>1, <2>4, <2>6 DEF RequestInv
  <2>9. NothingLeftBehind' /\ VerifiedMeansPurged'
    BY <1>i, <2>1 DEF NothingLeftBehind, VerifiedMeansPurged
  <2>10. ArchiveWhole'
    <3>1. job[e] = "complete" => had[e] \subseteq files BY <1>i, <2>4 DEF RequestInv
    <3> QED BY <1>i, <2>1, <2>4, <2>5, <2>6, <3>1 DEF ArchiveWhole
  <2>11. PICK x : x = [r EXCEPT !.pc = "finish"] OBVIOUS
  <2>12. worker' = [worker EXCEPT ![w] = x]
    BY <1>3, <1>w, <2>11 DEF Upload, Goto, Becomes
  <2>13. x.pc = "finish" /\ x.job = e BY <2>2, <2>11 DEF Worker
  <2>14. WorkerInv(x)' BY <2>1, <2>4, <2>5, <2>6, <2>13 DEF WorkerInv
  <2>15. \A v \in Workers : WorkerInv(worker[v])'
    BY <1>i, <1>t, <2>7, <2>12, <2>14, WorkersKeep
  <2> QED BY <2>8, <2>9, <2>10, <2>15, InvIntro
<1>4. CASE CompleteExport(w)
  <2>1. /\ r.pc = "finish"
        /\ UNCHANGED <<workspace, documents, outbox, verified, objects, archives, had, put>>
    BY <1>4, <1>w DEF CompleteExport, store, history
  <2>2. PICK e \in Exports : e = r.job BY <1>r, <2>1 DEF WorkerInv
  <2>3. archives[e] # {None} /\ outbox[e].event /\ e \in Jobs
    BY <1>r, <2>1, <2>2 DEF WorkerInv
  <2>4. /\ \A k \in Jobs : k # e => job'[k] = job[k]
        /\ workspace = "gone" => job' = job
    BY <1>4, <1>t, <1>w, <2>2 DEF CompleteExport
  <2>5. Undisturbed BY <2>1 DEF Undisturbed
  <2>6. RequestInv' /\ NothingLeftBehind' /\ VerifiedMeansPurged'
    BY <1>i, <2>1, <2>4 DEF RequestInv, NothingLeftBehind, VerifiedMeansPurged
  <2>7. ArchiveWhole' BY <1>i, <2>1, <2>3, <2>4 DEF ArchiveWhole, Jobs
  <2>8. PICK x : x = [r EXCEPT !.pc = "mark"] OBVIOUS
  <2>9. worker' = [worker EXCEPT ![w] = x]
    BY <1>4, <1>w, <2>8 DEF CompleteExport, Goto, Becomes
  <2>10. x.pc = "mark" /\ x.job = e BY <2>2, <2>8 DEF Worker
  <2>11. WorkerInv(x)' BY <2>1, <2>3, <2>10 DEF WorkerInv
  <2>12. \A v \in Workers : WorkerInv(worker[v])'
    BY <1>i, <1>t, <2>5, <2>9, <2>11, WorkersKeep
  <2> QED BY <2>6, <2>7, <2>12, InvIntro
<1> QED BY <1>1, <1>2, <1>3, <1>4, <1>5

\* The verification: between its two looks no object can return that a client
\* has not PUT since.
LEMMA VerificationKeeps ==
  ASSUME Typed, LifecycleInv, NEW w \in Workers,
         \/ \E j \in Deletions : FetchUnverified(w, j)
         \/ CountRows(w) \/ ListPrefix(w) \/ RecordVerification(w)
  PROVE  LifecycleInv'
<1>i. /\ \A v \in Workers : WorkerInv(worker[v])
      /\ RequestInv /\ NothingLeftBehind /\ VerifiedMeansPurged /\ ArchiveWhole
  BY DEF LifecycleInv
<1>t. /\ worker \in [Workers -> Worker] /\ verified \in [Deletions -> Verification]
  BY DEF Typed, RowsTyped, WorkersTyped
<1>w. PICK r \in Worker : r = worker[w] BY <1>t
<1>r. WorkerInv(r) BY <1>i, <1>w
<1>1. ASSUME NEW j \in Deletions, FetchUnverified(w, j) PROVE LifecycleInv'
  <2>1. PICK x : x = [Idle EXCEPT !.pc = "count", !.job = j] OBVIOUS
  <2>2. x.pc = "count" /\ x.job = j BY <2>1 DEF Idle
  <2>3. WorkerInv(x) BY <2>2 DEF WorkerInv, Jobs
  <2> QED BY <1>1, <2>1, <2>3, OnlyKeeps DEF FetchUnverified
<1>2. CASE CountRows(w)
  <2>1. PICK clean \in BOOLEAN : clean <=> ~ ResidualRows OBVIOUS
  <2>2. clean = ~ ResidualRows BY <2>1
  <2>3. PICK x : x = [r EXCEPT !.pc = "prefix", !.clean = clean] OBVIOUS
  <2>4. x.pc = "prefix" /\ x.job = r.job /\ x.clean = clean BY <2>3 DEF Worker
  <2>5. clean => workspace = "gone" BY <2>1 DEF ResidualRows
  <2>6. WorkerInv(x) BY <1>2, <1>r, <1>w, <2>4, <2>5 DEF CountRows, WorkerInv
  <2>7. Only(w, x) BY <1>2, <1>w, <2>2, <2>3 DEF CountRows
  <2> QED BY <2>6, <2>7, OnlyKeeps
<1>3. CASE ListPrefix(w)
  <2>1. PICK clean \in BOOLEAN : clean <=> r.clean /\ PrefixEmpty OBVIOUS
  <2>2. clean = (r.clean /\ PrefixEmpty) BY <2>1
  <2>3. PICK x : x = [r EXCEPT !.pc = "record", !.clean = clean] OBVIOUS
  <2>4. x.pc = "record" /\ x.job = r.job /\ x.clean = clean BY <2>3 DEF Worker
  <2>5. clean => workspace = "gone" /\ objects \subseteq put
    BY <1>3, <1>r, <1>w, <2>1 DEF ListPrefix, PrefixEmpty, WorkerInv
  <2>6. WorkerInv(x) BY <1>3, <1>r, <1>w, <2>4, <2>5 DEF ListPrefix, WorkerInv
  <2>7. Only(w, x) BY <1>3, <1>w, <2>2, <2>3 DEF ListPrefix
  <2> QED BY <2>6, <2>7, OnlyKeeps
<1>4. CASE RecordVerification(w)
  <2>1. /\ r.pc = "record" /\ worker' = [worker EXCEPT ![w] = Idle]
        /\ UNCHANGED <<workspace, documents, job, outbox, objects, archives, had, put>>
    BY <1>4, <1>w DEF RecordVerification, store, history, Becomes
  <2>2. PICK j \in Deletions : j = r.job BY <1>r, <2>1 DEF WorkerInv
  <2>3. \A k \in Deletions : k # j => verified'[k] = verified[k]
    BY <1>4, <1>t, <1>w, <2>2 DEF RecordVerification
  <2>4. verified'[j] = "passed" => r.clean
    BY <1>4, <1>t, <1>w, <2>2 DEF RecordVerification
  <2>5. VerifiedMeansPurged'
    <3>1. r.clean => workspace = "gone" /\ objects \subseteq put
      BY <1>r, <2>1 DEF WorkerInv
    <3> QED BY <1>i, <2>1, <2>3, <2>4, <3>1 DEF VerifiedMeansPurged
  <2>6. Undisturbed BY <2>1 DEF Undisturbed
  <2>7. RequestInv' /\ NothingLeftBehind' /\ ArchiveWhole'
    BY <1>i, <2>1 DEF RequestInv, NothingLeftBehind, ArchiveWhole
  <2>8. PICK x : x = Idle OBVIOUS
  <2>9. WorkerInv(x)' BY <2>8 DEF Idle, WorkerInv
  <2>10. \A v \in Workers : WorkerInv(worker[v])'
    BY <1>i, <1>t, <2>1, <2>6, <2>8, <2>9, WorkersKeep
  <2> QED BY <2>5, <2>7, <2>10, InvIntro
<1> QED BY <1>1, <1>2, <1>3, <1>4

\* Every step keeps the types and the invariant.
LEMMA LifecycleInductive ==
  Typed /\ LifecycleInv /\ [Next]_vars => Typed' /\ LifecycleInv'
<1> SUFFICES ASSUME Typed, LifecycleInv, [Next]_vars PROVE Typed' /\ LifecycleInv'
  OBVIOUS
<1>i. \A w \in Workers : WorkerInv(worker[w]) BY DEF LifecycleInv
<1>1. CASE UNCHANGED vars
  <2>1. Typed'
    BY <1>1 DEF vars, rows, store, history, Typed, RowsTyped, StoreTyped, HistoryTyped,
                WorkersTyped
  <2>2. LifecycleInv'
    BY <1>1 DEF vars, rows, store, history, LifecycleInv, WorkerInv, RequestInv,
                NothingLeftBehind, VerifiedMeansPurged, ArchiveWhole
  <2> QED BY <2>1, <2>2
<1>2. CASE /\ Next
           /\ \/ \E d \in Docs : Put(d) \/ Confirm(d)
              \/ \E j \in Deletions : DeleteWorkspace(j)
              \/ \E e \in Exports : ExportWorkspace(e)
  BY <1>2, RequestTyped, RequestKeeps
<1>3. ASSUME NEW w \in Workers, CallFails(w) \/ Crash(w)
      PROVE  LifecycleInv'
  <2>1. CASE CallFails(w)
    <3>1. worker[w].job \in Jobs BY <1>i, <2>1 DEF CallFails, WorkerInv
    <3> QED BY <2>1, <3>1, AttemptFailedKeeps DEF CallFails
  <2>2. CASE Crash(w)
    <3>1. /\ worker' = [worker EXCEPT ![w] = Idle]
          /\ UNCHANGED <<workspace, documents, job, outbox, verified, objects, archives,
                         had, put>>
      BY <2>2 DEF Crash, Becomes, rows, store, history
    <3>2. Undisturbed BY <3>1 DEF Undisturbed
    <3>3. RequestInv' /\ NothingLeftBehind' /\ VerifiedMeansPurged' /\ ArchiveWhole'
      BY <3>1 DEF LifecycleInv, RequestInv, NothingLeftBehind, VerifiedMeansPurged,
                  ArchiveWhole
    <3>4. PICK x : x = Idle OBVIOUS
    <3>5. WorkerInv(x)' BY <3>4 DEF Idle, WorkerInv
    <3>6. \A v \in Workers : WorkerInv(worker[v])'
      BY <3>1, <3>2, <3>4, <3>5, WorkersKeep DEF LifecycleInv, Typed, WorkersTyped
    <3> QED BY <3>3, <3>6, InvIntro
  <2> QED BY <1>3, <2>1, <2>2
<1>4. ASSUME NEW w \in Workers, Next,
             \/ \E j \in Jobs : FetchPending(w, j)
             \/ GetJob(w) \/ MarkRunning(w) \/ MarkDispatched(w)
             \/ ListKeys(w) \/ CompleteDeletion(w)
             \/ \E d \in Docs : DeleteObject(w, d)
      PROVE  Typed' /\ LifecycleInv'
  <2>1. Typed' BY <1>i, <1>4, WorkerTyped
  <2>2. LifecycleInv' BY <1>4, PurgeKeeps
  <2> QED BY <2>1, <2>2
<1>5. ASSUME NEW w \in Workers, Next,
             \/ FetchWorkspace(w) \/ FetchDocuments(w) \/ Upload(w) \/ CompleteExport(w)
             \/ \E d \in Docs : Download(w, d)
      PROVE  Typed' /\ LifecycleInv'
  <2>1. Typed' BY <1>i, <1>5, WorkerTyped
  <2>2. LifecycleInv' BY <1>5, ExportKeeps
  <2> QED BY <2>1, <2>2
<1>6. ASSUME NEW w \in Workers, Next,
             \/ \E j \in Deletions : FetchUnverified(w, j)
             \/ CountRows(w) \/ ListPrefix(w) \/ RecordVerification(w)
      PROVE  Typed' /\ LifecycleInv'
  <2>1. Typed' BY <1>i, <1>6, WorkerTyped
  <2>2. LifecycleInv' BY <1>6, VerificationKeeps
  <2> QED BY <2>1, <2>2
<1>7. ASSUME NEW w \in Workers, Next, CallFails(w) \/ Crash(w)
      PROVE  Typed' /\ LifecycleInv'
  <2>1. Typed' BY <1>i, <1>7, WorkerTyped
  <2>2. LifecycleInv' BY <1>3, <1>7
  <2> QED BY <2>1, <2>2
<1> QED BY StepCases, <1>1, <1>2, <1>4, <1>5, <1>6, <1>7

LEMMA LifecycleInvariant == Spec => [](Typed /\ LifecycleInv)
BY TypedInit, InvInit, LifecycleInductive, PTL DEF Spec

\* Every table and every worker of a behaviour has its type.
THEOREM TypeCorrect == Spec => []TypeOK
BY LifecycleInvariant, TypedIsTypeOK, PTL

\* When the rows are gone, so are the files the workspace had when it was
\* deleted, however many workers purge it and wherever they die.
THEOREM PurgeComplete == Spec => []NothingLeftBehind
<1>1. LifecycleInv => NothingLeftBehind BY DEF LifecycleInv
<1> QED BY <1>1, LifecycleInvariant, PTL

\* A verification that passed stays true.
THEOREM VerificationSound == Spec => []VerifiedMeansPurged
<1>1. LifecycleInv => VerifiedMeansPurged BY DEF LifecycleInv
<1> QED BY <1>1, LifecycleInvariant, PTL

\* No export completes with a partial archive, whatever is purged while it is
\* built, between its own SELECTs too.
THEOREM ExportSound == Spec => []ArchiveWhole
<1>1. LifecycleInv => ArchiveWhole BY DEF LifecycleInv
<1> QED BY <1>1, LifecycleInvariant, PTL
==============================================================================
