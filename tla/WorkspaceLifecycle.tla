------------------------- MODULE WorkspaceLifecycle -------------------------
(***************************************************************************)
(* The end of a workspace: DELETE /workspaces (soft delete and a deletion  *)
(* job), the purge of its files and rows, the verification that nothing is *)
(* left, and the exports that may run next to all that (app/workspaces and *)
(* the workers' loop, workers/main.py).                                    *)
(*                                                                         *)
(* Each worker runs the cycles one after the other, without any lock       *)
(* against the other workers; an action is one transaction or one call of  *)
(* the object store.  The rows of a workspace are its documents here: all  *)
(* its other rows come and go with the workspace row (ON DELETE CASCADE).  *)
(* An object is named by the hash of its content, so a document and its    *)
(* object have one name.                                                   *)
(***************************************************************************)
EXTENDS Integers, FiniteSets

CONSTANTS Docs,        \* files a client may upload
          Deletions,   \* deletion jobs that may be requested
          Exports,     \* export jobs that may be requested
          Workers,
          MaxAttempts, \* _MAX_ATTEMPTS of the purge and of the export
          MaxFaults    \* bound: store calls that fail, workers that die

None == "none"

ASSUME LifecycleAssumption ==
          /\ MaxAttempts \in Nat \ {0}
          /\ MaxFaults \in Nat
          /\ Deletions \cap Exports = {}
          /\ None \notin Docs

Jobs == Deletions \cup Exports

VARIABLES
  workspace, \* "active", soft "deleted", or "gone": no row
  documents, \* rows of documents
  objects,   \* objects under the prefix of the workspace
  archives,  \* exports/{workspace}/{job}.zip: the files of each archive
  job,       \* deletion_jobs and export_jobs
  outbox,    \* the row of each job's event
  verified,  \* verification_passed of each deletion job
  worker,    \* what each worker is at
  had,       \* the documents there were when each export was requested, and
             \* when a deletion first closed the workspace
  put,       \* objects a client has PUT since the first deletion request
  faults

store == <<objects, archives>>
rows == <<workspace, documents, job, outbox, verified>>
history == <<had, put>>
vars == <<rows, store, worker, history, faults>>

\* "none": there is no such row.
DeletionJobStatus == {"none", "queued", "running", "complete"}
ExportJobStatus == {"none", "queued", "running", "complete"}
DeletionJobs == [Deletions -> DeletionJobStatus]
ExportJobs == [Exports -> ExportJobStatus]
Verification == {"none", "passed", "failed"}
OutboxEntry == [event : BOOLEAN, attempts : Nat, dispatched : BOOLEAN]

Worker ==
  [pc : {"idle", "get", "run", "list", "delete", "fetch", "select",
         "download", "finish", "mark", "count", "prefix", "record"},
   job : Jobs \cup {None}, keys : SUBSET Docs, files : SUBSET Docs, clean : BOOLEAN]

Idle == [pc |-> "idle", job |-> None, keys |-> {}, files |-> {}, clean |-> TRUE]

TypeOK ==
  /\ workspace \in {"active", "deleted", "gone"}
  /\ documents \subseteq Docs /\ objects \subseteq Docs
  /\ archives \in [Exports -> (SUBSET Docs) \cup {{None}}]
  /\ [j \in Deletions |-> job[j]] \in DeletionJobs
  /\ [e \in Exports |-> job[e]] \in ExportJobs
  /\ outbox \in [Jobs -> OutboxEntry]
  /\ verified \in [Deletions -> Verification]
  /\ worker \in [Workers -> Worker]
  /\ had \in [Jobs -> SUBSET Docs] /\ put \subseteq Docs
  /\ faults \in 0 .. MaxFaults

Init ==
  /\ workspace = "active" /\ documents = {} /\ objects = {}
  /\ archives = [e \in Exports |-> {None}]
  /\ job = [j \in Jobs |-> "none"]
  /\ outbox = [j \in Jobs |-> [event |-> FALSE, attempts |-> 0, dispatched |-> FALSE]]
  /\ verified = [j \in Deletions |-> "none"]
  /\ worker = [w \in Workers |-> Idle]
  /\ had = [j \in Jobs |-> {}] /\ put = {}
  /\ faults = 0

-----------------------------------------------------------------------------
(* The object store.                                                       *)

ObjectExists(d) == d \in objects

\* A missing object is no error.
RemoveObject(d) == objects' = objects \ {d}

\* A missing object raises.
DownloadRaises(d) == d \notin objects

UploadArchive(e, files) == archives' = [archives EXCEPT ![e] = files]

\* list_prefix of the workspace finds nothing.
PrefixEmpty == objects = {}

-----------------------------------------------------------------------------
(* Requests.  The membership that lets them through outlives the soft      *)
(* delete: only the purge ends them.                                       *)

\* The client's upload: the presigned POST it got from InitiateDocumentUpload
\* works whatever has become of the workspace in the meantime.
Put(d) ==
  /\ objects' = objects \cup {d}
  /\ put' = IF workspace = "active" THEN put ELSE put \cup {d}
  /\ UNCHANGED <<rows, archives, worker, had, faults>>

\* get_workspace_scope: the caller's membership is a row of the workspace.
Scoped == workspace # "gone"

\* ConfirmDocumentUpload: the object must be there.
Confirm(d) ==
  /\ Scoped
  /\ ObjectExists(d)
  /\ d \notin documents
  /\ documents' = documents \cup {d}
  /\ UNCHANGED <<workspace, job, outbox, verified, store, worker, history, faults>>

\* OutboxRepository.enqueue.
Enqueue(j) == outbox' = [outbox EXCEPT ![j].event = TRUE]

SoftDelete == workspace' = "deleted"

CreateDeletionJob(j) == job' = [job EXCEPT ![j] = "queued"]

CreateExportJob(j) == job' = [job EXCEPT ![j] = "queued"]

\* DeleteWorkspace: soft delete, job and event in one transaction.  A second
\* request makes a second job.
RequestDeletion(j) ==
  /\ ~ outbox[j].event
  /\ SoftDelete
  /\ CreateDeletionJob(j)
  /\ Enqueue(j)
  /\ had' = [had EXCEPT ![j] = IF workspace = "active" THEN documents ELSE @]
  /\ UNCHANGED <<documents, verified, store, worker, put, faults>>

DeleteWorkspace(j) == Scoped /\ RequestDeletion(j)

\* RequestWorkspaceExport.
RequestExport(j) ==
  /\ ~ outbox[j].event
  /\ CreateExportJob(j)
  /\ Enqueue(j)
  /\ had' = [had EXCEPT ![j] = documents]
  /\ UNCHANGED <<workspace, documents, verified, store, worker, put, faults>>

ExportWorkspace(j) == Scoped /\ RequestExport(j)

-----------------------------------------------------------------------------
(* The dispatch of a job's event, common to both sagas.                    *)

Becomes(w, local) == worker' = [worker EXCEPT ![w] = local]
Goto(w, pc) == Becomes(w, [worker[w] EXCEPT !.pc = pc])

\* Only the worker changes.
Only(w, local) == Becomes(w, local) /\ UNCHANGED <<rows, store, history, faults>>

\* fetch_pending's condition.  The event outlives the workspace: no foreign
\* key ties the outbox to it.
Pending(j) ==
  /\ outbox[j].event
  /\ ~ outbox[j].dispatched
  /\ outbox[j].attempts < MaxAttempts

\* fetch_pending.  (A batch is taken one event at a time: an event that turns
\* stale in a batch is one a slow worker has fetched early.)
FetchPending(w, j) ==
  /\ worker[w].pc = "idle"
  /\ Pending(j)
  /\ Only(w, [Idle EXCEPT !.pc = "get", !.job = j])

MutGetJob(w) ==
  /\ worker[w].pc = "get"
  /\ Only(w, [worker[w] EXCEPT
       !.pc = IF job[worker[w].job] \in {"running", "complete"} THEN "mark" ELSE "run"])

\* get_job: nothing is done twice for a job that is complete.
GetJob(w) ==
  /\ worker[w].pc = "get"
  /\ Only(w, [worker[w] EXCEPT
       !.pc = IF job[worker[w].job] = "complete" THEN "mark" ELSE "run"])

\* mark_running: only a queued job.
MarkRunning(w) ==
  /\ worker[w].pc = "run"
  /\ LET j == worker[w].job
     IN  /\ job' = [job EXCEPT ![j] = IF @ = "queued" THEN "running" ELSE @]
         /\ Goto(w, IF j \in Deletions THEN "list" ELSE "fetch")
  /\ UNCHANGED <<workspace, documents, outbox, verified, store, history, faults>>

MarkDispatched(w) ==
  /\ worker[w].pc = "mark"
  /\ outbox' = [outbox EXCEPT ![worker[w].job].dispatched = TRUE]
  /\ Becomes(w, Idle)
  /\ UNCHANGED <<workspace, documents, job, verified, store, history, faults>>

\* The exception handler of execute(): the attempt is counted.
AttemptFailed(w) ==
  /\ outbox' = [outbox EXCEPT ![worker[w].job].attempts = @ + 1]
  /\ Becomes(w, Idle)
  /\ UNCHANGED <<workspace, documents, job, verified, store, history>>

-----------------------------------------------------------------------------
(* DispatchWorkspaceDeletion._purge_one.                                   *)

\* list_object_keys: the keys of all documents.
ListKeys(w) ==
  /\ worker[w].pc = "list"
  /\ Only(w, [worker[w] EXCEPT !.pc = "delete", !.keys = documents])

\* object_storage.delete, one key after the other; a missing one is fine.
DeleteObject(w, d) ==
  /\ worker[w].pc = "delete"
  /\ d \in worker[w].keys
  /\ RemoveObject(d)
  /\ Becomes(w, [worker[w] EXCEPT !.keys = @ \ {d}])
  /\ UNCHANGED <<rows, archives, history, faults>>

MutCompleteDeletion(w) ==
  /\ worker[w].pc = "delete"
  /\ workspace' = "gone"
  /\ documents' = {}
  /\ job' = [j \in Jobs |-> IF j = worker[w].job THEN "complete"
                            ELSE IF j \in Exports THEN "none" ELSE job[j]]
  /\ Goto(w, "mark")
  /\ UNCHANGED <<outbox, verified, store, history, faults>>

\* complete(): the job, the audit event and the DELETE that takes every row
\* of the workspace along, its export jobs too, in one transaction.
CompleteDeletion(w) ==
  /\ worker[w].pc = "delete"
  /\ worker[w].keys = {}
  /\ workspace' = "gone"
  /\ documents' = {}
  /\ job' = [j \in Jobs |-> IF j = worker[w].job THEN "complete"
                            ELSE IF j \in Exports THEN "none" ELSE job[j]]
  /\ Goto(w, "mark")
  /\ UNCHANGED <<outbox, verified, store, history, faults>>

-----------------------------------------------------------------------------
(* DispatchWorkspaceExport._build_one.                                     *)

\* fetch_export_data, the first SELECT: the assert that the workspace is there.
FetchWorkspace(w) ==
  /\ worker[w].pc = "fetch"
  /\ \/ workspace # "gone" /\ Only(w, [worker[w] EXCEPT !.pc = "select"])
     \/ workspace = "gone" /\ AttemptFailed(w) /\ UNCHANGED faults

\* The SELECT of the documents, in the same transaction.  It is READ COMMITTED:
\* the statement sees a purge that has committed since, and finds no rows.
FetchDocuments(w) ==
  /\ worker[w].pc = "select"
  /\ Only(w, [worker[w] EXCEPT !.pc = "download", !.keys = documents])

MutDownload(w, d) ==
  /\ worker[w].pc = "download"
  /\ d \in worker[w].keys
  /\ Only(w, [worker[w] EXCEPT !.keys = @ \ {d}, !.files = @ \cup ({d} \cap objects)])

\* object_storage.download; a missing object raises.
Download(w, d) ==
  /\ worker[w].pc = "download"
  /\ d \in worker[w].keys
  /\ \/ /\ ~ DownloadRaises(d)
        /\ Only(w, [worker[w] EXCEPT !.keys = @ \ {d}, !.files = @ \cup {d}])
     \/ DownloadRaises(d) /\ AttemptFailed(w) /\ UNCHANGED faults

\* _build_archive: the files that were downloaded, next to export.json.
BuildArchive(w) == worker[w].files

\* The archive is built and uploaded.
Upload(w) ==
  /\ worker[w].pc = "download"
  /\ worker[w].keys = {}
  /\ UploadArchive(worker[w].job, BuildArchive(w))
  /\ Goto(w, "finish")
  /\ UNCHANGED <<rows, objects, history, faults>>

\* complete(): an UPDATE, of no row if the workspace is gone.
CompleteExport(w) ==
  /\ worker[w].pc = "finish"
  /\ job' = [job EXCEPT ![worker[w].job] = IF workspace = "gone" THEN @ ELSE "complete"]
  /\ Goto(w, "mark")
  /\ UNCHANGED <<workspace, documents, outbox, verified, store, history, faults>>

-----------------------------------------------------------------------------
(* VerifyWorkspaceDeletions.                                               *)

\* list_jobs_pending_verification.
FetchUnverified(w, j) ==
  /\ worker[w].pc = "idle"
  /\ job[j] = "complete"
  /\ verified[j] = "none"
  /\ Only(w, [Idle EXCEPT !.pc = "count", !.job = j])

\* count_residual_rows: there are some as long as there is a workspace.
ResidualRows == workspace # "gone"

CountRows(w) ==
  /\ worker[w].pc = "count"
  /\ Only(w, [worker[w] EXCEPT !.pc = "prefix", !.clean = ~ ResidualRows])

MutListPrefix(w) ==
  /\ worker[w].pc = "prefix"
  /\ Only(w, [worker[w] EXCEPT !.pc = "record"])

\* list_prefix of the workspace.
ListPrefix(w) ==
  /\ worker[w].pc = "prefix"
  /\ Only(w, [worker[w] EXCEPT !.pc = "record", !.clean = @ /\ PrefixEmpty])

RecordVerification(w) ==
  /\ worker[w].pc = "record"
  /\ verified' = [verified EXCEPT ![worker[w].job] =
       IF worker[w].clean THEN "passed" ELSE "failed"]
  /\ Becomes(w, Idle)
  /\ UNCHANGED <<workspace, documents, job, outbox, store, history, faults>>

-----------------------------------------------------------------------------
(* Faults.                                                                 *)

\* A call of a saga raises.
CallFails(w) ==
  /\ worker[w].pc \in {"get", "run", "list", "delete", "fetch", "select",
                       "download", "finish"}
  /\ faults < MaxFaults
  /\ faults' = faults + 1
  /\ AttemptFailed(w)

\* A worker dies and starts again (so it does when a call of its own loop
\* raises, verification included).
Crash(w) ==
  /\ worker[w].pc # "idle"
  /\ faults < MaxFaults
  /\ faults' = faults + 1
  /\ Becomes(w, Idle)
  /\ UNCHANGED <<rows, store, history>>

PurgeWorkspace(w) ==
  \/ \E j \in Deletions : FetchPending(w, j)
  \/ ListKeys(w) \/ CompleteDeletion(w)
  \/ \E d \in Docs : DeleteObject(w, d)

BuildExport(w) ==
  \/ \E j \in Exports : FetchPending(w, j)
  \/ FetchWorkspace(w) \/ FetchDocuments(w) \/ Upload(w) \/ CompleteExport(w)
  \/ \E d \in Docs : Download(w, d)

VerifyDeletion(w) ==
  \/ \E j \in Deletions : FetchUnverified(w, j)
  \/ CountRows(w) \/ ListPrefix(w) \/ RecordVerification(w)

WorkerStep(w) ==
  \/ PurgeWorkspace(w) \/ BuildExport(w) \/ VerifyDeletion(w)
  \/ GetJob(w) \/ MarkRunning(w) \/ MarkDispatched(w)

Next ==
  \/ \E d \in Docs : Put(d) \/ Confirm(d)
  \/ \E j \in Deletions : DeleteWorkspace(j)
  \/ \E j \in Exports : ExportWorkspace(j)
  \/ \E w \in Workers : WorkerStep(w) \/ CallFails(w) \/ Crash(w)

Spec == Init /\ [][Next]_vars

\* The workers loop for ever.
FairSpec == Spec /\ \A w \in Workers : WF_vars(WorkerStep(w))

-----------------------------------------------------------------------------
(* Properties.                                                             *)

\* When the rows of a workspace are gone, so is every file it had when it was
\* first deleted, however often the purge was interrupted, retried
\* or run by two workers: only a file the client PUT again since may be left.
NothingLeftBehind ==
  workspace = "gone" => \A j \in Deletions : objects \cap had[j] \subseteq put

\* A passed verification is not outlived by a file the workspace had: what is
\* in storage then has been PUT since the deletion was requested.
VerifiedMeansPurged ==
  \A j \in Deletions :
    verified[j] = "passed" => workspace = "gone" /\ objects \subseteq put

\* No export is completed with an archive that lacks a document there was when
\* it was requested, and as long as the workspace is there no archive lacks
\* one: a purge that removes files under a running export makes the
\* export fail.  (A purge that commits between the SELECTs of an export has it
\* upload an archive without files, but the job has gone with the workspace.)
ArchiveWhole ==
  \A e \in Exports :
    /\ job[e] = "complete" => archives[e] # {None} /\ had[e] \subseteq archives[e]
    /\ workspace # "gone" /\ archives[e] # {None} => had[e] \subseteq archives[e]

\* Every deletion that is requested is completed and verified, or has used up
\* its attempts.
EveryDeletionEnds ==
  \A j \in Deletions :
    job[j] = "queued" ~> \/ job[j] = "complete" /\ verified[j] # "none"
                         \/ outbox[j].attempts >= MaxAttempts
=============================================================================
