--------------------------- MODULE UploadService ---------------------------
(***************************************************************************)
(* How one ordinary upload travels from a file closed in the mount to an   *)
(* asset in the catalog: the staged files of filesystem.py, the queue they *)
(* are sealed into, the upload worker and _process_upload of service.py,   *)
(* the control commands that retry and cancel, the server they race with,  *)
(* and a crash and restart of the service at any point.                    *)
(*                                                                         *)
(* One call of the queue is one atomic step here: UploadQueue models what  *)
(* happens inside it, and its records and updates are those of             *)
(* UploadManifest.  A call may fail, before the record is replaced or      *)
(* after; one that fails in between leaves manifest.json.tmp behind, and   *)
(* from then on every write of that job fails, until a restart sets it     *)
(* aside.  While a job is being attempted nobody but the worker may write  *)
(* its record, so the step that decides what an exception means also       *)
(* writes it.                                                              *)
(*                                                                         *)
(* The server keeps one asset per owner and checksum.  So an asset is      *)
(* named by the contents it was created from, and posting the same bytes   *)
(* again answers with the asset that is there.                             *)
(***************************************************************************)
EXTENDS UploadManifest

CONSTANTS
  Jobs,       \* upload jobs, one per file the mount creates
  NoManifest, \* the queue holds no record of the job
  NoJob,      \* no job
  MaxTrouble  \* bound: faults, crashes, user requests and foreign changes

Unmarked == "unmarked"
Absent == "absent"

ASSUME ServiceAssumption ==
  /\ Assets \subseteq Nat
  /\ {Unmarked, Absent} \cap Jobs = {}
  /\ NoManifest \notin Manifest
  /\ NoJob \notin Jobs
  /\ MaxTrouble \in Nat
  /\ {"upload-unavailable", "ambiguous-response", "candidate-mismatch",
      "local-state-failed", "local-write-failed"} \subseteq OtherErrors

VARIABLES
  record,     \* the manifest the queue keeps for each job
  temp,        \* jobs a failed write has left a manifest.json.tmp in
  quarantined, \* jobs the last start has set aside
  older,      \* <<i, j>>: i was sealed before j, the order of UploadQueue.list
  waiting,    \* jobs whose next_attempt_ns has not come
  file,       \* the staged file of each job
  sealedRev,  \* the revision release got back from seal
  worker,     \* the upload worker
  armed,      \* jobs the worker's timer was set for
  channel,    \* the one-slot notification channel of the worker holds a value
  online,     \* online[0] and library.mutation_enabled
  shown,      \* the revision the control client last read of each job
  finishing,  \* jobs cancelled whose upload_finished is still to be called
  remote,     \* the server's asset for each contents: absent, or its marker
  trashed,    \* assets in the server's trash
  catalog,    \* assets in the local catalog
  published,  \* history: jobs add_uploaded has put into the catalog
  cancelled,  \* history: jobs the user cancelled
  cutShort,   \* history: cancels that raised when the job was already gone
  trouble     \* what the environment did so far, bounded by MaxTrouble

disk == <<record, temp, quarantined>>
queue == <<disk, older, waiting>>
mount == <<file, sealedRev>>
process == <<worker, armed, channel, online>>
control == <<shown, finishing>>
server == <<remote, trashed>>
history == <<published, cancelled, cutShort>>
vars == <<queue, mount, process, control, server, catalog, history, trouble>>

IsStored(m) == m # NoManifest

(* _require_known: a job set aside keeps its record, and no call takes it. *)
Known(j) == IsStored(record[j]) /\ j \notin quarantined

Listed == {j \in Jobs : Known(j) /\ IsSealed(record[j])}
Workable(j) == Known(j) /\ IsWorkable(record[j])
Due(j) == Workable(j) /\ j \notin waiting

Idle(pc) == [pc |-> pc, job |-> NoJob, rev |-> 0]
Busy(pc, j) == [pc |-> pc, job |-> j, rev |-> 0]

Trouble == trouble < MaxTrouble /\ trouble' = trouble + 1

Init ==
  /\ record = [j \in Jobs |-> NoManifest]
  /\ temp = {} /\ quarantined = {} /\ older = {} /\ waiting = {}
  /\ file = [j \in Jobs |-> "none"] /\ sealedRev = [j \in Jobs |-> 0]
  /\ worker = Idle("check") /\ armed = {} /\ channel = FALSE
  /\ online \in BOOLEAN
  /\ shown = [j \in Jobs |-> 0] /\ finishing = {}
  /\ remote = [a \in Assets |-> Absent] /\ trashed = {}
  /\ catalog = {}
  /\ published = {} /\ cancelled = {} /\ cutShort = {}
  /\ trouble = 0

Write(j, m) ==
  /\ record' = [record EXCEPT ![j] = m]
  /\ UNCHANGED <<temp, quarantined>>

(* _write_manifest succeeds: the temporary file must not exist yet. *)
Save(j, m) == j \notin temp /\ Write(j, m)

(* It raises before the record is replaced ... *)
Unwritten(j) ==
  /\ temp' \in {temp, temp \cup {j}}
  /\ UNCHANGED <<record, quarantined>>

(* ... or after it, when the directory cannot be synced. *)
SaveFails(j, m) == Unwritten(j) \/ Save(j, m)

(* A write that fails over a leftover is no new trouble. *)
Fault(j) == IF j \in temp THEN UNCHANGED trouble ELSE Trouble

-----------------------------------------------------------------------------
(* The mount: create, a write that fails, and the release of the last handle. *)

Create(j) ==
  /\ online /\ file[j] = "none"
  /\ file' = [file EXCEPT ![j] = "open"]
  /\ Write(j, NewManifest)
  /\ UNCHANGED <<older, waiting, sealedRev, process, control, server, catalog,
                 history, trouble>>

(* failure_errno is set, and the last release will not seal. *)
WriteFails(j) ==
  /\ file[j] = "open"
  /\ Trouble
  /\ file' = [file EXCEPT ![j] = "failing"]
  /\ UNCHANGED <<queue, sealedRev, process, control, server, catalog, history>>

(* The first of release's two calls: the job becomes pending and due at once. *)
SealFile(j) ==
  /\ file[j] = "open"
  /\ \E b \in Assets : Save(j, Seal(record[j], b))
  /\ older' = older \cup (Listed \X {j})
  /\ file' = [file EXCEPT ![j] = "deferring"]
  /\ sealedRev' = [sealedRev EXCEPT ![j] = record[j].revision + 1]
  /\ UNCHANGED <<waiting, process, control, server, catalog, history, trouble>>

SealFails(j) ==
  /\ file[j] = "open"
  /\ Fault(j)
  /\ \/ Unwritten(j) /\ UNCHANGED older
     \/ /\ \E b \in Assets : Save(j, Seal(record[j], b))
        /\ older' = older \cup (Listed \X {j})
  /\ file' = [file EXCEPT ![j] = "failing"]
  /\ UNCHANGED <<waiting, sealedRev, process, control, server, catalog, history>>

(* The second call, retry a second from now.  Release runs on before that     *)
(* second is over: it registers the file and wakes the worker.                *)
Deferrable(j) ==
  /\ file[j] = "deferring"
  /\ Known(j) /\ CanRetryAt(record[j], sealedRev[j])

DeferJob(j) ==
  /\ Deferrable(j)
  /\ Save(j, Retry(record[j], NoError))
  /\ waiting' = waiting \cup {j}
  /\ file' = [file EXCEPT ![j] = "pending"]
  /\ channel' = TRUE
  /\ UNCHANGED <<older, sealedRev, worker, armed, online, control, server,
                 catalog, history, trouble>>

(* The job moved in between: retry raises, and release gives the file up. *)
DeferRefused(j) ==
  /\ file[j] = "deferring"
  /\ ~Deferrable(j)
  /\ file' = [file EXCEPT ![j] = "failing"]
  /\ UNCHANGED <<queue, sealedRev, process, control, server, catalog, history,
                 trouble>>

(* So it does when the retry cannot be written; the deferral may hold.        *)
DeferFails(j) ==
  /\ Deferrable(j)
  /\ Fault(j)
  /\ \/ Unwritten(j) /\ UNCHANGED waiting
     \/ /\ Save(j, Retry(record[j], NoError))
        /\ waiting' = waiting \cup {j}
  /\ file' = [file EXCEPT ![j] = "failing"]
  /\ UNCHANGED <<older, sealedRev, process, control, server, catalog, history>>

(* block_writing works on a draft only; the name is dropped in any case, also *)
(* when the draft cannot be blocked.                                          *)
GiveUpFile(j) ==
  /\ file[j] = "failing"
  /\ IF Known(j) /\ IsDraft(record[j])
       THEN \/ /\ Save(j, BlockDraft(record[j], "local-write-failed"))
               /\ UNCHANGED trouble
            \/ Unwritten(j) /\ Fault(j)
       ELSE UNCHANGED <<disk, trouble>>
  /\ file' = [file EXCEPT ![j] = "gone"]
  /\ UNCHANGED <<older, waiting, sealedRev, process, control, server, catalog,
                 history>>

(* upload_finished: a file that is not registered is not looked for. *)
UploadFinished(j) ==
  file' = IF file[j] = "pending" THEN [file EXCEPT ![j] = "gone"] ELSE file

-----------------------------------------------------------------------------
(* The worker: next_due, the delay, the sleep. *)

(* Mutation: only the oldest job is looked at. *)
OldestIfDue == {j \in Listed : Due(j) /\ \A i \in Listed : <<i, j>> \notin older}

(* The first due job of the list. *)
FirstDue == {j \in Listed : Due(j) /\ \A i \in Listed : Due(i) => <<i, j>> \notin older}

NextDue ==
  /\ worker.pc = "check"
  /\ \/ /\ ~online \/ FirstDue = {}
        /\ worker' = Idle("measure")
     \/ /\ online
        /\ \E j \in FirstDue :
             worker' = [pc |-> "admit", job |-> j, rev |-> record[j].revision]
  /\ UNCHANGED <<queue, mount, armed, channel, online, control, server,
                 catalog, history, trouble>>

(* _next_upload_delay looks only at times that are still to come. *)
Measure ==
  /\ worker.pc = "measure"
  /\ armed' = IF online THEN {j \in waiting : Workable(j)} ELSE {}
  /\ worker' = Idle("sleep")
  /\ UNCHANGED <<queue, mount, channel, online, control, server, catalog,
                 history, trouble>>

Wake ==
  /\ worker.pc = "sleep"
  /\ channel \/ armed \ waiting # {}
  /\ channel' = FALSE
  /\ armed' = {}
  /\ worker' = Idle("check")
  /\ UNCHANGED <<queue, mount, online, control, server, catalog, history,
                 trouble>>

(* Time passes.  A job is never due again by the check that follows it.      *)
Tick(j) ==
  /\ j \in waiting /\ worker.pc # "check"
  /\ waiting' = waiting \ {j}
  /\ UNCHANGED <<disk, older, mount, process, control, server, catalog,
                 history, trouble>>

-----------------------------------------------------------------------------
(* _process_upload, for an ordinary job. *)

At(pc, j) == worker.pc = pc /\ worker.job = j

Admissible(j) ==
  /\ Known(j) /\ record[j].revision = worker.rev
  /\ CanAttempt(record[j])

(* open_attempt *)
OpenAttempt(j) ==
  /\ At("admit", j) /\ Admissible(j)
  /\ Save(j, Admit(Provisional(record[j])))
  /\ waiting' = waiting \ {j}
  /\ worker' = Busy(IF HasCandidate(record[j]) THEN "verify" ELSE "send", j)
  /\ UNCHANGED <<older, mount, armed, channel, online, control, server,
                 catalog, history, trouble>>

(* The payload is no longer what was sealed. *)
AttemptInvalid(j) ==
  /\ At("admit", j) /\ Admissible(j)
  /\ Trouble
  /\ Save(j, Block(Provisional(record[j]), PayloadInvalid))
  /\ worker' = Idle("check")
  /\ UNCHANGED <<older, waiting, mount, armed, channel, online, control,
                 server, catalog, history>>

(* One of open_attempt's two writes fails, or the payload cannot be read: the *)
(* record may say attempting, counted or not, or blocked.                     *)
AdmissionFails(j) ==
  /\ At("admit", j) /\ Admissible(j)
  /\ Fault(j)
  /\ \/ Unwritten(j) /\ UNCHANGED waiting
     \/ /\ j \notin temp
        /\ record' = [record EXCEPT ![j] = Provisional(@)]
        /\ temp' \in {temp, temp \cup {j}}
        /\ waiting' = waiting \ {j}
        /\ UNCHANGED quarantined
     \/ /\ \E m \in {Admit(Provisional(record[j])),
                    Block(Provisional(record[j]), PayloadInvalid)} : Save(j, m)
        /\ waiting' = waiting \ {j}
  /\ worker' = Busy("block", j)
  /\ UNCHANGED <<older, mount, armed, channel, online, control, server,
                 catalog, history>>

(* The job moved since next_due read it: the worker leaves it alone. *)
AttemptRefused(j) ==
  /\ At("admit", j) /\ ~Admissible(j)
  /\ worker' = Idle("check")
  /\ UNCHANGED <<queue, mount, armed, channel, online, control, server,
                 catalog, history, trouble>>

(* POST /assets reaches the server, which keeps the asset it has for these    *)
(* bytes.  The marker is stored after the asset, and may not be.              *)
Post(j) ==
  LET a == record[j].bytes IN
  /\ At("send", j)
  /\ IF remote[a] = Absent
       THEN \E marker \in {j, Unmarked} : remote' = [remote EXCEPT ![a] = marker]
       ELSE UNCHANGED remote
  /\ worker' = Busy("reply", j)
  /\ UNCHANGED <<queue, mount, armed, channel, online, control, trashed,
                 catalog, history, trouble>>

(* created or duplicate: record_candidate. *)
Accepted(j) ==
  /\ At("reply", j)
  /\ Save(j, RecordCandidate(record[j], record[j].bytes))
  /\ worker' = Busy("verify", j)
  /\ UNCHANGED <<older, waiting, mount, armed, channel, online, control,
                 server, catalog, history, trouble>>

AcceptFails(j) ==
  /\ At("reply", j)
  /\ Fault(j)
  /\ SaveFails(j, RecordCandidate(record[j], record[j].bytes))
  /\ worker' = Busy("block", j)
  /\ UNCHANGED <<older, waiting, mount, armed, channel, online, control,
                 server, catalog, history>>

(* _retry_upload: a retry that cannot be written is only logged, and the job  *)
(* stays due as it is.                                                        *)
RetryLater(j, e) ==
  /\ \/ /\ Save(j, Retry(record[j], e))
        /\ waiting' = waiting \cup {j}
     \/ Unwritten(j) /\ UNCHANGED waiting
  /\ worker' = Idle("check")
  /\ UNCHANGED <<older, mount, armed, channel, online, control, server,
                 history>>

(* _block_upload: so is a job that cannot be blocked. *)
BlockJob(j, e) ==
  /\ \/ /\ Save(j, Block(record[j], e))
        /\ waiting' = waiting \ {j}
     \/ Unwritten(j) /\ UNCHANGED waiting
  /\ worker' = Idle("check")
  /\ UNCHANGED <<older, mount, armed, channel, online, control, server,
                 history>>

(* What an exception of the queue ends in.  The record may still be pending,  *)
(* so the client may have retried or cancelled the job before it is blocked.  *)
BlockAfterFailure(j) ==
  /\ At("block", j)
  /\ Known(j) /\ CanBlock(record[j])
  /\ BlockJob(j, "local-state-failed")
  /\ IF UNCHANGED record THEN Fault(j) ELSE UNCHANGED trouble
  /\ UNCHANGED catalog

BlockRefused(j) ==
  /\ At("block", j)
  /\ ~(Known(j) /\ CanBlock(record[j]))
  /\ worker' = Idle("check")
  /\ UNCHANGED <<queue, mount, armed, channel, online, control, server,
                 catalog, history, trouble>>

(* A request is on its way: it may be lost before or after it was served.     *)
Talking(j) == At("send", j) \/ At("reply", j) \/ At("verify", j)

(* ImmichUnavailableError and ImmichRetryableError: no answer, or an answer   *)
(* that asks to come back.                                                    *)
Unavailable(j) ==
  /\ Talking(j)
  /\ Trouble
  /\ RetryLater(j, "upload-unavailable")
  /\ UNCHANGED catalog

(* ImmichResponseError: an answer that cannot be understood. *)
Garbled(j) ==
  /\ Talking(j)
  /\ Trouble
  /\ IF HasCandidate(record[j])
       THEN BlockJob(j, "candidate-mismatch")
       ELSE RetryLater(j, "ambiguous-response")
  /\ UNCHANGED catalog

(* Any other ImmichError: a refusal by status, or a transport error that is   *)
(* neither a timeout nor a network error.                                     *)
Rejected(j) ==
  /\ Talking(j)
  /\ Trouble
  /\ BlockJob(j, UploadRejected)
  /\ UNCHANGED catalog

(* Any other exception. *)
LocalFailure(j) ==
  /\ Talking(j) \/ At("publish", j)
  /\ Trouble
  /\ BlockJob(j, "local-state-failed")
  /\ \/ UNCHANGED catalog
     \/ worker.pc = "publish" /\ catalog' = catalog \cup {record[j].candidate}

(* Mutation: the bytes are compared, and not the upload marker. *)
MatchesUnmarked(j) ==
  record[j].candidate \notin trashed /\ record[j].candidate = record[j].bytes

(* _upload_matches *)
Matches(j) ==
  LET a == record[j].candidate IN
  remote[a] = j /\ a \notin trashed /\ a = record[j].bytes

Verify(j) ==
  /\ At("verify", j) /\ Matches(j)
  /\ worker' = Busy("publish", j)
  /\ UNCHANGED <<queue, mount, armed, channel, online, control, server,
                 catalog, history, trouble>>

(* Another asset, a trashed one, or one without the marker of this job. *)
Mismatch(j) ==
  /\ At("verify", j) /\ ~Matches(j)
  /\ BlockJob(j, "candidate-mismatch")
  /\ IF UNCHANGED record THEN Fault(j) ELSE UNCHANGED trouble
  /\ UNCHANGED catalog

(* add_uploaded under the catalog lock. *)
Publish(j) ==
  /\ At("publish", j)
  /\ catalog' = catalog \cup {record[j].candidate}
  /\ published' = published \cup {j}
  /\ worker' = Busy("commit", j)
  /\ UNCHANGED <<queue, mount, armed, channel, online, control, server,
                 cancelled, cutShort, trouble>>

CommitJob(j) ==
  /\ At("commit", j)
  /\ Save(j, Commit(record[j]))
  /\ worker' = Busy("remove", j)
  /\ UNCHANGED <<older, waiting, mount, armed, channel, online, control,
                 server, catalog, history, trouble>>

CommitFails(j) ==
  /\ At("commit", j)
  /\ Fault(j)
  /\ SaveFails(j, Commit(record[j]))
  /\ worker' = Busy("block", j)
  /\ UNCHANGED <<older, waiting, mount, armed, channel, online, control,
                 server, catalog, history>>

Drop(j) ==
  /\ Write(j, NoManifest)
  /\ older' = older \cap (Listed' \X Listed')
  /\ waiting' = waiting \ {j}

RemoveJob(j) ==
  /\ At("remove", j)
  /\ Drop(j)
  /\ worker' = Busy("finish", j)
  /\ UNCHANGED <<mount, armed, channel, online, control, server, catalog,
                 history, trouble>>

(* A removal that fails before the job has left its directory is only logged: *)
(* the committed record waits for a restart, and the mount drops the name.    *)
RemoveFails(j) ==
  /\ At("remove", j)
  /\ Trouble
  /\ worker' = Busy("finish", j)
  /\ UNCHANGED <<queue, mount, armed, channel, online, control, server,
                 catalog, history>>

(* Mutation: the worker forgets to tell the mount. *)
FinishSilently(j) ==
  /\ At("finish", j)
  /\ worker' = Idle("check")
  /\ UNCHANGED <<queue, mount, armed, channel, online, control, server,
                 catalog, history, trouble>>

FinishUpload(j) ==
  /\ At("finish", j)
  /\ UploadFinished(j)
  /\ worker' = Idle("check")
  /\ UNCHANGED <<queue, sealedRev, armed, channel, online, control, server,
                 catalog, history, trouble>>

-----------------------------------------------------------------------------
(* The control socket. *)

(* The client lists a job.  Only a revision of a pending or blocked record is  *)
(* of any use later: retry and cancel take no other state.                    *)
Show(j) ==
  /\ Known(j) /\ record[j].state \in {"pending", "blocked"}
  /\ Trouble
  /\ shown' = [shown EXCEPT ![j] = record[j].revision]
  /\ UNCHANGED <<queue, mount, process, finishing, server, catalog, history>>

(* retry-upload: due at once, and the worker is told. *)
RetryUpload(j) ==
  /\ online /\ Known(j) /\ CanRetryAt(record[j], shown[j])
  /\ Trouble
  /\ Save(j, Retry(record[j], NoError))
  /\ waiting' = waiting \ {j}
  /\ channel' = TRUE
  /\ UNCHANGED <<older, mount, worker, armed, online, control, server, catalog,
                 history>>

(* A retry that raises does not wake the worker. *)
RetryUploadFails(j) ==
  /\ online /\ Known(j) /\ CanRetryAt(record[j], shown[j])
  /\ Trouble
  /\ \/ Unwritten(j) /\ UNCHANGED waiting
     \/ /\ Save(j, Retry(record[j], NoError))
        /\ waiting' = waiting \ {j}
  /\ UNCHANGED <<older, mount, process, control, server, catalog, history>>

(* Mutation: cancel takes the job off the list and leaves its record. *)
CancelUnqueued(j) ==
  /\ Known(j) /\ CanCancel(record[j], shown[j]) /\ j \notin temp
  /\ cancelled' = cancelled \cup {j}
  /\ finishing' = finishing \cup {j}
  /\ UNCHANGED <<queue, mount, process, shown, server, catalog, published,
                 cutShort, trouble>>

(* cancel-upload: queue.cancel removes the job, then upload_finished. *)
CancelUpload(j) ==
  /\ Known(j) /\ CanCancel(record[j], shown[j]) /\ j \notin temp
  /\ Drop(j)
  /\ cancelled' = cancelled \cup {j}
  /\ finishing' = finishing \cup {j}
  /\ UNCHANGED <<mount, process, shown, server, catalog, published, cutShort,
                 trouble>>

(* queue.cancel raises: before the record says cancelled, before the job has  *)
(* left its directory, or after it.  upload_finished is not called.           *)
CancelUploadFails(j) ==
  /\ Known(j) /\ CanCancel(record[j], shown[j]) /\ j \notin temp
  /\ Trouble
  /\ \/ /\ Unwritten(j)
        /\ UNCHANGED <<older, waiting, cancelled, cutShort>>
     \/ /\ Save(j, Cancel(record[j])) /\ waiting' = waiting \ {j}
        /\ cancelled' = cancelled \cup {j}
        /\ UNCHANGED <<older, cutShort>>
     \/ /\ Drop(j)
        /\ cancelled' = cancelled \cup {j}
        /\ cutShort' = cutShort \cup {j}
  /\ UNCHANGED <<mount, process, control, server, catalog, published>>

FinishCancel(j) ==
  /\ j \in finishing
  /\ UploadFinished(j)
  /\ finishing' = finishing \ {j}
  /\ UNCHANGED <<queue, sealedRev, process, shown, server, catalog, history,
                 trouble>>

-----------------------------------------------------------------------------
(* The rest of the service and its environment. *)

(* The offline worker has revalidated the server. *)
GoOnline ==
  /\ ~online
  /\ online' = TRUE
  /\ channel' = TRUE
  /\ UNCHANGED <<queue, mount, worker, armed, control, server, catalog,
                 history, trouble>>

(* A full refresh, which holds the catalog lock. *)
Refresh ==
  /\ online
  /\ catalog' = {a \in Assets : remote[a] # Absent} \ trashed
  /\ UNCHANGED <<queue, mount, process, control, server, history, trouble>>

(* Another client uploads the same contents, or trashes an asset. *)
ForeignUpload(a) ==
  /\ remote[a] = Absent
  /\ Trouble
  /\ remote' = [remote EXCEPT ![a] = Unmarked]
  /\ UNCHANGED <<queue, mount, process, control, trashed, catalog, history>>

ForeignTrash(a) ==
  /\ remote[a] # Absent /\ a \notin trashed
  /\ Trouble
  /\ trashed' = trashed \cup {a}
  /\ UNCHANGED <<queue, mount, process, control, remote, catalog, history>>

(* Mutation: startup takes a recorded candidate for a finished upload. *)
RecoveredEarly(m) ==
  IF ~IsStored(m) \/ HasCandidate(m) THEN NoManifest
  ELSE IF m.state = "writing" THEN BlockDraft(m, InterruptedWrite) ELSE m

(* The service dies and the next one starts: _recover_startup sets aside what *)
(* has a leftover, and what it can neither block nor clean up; it finishes    *)
(* the other committed and cancelled jobs and blocks the drafts; and          *)
(* ImmichFilesystem rebuilds the staged files from the sealed jobs.           *)
Recovered(m) ==
  IF ~IsStored(m) \/ m.state \in {"committed", "cancelled"} THEN NoManifest
  ELSE IF m.state = "writing" THEN BlockDraft(m, InterruptedWrite) ELSE m

(* The jobs whose recovery writes or removes something, which may fail. *)
Unsettled ==
  {j \in Jobs : /\ IsStored(record[j])
                /\ record[j].state \in {"writing", "committed", "cancelled"}}

Restart ==
  /\ Trouble
  /\ \E failed \in SUBSET Unsettled : quarantined' = temp \cup failed
  /\ record' = [j \in Jobs |-> IF j \in quarantined' THEN record[j]
                               ELSE Recovered(record[j])]
  /\ older' = older \cap (Listed' \X Listed')
  /\ waiting' = {j \in waiting : IsStored(record'[j])}
  /\ file' = [j \in Jobs |->
                IF file[j] = "none" THEN "none"
                ELSE IF j \in Listed' /\ IsLocallyReadable(record'[j])
                  THEN "pending" ELSE "gone"]
  /\ online' \in BOOLEAN
  /\ worker' = Idle("check") /\ armed' = {} /\ finishing' = {}
  /\ channel' = (online' /\ \E j \in Jobs : Due(j)')
  /\ UNCHANGED <<temp, sealedRev, shown, server, catalog, history>>

-----------------------------------------------------------------------------
Mounting(j) ==
  DeferJob(j) \/ DeferRefused(j) \/ DeferFails(j) \/ GiveUpFile(j)

Processing(j) ==
  \/ OpenAttempt(j) \/ AttemptInvalid(j) \/ AttemptRefused(j)
  \/ AdmissionFails(j) \/ Post(j) \/ Accepted(j) \/ AcceptFails(j)
  \/ Unavailable(j) \/ Garbled(j) \/ Rejected(j) \/ LocalFailure(j)
  \/ BlockAfterFailure(j) \/ BlockRefused(j)
  \/ Verify(j) \/ Mismatch(j) \/ Publish(j) \/ CommitJob(j) \/ CommitFails(j)
  \/ RemoveJob(j) \/ RemoveFails(j) \/ FinishUpload(j)

WorkerStep == NextDue \/ Measure \/ Wake \/ \E j \in Jobs : Processing(j)

Next ==
  \/ WorkerStep
  \/ \E j \in Jobs :
       \/ Create(j) \/ WriteFails(j) \/ SealFile(j) \/ SealFails(j)
       \/ Mounting(j) \/ Tick(j) \/ Show(j)
       \/ RetryUpload(j) \/ RetryUploadFails(j)
       \/ CancelUpload(j) \/ CancelUploadFails(j) \/ FinishCancel(j)
  \/ GoOnline \/ Refresh \/ Restart
  \/ \E a \in Assets : ForeignUpload(a) \/ ForeignTrash(a)

Spec == Init /\ [][Next]_vars

(* The worker and release are coroutines that always run on, every request    *)
(* ends at the latest with its timeout, and time passes.  Nothing makes the   *)
(* server reachable, a user press a key, or another file be closed.           *)
Fairness ==
  /\ WF_vars(WorkerStep)
  /\ \A j \in Jobs :
       WF_vars(Mounting(j)) /\ WF_vars(Tick(j)) /\ WF_vars(FinishCancel(j))

LiveSpec == Spec /\ Fairness
-----------------------------------------------------------------------------
(* The type invariant. *)
TypeOK ==
  /\ record \in [Jobs -> Manifest \cup {NoManifest}]
  /\ \A j \in Jobs : IsStored(record[j]) => ValidManifest(record[j])
  /\ temp \cup quarantined \subseteq {j \in Jobs : IsStored(record[j])}
  /\ older \subseteq Listed \X Listed
  /\ \A i, j \in Listed : i # j <=> (<<i, j>> \in older \/ <<j, i>> \in older)
  /\ \A i, j, k \in Listed :
       <<i, j>> \in older /\ <<j, k>> \in older => <<i, k>> \in older
  /\ waiting \subseteq Jobs /\ armed \subseteq Jobs /\ finishing \subseteq Jobs
  /\ file \in [Jobs -> {"none", "open", "deferring", "failing", "pending",
                        "gone"}]
  /\ sealedRev \in [Jobs -> Nat] /\ shown \in [Jobs -> Nat]
  /\ worker \in [pc: {"check", "measure", "sleep", "admit", "send", "reply",
                      "verify", "publish", "commit", "remove", "finish", "block"},
                 job: Jobs \cup {NoJob}, rev: Nat]
  /\ channel \in BOOLEAN /\ online \in BOOLEAN
  /\ remote \in [Assets -> Jobs \cup {Absent, Unmarked}]
  /\ trashed \subseteq Assets /\ catalog \subseteq Assets
  /\ published \subseteq Jobs /\ cancelled \subseteq Jobs
  /\ cutShort \subseteq cancelled
  /\ trouble \in 0..MaxTrouble

(* A job is committed only with an asset that carries this job's marker and   *)
(* bytes and that the mount can serve from then on, whichever attempt, crash  *)
(* or duplicate answer the candidate came from (service.py:444-457, 748-762). *)
CommittedIsServed ==
  \A j \in Jobs :
    IsStored(record[j]) /\ record[j].state = "committed" =>
      LET a == record[j].candidate IN
      /\ remote[a] = j /\ a = record[j].bytes
      /\ a \in catalog \cup trashed

(* The private copy of a closed file is deleted only when its asset has been  *)
(* published or the user cancelled it (service.py:558-569, uploads.py:849).   *)
BytesNotLost ==
  \A j \in Jobs :
    file[j] # "none" /\ ~IsStored(record[j]) => j \in published \cup cancelled

(* A staged name is not left over: once its job has gone, the worker or the   *)
(* control command that ended it is about to drop it, although upload_finished *)
(* ignores a file that release has not registered yet (filesystem.py:688-709). *)
(* Left out is a cancel that raises when the job has already gone: the command *)
(* fails before upload_finished, and the name stays until a restart           *)
(* (service.py:1468-1474).                                                    *)
NoGhostName ==
  \A j \in Jobs :
    file[j] = "pending" =>
      \/ IsStored(record[j]) \/ j \in cutShort
      \/ At("finish", j) \/ j \in finishing

(* The worker never starts or keeps an attempt of a job somebody else may     *)
(* retry or cancel: while it talks to the server the record says attempting,  *)
(* even though it was picked from an older snapshot (uploads.py:633-673).     *)
AttemptIsExclusive ==
  \A j \in Jobs :
    worker.job = j /\ worker.pc \in {"send", "reply", "verify", "publish",
                                     "commit"} =>
      /\ Known(j) /\ record[j].state = "attempting"
      /\ j \notin waiting

(* Once the last close has succeeded, the name goes only when the asset is    *)
(* in the catalog, the user cancelled, or a restart set the job aside over    *)
(* what a failed write had left in it (filesystem.py:688-709).                *)
ClosedNameStays ==
  [][\A j \in Jobs :
       file[j] = "pending" /\ file'[j] # "pending" =>
         \/ j \in published' \cup cancelled'
         \/ j \in temp /\ j \in quarantined']_vars

(* Nothing is sent for a job after it was cancelled (service.py:693-716).     *)
CancelStopsUpload ==
  [][\A j \in Jobs, a \in Assets :
       j \in cancelled /\ remote[a] # j => remote'[a] # j]_vars

(***************************************************************************)
(* The service sees one more part of the lifecycle of a job than the queue: *)
(* what becomes of it when its record has gone.                            *)
(***************************************************************************)
JobPhase(j) ==
  IF IsStored(record[j]) THEN PhaseOf(record[j])
  ELSE IF j \in cancelled THEN "cancelled"
  ELSE IF file[j] = "none" THEN "new" ELSE "gone"

JobCandidate(j) ==
  IF IsStored(record[j]) THEN record[j].candidate ELSE NoAsset

Lifecycle ==
  INSTANCE JobLifecycle
    WITH phase <- [j \in Jobs |-> JobPhase(j)],
         candidate <- [j \in Jobs |-> JobCandidate(j)]

(* Whatever the worker, the control client, the server and a restart do, a   *)
(* job moves along the documented lifecycle: it is posted for once it is     *)
(* sealed, finished once, by a commit with an asset or a cancel without one, *)
(* and a restart ends all the finished jobs whose removal had failed or was   *)
(* interrupted, and no other (docs/research/queued-upload-recovery.md).       *)
FollowsLifecycle == Lifecycle!Spec

(* A due job the worker is told of, or that its timer waits for, is taken up, *)
(* also behind older jobs that fail (service.py:878-916).  The exception is   *)
(* the one the code makes: an older due job whose record can no longer be     *)
(* written, since a failed write left its temporary file, is taken up for     *)
(* ever and can neither be retried later nor blocked (service.py:511-539).    *)
Taken(j) == worker.job = j \/ ~Due(j) \/ ~online

Starved(j) == \E i \in temp : Due(i) /\ <<i, j>> \in older

WokenIsTaken ==
  \A j \in Jobs :
    Due(j) /\ (channel \/ (j \in armed /\ worker.pc = "sleep"))
      ~> Taken(j) \/ Starved(j)

(* The docs: one worker takes the jobs in the order they were sealed in, and  *)
(* retries outages at most every 60 seconds, indefinitely, with no exception  *)
(* (docs/research/queued-upload-recovery.md:81-83).                           *)
WokenIsAlwaysTaken ==
  \A j \in Jobs :
    Due(j) /\ (channel \/ (j \in armed /\ worker.pc = "sleep")) ~> Taken(j)

(* A name whose job has gone goes too (filesystem.py:688-709), unless the     *)
(* cancel was cut short, see NoGhostName.                                     *)
FinishedNameGoes ==
  \A j \in Jobs :
    file[j] = "pending" /\ ~IsStored(record[j])
      ~> file[j] # "pending" \/ j \in cutShort

(* The README: Cancel "refuses work that may already exist remotely".         *)
CancelledIsNotRemote ==
  \A j \in cancelled : \A a \in Assets : remote[a] # j

(* The README: after the last close "the staged name and bytes remain         *)
(* readable until the upload finishes".                                       *)
StagedUntilFinished ==
  \A j \in Jobs :
    /\ IsStored(record[j]) /\ IsSealed(record[j])
    /\ record[j].state # "committed"
    => file[j] \in {"deferring", "failing", "pending"}

(* The docs: outages are retried "after 5, 10, 20, 40, then at most 60        *)
(* seconds, indefinitely" (docs/research/queued-upload-recovery.md:83).       *)
OutageIsRetried ==
  \A j \in Jobs :
    Due(j) /\ record[j].error = "upload-unavailable" ~> Taken(j)
=============================================================================
