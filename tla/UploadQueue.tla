---------------------------- MODULE UploadQueue ----------------------------
(***************************************************************************)
(* The durable upload queue of uploads.py: one directory per job holding a *)
(* payload and a manifest, changed under one lock by the mount, the upload *)
(* worker and the control socket, and rebuilt from the directory by the    *)
(* next process.                                                           *)
(*                                                                         *)
(* Every durable step is an action of its own, so a crash can fall between *)
(* any two: a manifest is created as manifest.json.tmp, renamed over       *)
(* manifest.json and made durable by fsync of the directory; a finished    *)
(* job is removed by renaming its manifest to a tombstone, then unlinking  *)
(* the payload, the directory and the tombstone.  The lock holder is the   *)
(* variable lock; the two operations that release the lock while they hash *)
(* a payload leave their snapshot in hashing and admission.                *)
(***************************************************************************)
EXTENDS UploadManifest

CONSTANTS
  Jobs,         \* job identifiers (random UUIDs, never reused)
  NoManifest,   \* no such file
  MaxRevision,  \* bound: a manifest's revision
  MaxWrites     \* bound: versions of a payload

ASSUME QueueAssumption ==
  /\ NoManifest \notin Manifest
  /\ NoManifest \notin Jobs
  /\ MaxRevision \in Nat
  /\ MaxWrites \in Nat

VARIABLES
  dir,          \* jobs with a directory
  payload,      \* version of the payload file, NoPayload when there is none
  manifest,     \* manifest.json
  temp,         \* jobs with a manifest.json.tmp
  tombstone,    \* .cleanup-<job> in the queue root
  mode,         \* what the process is doing
  todo,         \* jobs the current phase of recovery has not reached
  valid,        \* _valid_ids
  quarantined,  \* _quarantined_names
  lock,         \* the serialised operation in progress
  hashing,      \* what seal read before it released the lock
  admission,    \* the provisional manifest of an attempt being verified
  attempt,      \* jobs whose payload is open for an upload request
  shown,        \* the status of a job a client last read
  born,         \* history: jobs ever begun
  handed,       \* history: jobs begin has returned to the mount
  sent,         \* history: jobs whose bytes may have reached the server
  damaged       \* history: jobs whose sealed payload was changed from outside

disk == <<dir, payload, manifest, temp, tombstone>>
memory == <<mode, todo, valid, quarantined, lock, hashing, admission, attempt>>
history == <<born, handed, sent, damaged>>
vars == <<disk, memory, shown, history>>

NoPayload == -1
Payload == 0..MaxWrites

(* lock.old is what the disk falls back to when a rename is not yet synced. *)
Unlocked ==
  [kind |-> "none", job |-> NoManifest, stage |-> "none",
   next |-> NoManifest, old |-> NoManifest]

Held(kind, j, stage, next, old) ==
  [kind |-> kind, job |-> j, stage |-> stage, next |-> next, old |-> old]

Free == lock.kind = "none"
At(stage) == lock.stage = stage

NoHash == [manifest |-> NoManifest, bytes |-> NoPayload]
StoredManifest == Manifest \cup {NoManifest}
IsStored(m) == m # NoManifest

Init ==
  /\ dir = {} /\ temp = {}
  /\ payload = [j \in Jobs |-> NoPayload]
  /\ manifest = [j \in Jobs |-> NoManifest]
  /\ tombstone = [j \in Jobs |-> NoManifest]
  /\ mode = "up" /\ todo = {} /\ valid = {} /\ quarantined = {}
  /\ lock = Unlocked
  /\ hashing = [j \in Jobs |-> NoHash]
  /\ admission = [j \in Jobs |-> NoManifest]
  /\ attempt = {}
  /\ shown = [j \in Jobs |-> NoManifest]
  /\ born = {} /\ handed = {} /\ sent = {} /\ damaged = {}

-----------------------------------------------------------------------------
(* _write_manifest, in three steps under the lock. *)

(* The record is validated and the temporary file created exclusively: a    *)
(* temporary left by an earlier failure makes every later update fail.      *)
StartWrite(kind, j, next) ==
  /\ ValidManifest(next)
  /\ next.revision <= MaxRevision
  /\ j \notin temp
  /\ temp' = temp \cup {j}
  /\ lock' = Held(kind, j, "temp", next, manifest[j])

RenameManifest ==
  /\ At("temp")
  /\ manifest' = [manifest EXCEPT ![lock.job] = lock.next]
  /\ temp' = temp \ {lock.job}
  /\ lock' = [lock EXCEPT !.stage = "renamed"]
  /\ UNCHANGED <<dir, payload, tombstone, mode, todo, valid, quarantined,
                 hashing, admission, attempt, shown, history>>

(* An operation that raises lets go of the lock.  While starting up an error *)
(* of the disk is not quarantinable, and the process gives up.               *)
Abandon ==
  /\ lock' = Unlocked
  /\ mode' = IF lock.kind = "recover" THEN "down" ELSE mode
  /\ valid' = IF lock.kind = "recover" THEN {} ELSE valid
  /\ quarantined' = IF lock.kind = "recover" THEN {} ELSE quarantined
  /\ todo' = IF lock.kind = "recover" THEN {} ELSE todo

(* The write or its fsync raises: the temporary file stays behind. *)
WriteFails ==
  /\ At("temp")
  /\ Abandon
  /\ UNCHANGED <<disk, hashing, admission, attempt, shown, history>>

(* fsync of the directory, and what the operation does once it returns. *)
SyncManifest ==
  LET j == lock.job IN
  /\ At("renamed")
  /\ lock' = IF lock.kind = "cancel"
               THEN [lock EXCEPT !.kind = "cleanup", !.stage = "entomb"]
               ELSE Unlocked
  /\ valid' = IF lock.kind \in {"begin", "recover"} THEN valid \cup {j} ELSE valid
  /\ handed' = IF lock.kind = "begin" THEN handed \cup {j} ELSE handed
  /\ admission' = IF lock.kind = "provisional"
                    THEN [admission EXCEPT ![j] = lock.next] ELSE admission
  /\ attempt' = IF lock.kind = "admit" THEN attempt \cup {j} ELSE attempt
  /\ UNCHANGED <<disk, mode, todo, quarantined, hashing, shown, born, sent,
                 damaged>>

(* The fsync of the directory raises: the record has been replaced, but the  *)
(* caller gets the error, so that nothing the operation does afterwards      *)
(* happens.                                                                  *)
SyncFails ==
  /\ At("renamed")
  /\ Abandon
  /\ UNCHANGED <<disk, hashing, admission, attempt, shown, history>>

-----------------------------------------------------------------------------
(* The operations.  Each needs the lock and a job the process knows. *)

Known(j) == mode = "up" /\ Free /\ j \in valid /\ IsStored(manifest[j])

Begin(j) ==
  /\ mode = "up" /\ Free /\ j \notin born
  /\ born' = born \cup {j}
  /\ dir' = dir \cup {j}
  /\ lock' = Held("begin", j, "payload", NewManifest, NoManifest)
  /\ UNCHANGED <<payload, manifest, temp, tombstone, mode, todo, valid,
                 quarantined, hashing, admission, attempt, shown, handed,
                 sent, damaged>>

CreatePayload ==
  /\ At("payload")
  /\ payload' = [payload EXCEPT ![lock.job] = 0]
  /\ lock' = [lock EXCEPT !.stage = "create"]
  /\ UNCHANGED <<dir, manifest, temp, tombstone, mode, todo, valid,
                 quarantined, hashing, admission, attempt, shown, history>>

CreateManifest ==
  /\ At("create")
  /\ StartWrite("begin", lock.job, lock.next)
  /\ UNCHANGED <<dir, payload, manifest, tombstone, mode, todo, valid,
                 quarantined, hashing, admission, attempt, shown, history>>

(* write and truncate through a draft's descriptor *)
WriteDraft(j) ==
  /\ Known(j) /\ IsDraft(manifest[j])
  /\ payload[j] < MaxWrites
  /\ payload' = [payload EXCEPT ![j] = @ + 1]
  /\ UNCHANGED <<dir, manifest, temp, tombstone, memory, shown, history>>

(* seal: the lock is released while the payload is synced and hashed. *)
BeginSeal(j) ==
  /\ Known(j) /\ IsDraft(manifest[j])
  /\ hashing[j] = NoHash
  /\ hashing' = [hashing EXCEPT
                   ![j] = [manifest |-> manifest[j], bytes |-> payload[j]]]
  /\ UNCHANGED <<disk, mode, todo, valid, quarantined, lock, admission,
                 attempt, shown, history>>

(* Mutation: seal compares the manifest again, and not the file. *)
UnmovedManifest(j) ==
  IsDraft(manifest[j]) /\ manifest[j] = hashing[j].manifest

Unmoved(j) ==
  /\ IsDraft(manifest[j])
  /\ manifest[j] = hashing[j].manifest
  /\ payload[j] = hashing[j].bytes

PublishSeal(j) ==
  /\ Known(j) /\ hashing[j] # NoHash
  /\ Unmoved(j)
  /\ StartWrite("update", j, Seal(manifest[j], hashing[j].bytes))
  /\ hashing' = [hashing EXCEPT ![j] = NoHash]
  /\ UNCHANGED <<dir, payload, manifest, tombstone, mode, todo, valid,
                 quarantined, admission, attempt, shown, history>>

SealRefused(j) ==
  /\ Known(j) /\ hashing[j] # NoHash
  /\ ~Unmoved(j)
  /\ hashing' = [hashing EXCEPT ![j] = NoHash]
  /\ UNCHANGED <<disk, mode, todo, valid, quarantined, lock, admission,
                 attempt, shown, history>>

(* The operations that read a manifest, check it and write its successor. *)
Update(kind, j, next) ==
  /\ StartWrite(kind, j, next)
  /\ UNCHANGED <<dir, payload, manifest, tombstone, mode, todo, valid,
                 quarantined, hashing, admission, attempt, shown, history>>

QueueMarkReplacement(j) ==
  /\ Known(j) /\ CanMarkReplacement(manifest[j])
  /\ Update("update", j, MarkReplacement(manifest[j]))

QueueBlockWriting(j) ==
  /\ Known(j) /\ IsDraft(manifest[j])
  /\ \E e \in OtherErrors : Update("update", j, BlockDraft(manifest[j], e))

QueueRecordCandidate(j) ==
  /\ Known(j) /\ CanRecordCandidate(manifest[j])
  /\ \E c \in Assets : Update("update", j, RecordCandidate(manifest[j], c))

QueueBeginReplacing(j) ==
  /\ Known(j) /\ CanBeginReplacing(manifest[j])
  /\ Update("update", j, BeginReplacing(manifest[j]))

QueueRetry(j) ==
  /\ Known(j) /\ CanRetry(manifest[j])
  /\ \E e \in OtherErrors : Update("update", j, Retry(manifest[j], e))

QueueRetryShown(j) ==
  /\ Known(j) /\ IsStored(shown[j])
  /\ CanRetryAt(manifest[j], shown[j].revision)
  /\ Update("update", j, Retry(manifest[j], NoError))

QueueBlock(j) ==
  /\ Known(j) /\ CanBlock(manifest[j])
  /\ \E e \in OtherErrors \cup {UploadRejected} :
       Update("update", j, Block(manifest[j], e))

QueueCommit(j) ==
  /\ Known(j) /\ CanCommit(manifest[j])
  /\ Update("update", j, Commit(manifest[j]))

(* cancel with the revision the user was shown; cleanup follows the write. *)
QueueCancel(j) ==
  /\ Known(j) /\ IsStored(shown[j])
  /\ CanCancel(manifest[j], shown[j].revision)
  /\ Update("cancel", j, Cancel(manifest[j]))

(* status *)
Show(j) ==
  /\ Known(j)
  /\ shown' = [shown EXCEPT ![j] = manifest[j]]
  /\ UNCHANGED <<disk, memory, history>>

-----------------------------------------------------------------------------
(* _begin_attempt: write ATTEMPTING, verify the payload unlocked, and count *)
(* the attempt before the descriptor is handed to the uploader.             *)

BeginAttempt(j) ==
  /\ Known(j) /\ CanAttempt(manifest[j])
  /\ admission[j] = NoManifest /\ j \notin attempt
  /\ Update("provisional", j, Provisional(manifest[j]))

Verified(j) == payload[j] = admission[j].bytes

AdmitAttempt(j) ==
  /\ Known(j) /\ IsStored(admission[j])
  /\ Verified(j) /\ manifest[j] = admission[j]
  /\ StartWrite("admit", j, Admit(admission[j]))
  /\ admission' = [admission EXCEPT ![j] = NoManifest]
  /\ UNCHANGED <<dir, payload, manifest, tombstone, mode, todo, valid,
                 quarantined, hashing, attempt, shown, history>>

(* The payload is not what was sealed: block, if nobody else moved the job. *)
RefuseAttempt(j) ==
  /\ Known(j) /\ IsStored(admission[j])
  /\ ~Verified(j) /\ manifest[j] = admission[j]
  /\ StartWrite("update", j, Block(admission[j], PayloadInvalid))
  /\ admission' = [admission EXCEPT ![j] = NoManifest]
  /\ UNCHANGED <<dir, payload, manifest, tombstone, mode, todo, valid,
                 quarantined, hashing, attempt, shown, history>>

(* Somebody changed the job during verification, or an I/O error ended it. *)
DropAttempt(j) ==
  /\ IsStored(admission[j])
  /\ admission' = [admission EXCEPT ![j] = NoManifest]
  /\ UNCHANGED <<disk, mode, todo, valid, quarantined, lock, hashing, attempt,
                 shown, history>>

(* The uploader reads the open descriptor; the server may receive the bytes. *)
SendPayload(j) ==
  /\ j \in attempt
  /\ sent' = sent \cup {j}
  /\ UNCHANGED <<disk, memory, shown, born, handed, damaged>>

CloseAttempt(j) ==
  /\ j \in attempt
  /\ attempt' = attempt \ {j}
  /\ UNCHANGED <<disk, mode, todo, valid, quarantined, lock, hashing,
                 admission, shown, history>>

-----------------------------------------------------------------------------
(* _cleanup_job and _finish_cleanup_marker *)

(* Mutation: a job that cannot go on is cleaned up like a finished one. *)
RemoveBlocked(j) ==
  /\ Known(j) /\ manifest[j].state \in {"committed", "blocked"}
  /\ lock' = Held("cleanup", j, "entomb", NoManifest, manifest[j])
  /\ UNCHANGED <<disk, mode, todo, valid, quarantined, hashing, admission,
                 attempt, shown, history>>

QueueRemove(j) ==
  /\ Known(j) /\ manifest[j].state = "committed"
  /\ lock' = Held("cleanup", j, "entomb", NoManifest, manifest[j])
  /\ UNCHANGED <<disk, mode, todo, valid, quarantined, hashing, admission,
                 attempt, shown, history>>

(* Mutation: the payload is unlinked before the tombstone stands for it. *)
UnlinkBeforeEntomb ==
  LET j == lock.job IN
  /\ At("entomb")
  /\ IF payload[j] # NoPayload
       THEN /\ payload' = [payload EXCEPT ![j] = NoPayload]
            /\ UNCHANGED <<manifest, tombstone, valid, lock>>
       ELSE /\ tombstone' = [tombstone EXCEPT ![j] = manifest[j]]
            /\ manifest' = [manifest EXCEPT ![j] = NoManifest]
            /\ valid' = valid \ {j}
            /\ lock' = [lock EXCEPT !.stage = "entombed", !.old = manifest[j]]
  /\ UNCHANGED <<dir, temp, mode, todo, quarantined, hashing, admission,
                 attempt, shown, history>>

(* Mutation: the job is still on offer once it has become a tombstone. *)
EntombOffered ==
  LET j == lock.job IN
  /\ At("entomb")
  /\ tombstone[j] = NoManifest
  /\ j \notin temp /\ payload[j] # NoPayload
  /\ tombstone' = [tombstone EXCEPT ![j] = manifest[j]]
  /\ manifest' = [manifest EXCEPT ![j] = NoManifest]
  /\ lock' = [lock EXCEPT !.stage = "entombed", !.old = manifest[j]]
  /\ UNCHANGED <<dir, payload, temp, mode, todo, valid, quarantined, hashing,
                 admission, attempt, shown, history>>

(* Exactly the two fixed files, and the manifest becomes the tombstone. *)
Entomb ==
  LET j == lock.job IN
  /\ At("entomb")
  /\ tombstone[j] = NoManifest
  /\ j \notin temp /\ payload[j] # NoPayload
  /\ tombstone' = [tombstone EXCEPT ![j] = manifest[j]]
  /\ manifest' = [manifest EXCEPT ![j] = NoManifest]
  /\ valid' = valid \ {j}
  /\ lock' = [lock EXCEPT !.stage = "entombed", !.old = manifest[j]]
  /\ UNCHANGED <<dir, payload, temp, mode, todo, quarantined, hashing,
                 admission, attempt, shown, history>>

UnlinkPayload ==
  /\ At("entombed")
  /\ payload' = [payload EXCEPT ![lock.job] = NoPayload]
  /\ lock' = [lock EXCEPT !.stage = "rmdir"]
  /\ UNCHANGED <<dir, manifest, temp, tombstone, mode, todo, valid,
                 quarantined, hashing, admission, attempt, shown, history>>

RemoveDirectory ==
  /\ At("rmdir")
  /\ dir' = dir \ {lock.job}
  /\ lock' = [lock EXCEPT !.stage = "unmark"]
  /\ UNCHANGED <<payload, manifest, temp, tombstone, mode, todo, valid,
                 quarantined, hashing, admission, attempt, shown, history>>

RemoveTombstone ==
  /\ At("unmark")
  /\ tombstone' = [tombstone EXCEPT ![lock.job] = NoManifest]
  /\ lock' = Unlocked
  /\ UNCHANGED <<dir, payload, manifest, temp, mode, todo, valid, quarantined,
                 hashing, admission, attempt, shown, history>>

(* Mutation: the failure keeps the lock's stage and loses its kind. *)
CleanupFailsHalfway ==
  /\ lock.stage \in {"entomb", "entombed", "rmdir", "unmark"}
  /\ lock' = [lock EXCEPT !.kind = "none"]
  /\ UNCHANGED <<disk, mode, todo, valid, quarantined, hashing, admission,
                 attempt, shown, history>>

(* An unlink, rmdir or fsync raises: the rest is left to the next startup,   *)
(* which is itself given up when the failure falls into recovery.            *)
CleanupFails ==
  /\ lock.stage \in {"entomb", "entombed", "rmdir", "unmark"}
  /\ lock' = Unlocked
  /\ mode' = IF mode = "up" THEN "up" ELSE "down"
  /\ valid' = IF mode = "up" THEN valid ELSE {}
  /\ quarantined' = IF mode = "up" THEN quarantined ELSE {}
  /\ todo' = {}
  /\ UNCHANGED <<disk, hashing, admission, attempt, shown, history>>

-----------------------------------------------------------------------------
(* _recover_startup: tombstones, then directories, then finished jobs. *)

Restart ==
  /\ mode = "down"
  /\ mode' = "tombstones"
  /\ todo' = {j \in Jobs : IsStored(tombstone[j])}
  /\ UNCHANGED <<disk, valid, quarantined, lock, hashing, admission, attempt,
                 shown, history>>

FinishTombstone(j) ==
  /\ mode = "tombstones" /\ Free /\ j \in todo
  /\ todo' = todo \ {j}
  /\ lock' = Held("finish", j,
                  IF j \notin dir THEN "unmark"
                  ELSE IF payload[j] # NoPayload THEN "entombed" ELSE "rmdir",
                  NoManifest, NoManifest)
  /\ UNCHANGED <<disk, mode, valid, quarantined, hashing, admission, attempt,
                 shown, history>>

StartScan ==
  /\ mode = "tombstones" /\ Free /\ todo = {}
  /\ mode' = "scan"
  /\ todo' = dir
  /\ UNCHANGED <<disk, valid, quarantined, lock, hashing, admission, attempt,
                 shown, history>>

Intact(j) ==
  j \notin temp /\ IsStored(manifest[j]) /\ payload[j] # NoPayload

Scanning(j) == mode = "scan" /\ Free /\ j \in todo

QuarantineJob(j) ==
  /\ Scanning(j) /\ ~Intact(j)
  /\ todo' = todo \ {j}
  /\ quarantined' = quarantined \cup {j}
  /\ UNCHANGED <<disk, mode, valid, lock, hashing, admission, attempt, shown,
                 history>>

RecoverDraft(j) ==
  /\ Scanning(j) /\ Intact(j) /\ manifest[j].state = "writing"
  /\ todo' = todo \ {j}
  /\ StartWrite("recover", j, BlockDraft(manifest[j], InterruptedWrite))
  /\ UNCHANGED <<dir, payload, manifest, tombstone, mode, valid, quarantined,
                 hashing, admission, attempt, shown, history>>

IsFinished(m) == m.state \in {"committed", "cancelled"}

RecoverJob(j) ==
  /\ Scanning(j) /\ Intact(j) /\ manifest[j].state # "writing"
  /\ todo' = todo \ {j}
  /\ valid' = IF IsFinished(manifest[j]) THEN valid ELSE valid \cup {j}
  /\ UNCHANGED <<disk, mode, quarantined, lock, hashing, admission, attempt,
                 shown, history>>

StartCleanup ==
  /\ mode = "scan" /\ Free /\ todo = {}
  /\ mode' = "cleanup"
  /\ todo' = {j \in dir \ quarantined : Intact(j) /\ IsFinished(manifest[j])}
  /\ UNCHANGED <<disk, valid, quarantined, lock, hashing, admission, attempt,
                 shown, history>>

CleanupFinished(j) ==
  /\ mode = "cleanup" /\ Free /\ j \in todo
  /\ todo' = todo \ {j}
  /\ valid' = valid \cup {j}
  /\ lock' = Held("cleanup", j, "entomb", NoManifest, manifest[j])
  /\ UNCHANGED <<disk, mode, quarantined, hashing, admission, attempt, shown,
                 history>>

FinishRecovery ==
  /\ mode = "cleanup" /\ Free /\ todo = {}
  /\ mode' = "up"
  /\ UNCHANGED <<disk, todo, valid, quarantined, lock, hashing, admission,
                 attempt, shown, history>>

-----------------------------------------------------------------------------
(* The process is killed, or the machine loses power.  Directory entries     *)
(* that no fsync has covered may be lost with it: the temporary file, or the *)
(* last rename.                                                              *)

Forget ==
  /\ mode # "down"
  /\ mode' = "down" /\ todo' = {} /\ valid' = {} /\ quarantined' = {}
  /\ lock' = Unlocked
  /\ hashing' = [j \in Jobs |-> NoHash]
  /\ admission' = [j \in Jobs |-> NoManifest]
  /\ attempt' = {}
  /\ UNCHANGED <<shown, history>>

Crash == Forget /\ UNCHANGED disk

PowerLossBeforeRename ==
  /\ Forget
  /\ At("temp")
  /\ temp' = temp \ {lock.job}
  /\ UNCHANGED <<dir, payload, manifest, tombstone>>

PowerLossAfterRename ==
  /\ Forget
  /\ At("renamed")
  /\ manifest' = [manifest EXCEPT ![lock.job] = lock.old]
  /\ temp' \in {temp, temp \cup {lock.job}}
  /\ UNCHANGED <<dir, payload, tombstone>>

PowerLossAfterEntomb ==
  /\ Forget
  /\ At("entombed") /\ lock.kind = "cleanup"
  /\ manifest' = [manifest EXCEPT ![lock.job] = lock.old]
  /\ tombstone' = [tombstone EXCEPT ![lock.job] = NoManifest]
  /\ UNCHANGED <<dir, payload, temp>>

(* Something outside the service changes the bytes of a sealed payload. *)
DamagePayload(j) ==
  /\ IsStored(manifest[j]) /\ IsSealed(manifest[j])
  /\ payload[j] # NoPayload
  /\ \E b \in Payload \ {payload[j]} : payload' = [payload EXCEPT ![j] = b]
  /\ damaged' = damaged \cup {j}
  /\ UNCHANGED <<dir, manifest, temp, tombstone, memory, shown, born, handed,
                 sent>>

-----------------------------------------------------------------------------
Operation(j) ==
  \/ Begin(j) \/ WriteDraft(j)
  \/ BeginSeal(j) \/ PublishSeal(j) \/ SealRefused(j)
  \/ QueueMarkReplacement(j) \/ QueueBlockWriting(j)
  \/ QueueRecordCandidate(j) \/ QueueBeginReplacing(j)
  \/ QueueRetry(j) \/ QueueRetryShown(j) \/ QueueBlock(j)
  \/ QueueCommit(j) \/ QueueCancel(j) \/ QueueRemove(j) \/ Show(j)
  \/ BeginAttempt(j) \/ AdmitAttempt(j) \/ RefuseAttempt(j) \/ DropAttempt(j)
  \/ SendPayload(j) \/ CloseAttempt(j)

LockStep ==
  \/ CreatePayload \/ CreateManifest
  \/ RenameManifest \/ SyncManifest \/ WriteFails \/ SyncFails
  \/ Entomb \/ UnlinkPayload \/ RemoveDirectory \/ RemoveTombstone
  \/ CleanupFails

Recovery ==
  \/ Restart \/ StartScan \/ StartCleanup \/ FinishRecovery
  \/ \E j \in Jobs : FinishTombstone(j) \/ QuarantineJob(j) \/ RecoverDraft(j)
                     \/ RecoverJob(j) \/ CleanupFinished(j)

Environment ==
  \/ Crash \/ PowerLossBeforeRename \/ PowerLossAfterRename
  \/ PowerLossAfterEntomb
  \/ \E j \in Jobs : DamagePayload(j)

Next == (\E j \in Jobs : Operation(j)) \/ LockStep \/ Recovery \/ Environment

Spec == Init /\ [][Next]_vars
-----------------------------------------------------------------------------
Stages ==
  {"none", "payload", "create", "temp", "renamed",
   "entomb", "entombed", "rmdir", "unmark"}

Kinds ==
  {"none", "begin", "update", "provisional", "admit", "cancel", "recover",
   "cleanup", "finish"}

(* The type invariant. *)
TypeOK ==
  /\ dir \subseteq Jobs /\ temp \subseteq Jobs
  /\ payload \in [Jobs -> Payload \cup {NoPayload}]
  /\ manifest \in [Jobs -> StoredManifest]
  /\ tombstone \in [Jobs -> StoredManifest]
  /\ mode \in {"up", "down", "tombstones", "scan", "cleanup"}
  /\ todo \subseteq Jobs /\ valid \subseteq Jobs /\ quarantined \subseteq Jobs
  /\ lock \in [kind: Kinds, job: Jobs \cup {NoManifest}, stage: Stages,
               next: StoredManifest, old: StoredManifest]
  /\ lock.kind = "none" <=> lock.stage = "none"
  /\ ~Free => lock.job \in Jobs
  /\ hashing \in [Jobs -> [manifest: StoredManifest,
                           bytes: Payload \cup {NoPayload}]]
  /\ admission \in [Jobs -> StoredManifest]
  /\ attempt \subseteq Jobs
  /\ shown \in [Jobs -> StoredManifest]
  /\ born \subseteq Jobs /\ handed \subseteq Jobs
  /\ sent \subseteq Jobs /\ damaged \subseteq Jobs

(***************************************************************************)
(* What a restart would find: a rename is not durable until the directory  *)
(* has been synced.                                                        *)
(***************************************************************************)
Unsynced(j) ==
  /\ lock.job = j
  /\ \/ lock.stage = "renamed"
     \/ lock.stage = "entombed" /\ lock.kind = "cleanup"

Durable(j) == IF Unsynced(j) THEN lock.old ELSE manifest[j]

(* Every record a restart can bring back, or the operation in progress can  *)
(* still put on the disk.                                                   *)
Reachable(j) ==
  {manifest[j], tombstone[j]}
    \cup (IF lock.job = j THEN {lock.next, lock.old} ELSE {})

(* The records a crash or the next rename can leave as manifest.json. *)
OnDisk(j) ==
  {manifest[j]}
    \cup (IF lock.job = j /\ lock.stage \in {"temp", "renamed"}
            THEN {lock.next} ELSE {})
    \cup (IF \/ lock.job = j /\ lock.stage = "temp"
             \/ Unsynced(j)
            THEN {lock.old} ELSE {})

(***************************************************************************)
(* The inductive invariant behind the safety properties below: where the   *)
(* files of a job can be at each step of the lock holder.                  *)
(***************************************************************************)
UnbornJobs ==
  \A j \in Jobs \ born :
    /\ ~IsStored(manifest[j]) /\ ~IsStored(tombstone[j])
    /\ lock.job # j
    /\ j \notin handed \cup sent \cup attempt \cup valid

JobRecords ==
  \A j \in Jobs :
    /\ IsStored(manifest[j]) =>
         /\ ~IsStored(tombstone[j])
         /\ ValidManifest(manifest[j])
         /\ j \in dir
    /\ IsStored(tombstone[j]) => IsFinished(tombstone[j])

LockedJob ==
  LET j == lock.job IN
  /\ lock.stage = "none" => lock = Unlocked
  /\ lock.stage \in {"payload", "create"} =>
       /\ lock.kind = "begin" /\ lock.next = NewManifest
       /\ ~IsStored(manifest[j]) /\ ~IsStored(tombstone[j])
       /\ j \in dir
  /\ lock.stage = "create" => payload[j] # NoPayload
  /\ lock.stage \in {"temp", "renamed"} =>
       /\ lock.kind \in {"begin", "update", "provisional", "admit", "cancel",
                         "recover"}
       /\ IsStored(lock.next) /\ ValidManifest(lock.next)
       /\ ~IsStored(tombstone[j]) /\ j \in dir
       /\ lock.kind = "cancel" => lock.next.state = "cancelled"
       /\ lock.kind = "admit" => lock.next.attempts >= 1
       /\ IsStored(lock.old) => ValidManifest(lock.old)
       /\ IsStored(lock.old) \/ lock.kind = "begin"
  /\ lock.kind = "begin" => j \notin handed \cup sent \cup attempt
  /\ lock.stage = "temp" => manifest[j] = lock.old
  /\ lock.stage = "renamed" => manifest[j] = lock.next
  /\ lock.stage = "entomb" =>
       lock.kind = "cleanup" /\ IsStored(manifest[j]) /\ IsFinished(manifest[j])
  /\ lock.stage \in {"entombed", "rmdir", "unmark"} =>
       /\ lock.kind \in {"cleanup", "finish"}
       /\ ~IsStored(manifest[j]) /\ IsStored(tombstone[j])
  /\ lock.stage = "entombed" /\ lock.kind = "cleanup" =>
       lock.old = tombstone[j] /\ ValidManifest(lock.old) /\ j \in dir
  /\ lock.stage = "unmark" => j \notin dir

RecoveryTodo ==
  /\ mode = "down" => Free
  /\ mode = "tombstones" => \A j \in todo : IsStored(tombstone[j]) /\ lock.job # j
  /\ mode = "cleanup" =>
       \A j \in todo :
         IsStored(manifest[j]) /\ IsFinished(manifest[j]) /\ lock.job # j

PayloadBeside ==
  \A j \in Jobs : \A m \in OnDisk(j) :
    IsStored(m) =>
      /\ payload[j] # NoPayload
      /\ IsSealed(m) /\ j \notin damaged => payload[j] = m.bytes

AttemptRecorded ==
  \A j \in sent \cup attempt : \A m \in Reachable(j) :
    IsStored(m) => m.attempts >= 1

QueueInvariant ==
  /\ TypeOK
  /\ UnbornJobs
  /\ JobRecords
  /\ LockedJob
  /\ RecoveryTodo
  /\ PayloadBeside
  /\ AttemptRecorded

(* The hash in a sealed manifest is the hash of the payload beside it, even *)
(* though seal hashes with the lock released while writes go on             *)
(* (uploads.py:433-471), unless something outside changed the file later.   *)
SealMatchesPayload ==
  \A j \in Jobs \ damaged :
    /\ IsStored(manifest[j]) => payload[j] # NoPayload
    /\ IsStored(manifest[j]) /\ IsSealed(manifest[j]) =>
         payload[j] = manifest[j].bytes

(* Bytes the mount was handed stay on the disk with their manifest until the *)
(* job is finished; a payload is only ever missing behind the tombstone of a *)
(* committed or cancelled job, whatever step a crash interrupted             *)
(* (uploads.py:1034-1072, 1084-1107, 1381-1452).                             *)
BytesKept ==
  \A j \in handed :
    \/ j \in dir /\ payload[j] # NoPayload /\ IsStored(Durable(j))
    \/ IsStored(tombstone[j]) /\ IsFinished(tombstone[j])
    \/ j \notin dir /\ ~IsStored(manifest[j])

(* A payload that may have reached the server was counted as an attempt on   *)
(* disk first, so no crash or power loss brings back a record that cancel    *)
(* would take for never attempted (uploads.py:633-673, 870-873).             *)
SentIsRecorded ==
  \A j \in sent : \A m \in Reachable(j) : IsStored(m) => m.attempts >= 1

(* The revision a user confirms names one record: what was displayed and     *)
(* what cancel or retry then acts on are equal when the revisions are, also  *)
(* across crashes (uploads.py:849-863, 1417-1475 of service.py).             *)
RevisionNamesRecord ==
  \A j \in Jobs :
    /\ IsStored(shown[j]) /\ IsStored(Durable(j))
    /\ shown[j].revision = Durable(j).revision
    /\ shown[j].state # "writing"
    => shown[j] = Durable(j)

(* Once the service runs, a job on the disk that was handed out is either    *)
(* offered to the worker and the user, counted as quarantined because an     *)
(* interrupted update left its temporary file, or already finished behind a  *)
(* tombstone; and every job on offer has its files (uploads.py:1381-1452).   *)
NothingForgotten ==
  mode = "up" /\ Free =>
    /\ \A j \in handed \cap dir :
         \/ j \in valid
         \/ j \in quarantined /\ j \in temp
         \/ IsStored(tombstone[j])
    /\ \A j \in valid :
         j \in dir /\ IsStored(manifest[j]) /\ payload[j] # NoPayload

(* A remote asset recorded for a job is never forgotten or exchanged for     *)
(* another while the job exists, so a retry resumes with that asset instead  *)
(* of posting again (uploads.py:696-713, 741-796, 1381-1452).                *)
CandidateKept ==
  [][\A j \in Jobs :
       /\ IsStored(Durable(j)) /\ HasCandidate(Durable(j))
       /\ IsStored(Durable(j)')
       => Durable(j).candidate = Durable(j)'.candidate]_vars

(***************************************************************************)
(* The queue implements the lifecycle of JobLifecycle, seen through what is *)
(* durable.                                                                *)
(***************************************************************************)
JobPhase(j) ==
  IF IsStored(Durable(j)) THEN PhaseOf(Durable(j))
  ELSE IF IsStored(tombstone[j]) THEN PhaseOf(tombstone[j])
  ELSE IF j \in born \ dir THEN "gone" ELSE "new"

JobCandidate(j) ==
  IF IsStored(Durable(j)) THEN Durable(j).candidate
  ELSE IF IsStored(tombstone[j]) THEN tombstone[j].candidate
  ELSE NoAsset

Lifecycle ==
  INSTANCE JobLifecycle
    WITH phase <- [j \in Jobs |-> JobPhase(j)],
         candidate <- [j \in Jobs |-> JobCandidate(j)]

(* Whatever crashes, failed writes and concurrent requests do, a job only    *)
(* moves along the documented lifecycle: it is cancelled without a           *)
(* candidate, committed with one, and disappears only after either.          *)
FollowsLifecycle == Lifecycle!Spec
=============================================================================
