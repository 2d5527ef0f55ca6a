------------------------- MODULE UploadQueueProofs -------------------------
(***************************************************************************)
(* Theorems about UploadQueue, for every set of jobs, assets and error     *)
(* codes and every bound: first that its tables stay typed and agree with  *)
(* each other, then that the bytes of a job, its candidate and its place    *)
(* in the service survive whatever happens, and that the queue implements   *)
(* JobLifecycle.                                                            *)
(***************************************************************************)
EXTENDS UploadQueue, UploadManifestProofs, TLAPS

-----------------------------------------------------------------------------
(* Starting a write keeps the lock and the temporary files well-typed. *)
LEMMA StartWriteType ==
  ASSUME TypeOK, NEW j \in Jobs, NEW kind \in Kinds \ {"none"},
         NEW next \in Manifest, StartWrite(kind, j, next)
  PROVE  /\ temp' \subseteq Jobs
         /\ lock' \in [kind: Kinds, job: Jobs \cup {NoManifest}, stage: Stages,
                       next: StoredManifest, old: StoredManifest]
         /\ lock'.kind = "none" <=> lock'.stage = "none"
         /\ lock'.kind # "none" => lock'.job \in Jobs
  BY DEF TypeOK, StartWrite, Held, Stages, Kinds, StoredManifest

(* The update operations change the lock and the temporary file only. *)
LEMMA UpdateType ==
  ASSUME TypeOK, NEW j \in Jobs, NEW kind \in Kinds \ {"none"},
         NEW next \in Manifest, Update(kind, j, next)
  PROVE  TypeOK'
<1>1. StartWrite(kind, j, next)
  BY DEF Update
<1>2. /\ temp' \subseteq Jobs
      /\ lock' \in [kind: Kinds, job: Jobs \cup {NoManifest}, stage: Stages,
                    next: StoredManifest, old: StoredManifest]
      /\ lock'.kind = "none" <=> lock'.stage = "none"
      /\ lock'.kind # "none" => lock'.job \in Jobs
  BY <1>1, StartWriteType
<1> QED
  BY <1>2 DEF TypeOK, Update, Free, history

(* An operation on a job preserves the types. *)
LEMMA OperationType ==
  ASSUME TypeOK, NEW j \in Jobs, Operation(j)
  PROVE  TypeOK'
<1> USE DEF Kinds
<1>0. ASSUME Known(j)
      PROVE  manifest[j] \in Manifest
  BY <1>0 DEF Known, TypeOK, StoredManifest, IsStored
<1>1. CASE Begin(j)
  BY <1>1, NewIsManifest DEF Begin, TypeOK, Held, Stages, StoredManifest, Free
<1>2. CASE WriteDraft(j)
  <2>1. payload[j] \in Payload \cup {NoPayload} /\ MaxWrites \in Nat
    BY QueueAssumption DEF TypeOK
  <2>2. payload[j] + 1 \in Payload
    BY <1>2, <2>1 DEF WriteDraft, Payload, NoPayload
  <2> QED
    BY <1>2, <2>2 DEF WriteDraft, TypeOK, memory, history, Free
<1>3. CASE BeginSeal(j)
  BY <1>3, <1>0 DEF BeginSeal, TypeOK, disk, history, Free, StoredManifest
<1>4. CASE PublishSeal(j)
  <2>1. hashing[j].bytes \in Nat \cup {Unsealed}
    BY QueueAssumption DEF TypeOK, Payload, NoPayload, Unsealed
  <2>2. Seal(manifest[j], hashing[j].bytes) \in Manifest
    BY <1>4, <1>0, <2>1, UpdatesAreManifests DEF PublishSeal
  <2>3. /\ temp' \subseteq Jobs
        /\ lock' \in [kind: Kinds, job: Jobs \cup {NoManifest}, stage: Stages,
                      next: StoredManifest, old: StoredManifest]
        /\ lock'.kind = "none" <=> lock'.stage = "none"
        /\ lock'.kind # "none" => lock'.job \in Jobs
    BY <1>4, <2>2, StartWriteType DEF PublishSeal
  <2> QED
    BY <1>4, <2>3 DEF PublishSeal, TypeOK, NoHash, StoredManifest, history, Free
<1>5. CASE SealRefused(j)
  BY <1>5 DEF SealRefused, TypeOK, NoHash, StoredManifest, disk, history, Free
<1>6. CASE QueueMarkReplacement(j)
  BY <1>6, <1>0, UpdatesAreManifests, UpdateType DEF QueueMarkReplacement
<1>7. CASE QueueBlockWriting(j)
  BY <1>7, <1>0, UpdatesAreManifests, UpdateType
  DEF QueueBlockWriting, UploadErrorCode
<1>8. CASE QueueRecordCandidate(j)
  BY <1>8, <1>0, UpdatesAreManifests, UpdateType DEF QueueRecordCandidate
<1>9. CASE QueueBeginReplacing(j)
  BY <1>9, <1>0, UpdatesAreManifests, UpdateType DEF QueueBeginReplacing
<1>10. CASE QueueRetry(j)
  BY <1>10, <1>0, UpdatesAreManifests, UpdateType DEF QueueRetry, UploadErrorCode
<1>11. CASE QueueRetryShown(j)
  BY <1>11, <1>0, UpdatesAreManifests, UpdateType DEF QueueRetryShown
<1>12. CASE QueueBlock(j)
  BY <1>12, <1>0, UpdatesAreManifests, UpdateType DEF QueueBlock, UploadErrorCode
<1>13. CASE QueueCommit(j)
  BY <1>13, <1>0, UpdatesAreManifests, UpdateType DEF QueueCommit
<1>14. CASE QueueCancel(j)
  BY <1>14, <1>0, UpdatesAreManifests, UpdateType DEF QueueCancel
<1>15. CASE QueueRemove(j)
  BY <1>15, <1>0
  DEF QueueRemove, TypeOK, Held, Stages, StoredManifest, disk, history, Free
<1>16. CASE Show(j)
  BY <1>16 DEF Show, TypeOK, disk, memory, history, Free
<1>17. CASE BeginAttempt(j)
  BY <1>17, <1>0, UpdatesAreManifests, UpdateType DEF BeginAttempt
<1>18. CASE AdmitAttempt(j)
  <2>1. Admit(admission[j]) \in Manifest
    BY <1>18, UpdatesAreManifests DEF AdmitAttempt, TypeOK, StoredManifest, IsStored
  <2>2. /\ temp' \subseteq Jobs
        /\ lock' \in [kind: Kinds, job: Jobs \cup {NoManifest}, stage: Stages,
                      next: StoredManifest, old: StoredManifest]
        /\ lock'.kind = "none" <=> lock'.stage = "none"
        /\ lock'.kind # "none" => lock'.job \in Jobs
    BY <1>18, <2>1, StartWriteType DEF AdmitAttempt
  <2> QED
    BY <1>18, <2>2 DEF AdmitAttempt, TypeOK, StoredManifest, history, Free
<1>19. CASE RefuseAttempt(j)
  <2>1. Block(admission[j], PayloadInvalid) \in Manifest
    BY <1>19, UpdatesAreManifests
    DEF RefuseAttempt, TypeOK, StoredManifest, IsStored, UploadErrorCode
  <2>2. /\ temp' \subseteq Jobs
        /\ lock' \in [kind: Kinds, job: Jobs \cup {NoManifest}, stage: Stages,
                      next: StoredManifest, old: StoredManifest]
        /\ lock'.kind = "none" <=> lock'.stage = "none"
        /\ lock'.kind # "none" => lock'.job \in Jobs
    BY <1>19, <2>1, StartWriteType DEF RefuseAttempt
  <2> QED
    BY <1>19, <2>2 DEF RefuseAttempt, TypeOK, StoredManifest, history, Free
<1>20. CASE DropAttempt(j)
  BY <1>20 DEF DropAttempt, TypeOK, StoredManifest, disk, history, Free
<1>21. CASE SendPayload(j)
  BY <1>21 DEF SendPayload, TypeOK, disk, memory, Free
<1>22. CASE CloseAttempt(j)
  BY <1>22 DEF CloseAttempt, TypeOK, disk, history, Free
<1> QED
  BY <1>1, <1>2, <1>3, <1>4, <1>5, <1>6, <1>7, <1>8, <1>9, <1>10, <1>11,
     <1>12, <1>13, <1>14, <1>15, <1>16, <1>17, <1>18, <1>19, <1>20, <1>21,
     <1>22 DEF Operation

(* A step of the lock holder preserves the types. *)
LEMMA LockStepType ==
  ASSUME TypeOK, LockStep
  PROVE  TypeOK'
<1> USE DEF Kinds, Stages, StoredManifest
<1>0. ASSUME lock.stage # "none"
      PROVE  lock.job \in Jobs /\ lock.kind # "none"
  BY <1>0 DEF TypeOK, Free
<1>1. CASE CreatePayload
  <2>1. 0 \in Payload
    BY QueueAssumption DEF Payload
  <2> QED
    BY <1>1, <1>0, <2>1 DEF CreatePayload, TypeOK, At, history, Free
<1>2. CASE CreateManifest
  <2>1. /\ lock.job \in Jobs
        /\ StartWrite("begin", lock.job, lock.next)
    BY <1>2, <1>0 DEF CreateManifest, At
  <2>2. temp' \subseteq Jobs /\ lock' = Held("begin", lock.job, "temp", lock.next, manifest[lock.job])
    BY <2>1 DEF StartWrite, TypeOK
  <2> QED
    BY <1>2, <2>1, <2>2 DEF CreateManifest, TypeOK, Held, history, Free
<1>3. CASE RenameManifest
  BY <1>3, <1>0 DEF RenameManifest, TypeOK, At, history, Free
<1>4. CASE SyncManifest
  BY <1>4, <1>0 DEF SyncManifest, TypeOK, At, disk, Unlocked, Free
<1>5. CASE WriteFails \/ SyncFails
  BY <1>5, <1>0 DEF WriteFails, SyncFails, Abandon, TypeOK, At, disk, history, Unlocked, Free
<1>6. CASE Entomb
  BY <1>6, <1>0 DEF Entomb, TypeOK, At, history, Free
<1>7. CASE UnlinkPayload
  BY <1>7, <1>0 DEF UnlinkPayload, TypeOK, At, history, Free
<1>8. CASE RemoveDirectory
  BY <1>8, <1>0 DEF RemoveDirectory, TypeOK, At, history, Free
<1>9. CASE RemoveTombstone
  BY <1>9, <1>0 DEF RemoveTombstone, TypeOK, At, Unlocked, history, Free
<1>10. CASE CleanupFails
  BY <1>10, <1>0 DEF CleanupFails, TypeOK, disk, Unlocked, history, Free
<1> QED
  BY <1>1, <1>2, <1>3, <1>4, <1>5, <1>6, <1>7, <1>8, <1>9, <1>10 DEF LockStep

(* A step of startup recovery preserves the types. *)
LEMMA RecoveryType ==
  ASSUME TypeOK, Recovery
  PROVE  TypeOK'
<1> USE DEF Kinds, Stages, StoredManifest
<1>1. CASE Restart
  BY <1>1 DEF Restart, TypeOK, disk, history, Free
<1>2. CASE StartScan
  BY <1>2 DEF StartScan, TypeOK, disk, history, Free
<1>3. CASE StartCleanup
  BY <1>3 DEF StartCleanup, TypeOK, disk, history, Free
<1>4. CASE FinishRecovery
  BY <1>4 DEF FinishRecovery, TypeOK, disk, history, Free
<1>5. ASSUME NEW j \in Jobs, FinishTombstone(j)
      PROVE  TypeOK'
  BY <1>5 DEF FinishTombstone, TypeOK, Held, disk, history, Free
<1>6. ASSUME NEW j \in Jobs, QuarantineJob(j)
      PROVE  TypeOK'
  BY <1>6 DEF QuarantineJob, TypeOK, disk, history, Free
<1>7. ASSUME NEW j \in Jobs, RecoverDraft(j)
      PROVE  TypeOK'
  <2>1. BlockDraft(manifest[j], InterruptedWrite) \in Manifest
    BY <1>7, UpdatesAreManifests
    DEF RecoverDraft, Intact, TypeOK, IsStored, UploadErrorCode
  <2>2. /\ temp' \subseteq Jobs
        /\ lock' \in [kind: Kinds, job: Jobs \cup {NoManifest}, stage: Stages,
                      next: StoredManifest, old: StoredManifest]
        /\ lock'.kind = "none" <=> lock'.stage = "none"
        /\ lock'.kind # "none" => lock'.job \in Jobs
    BY <1>7, <2>1, StartWriteType DEF RecoverDraft
  <2> QED
    BY <1>7, <2>2 DEF RecoverDraft, TypeOK, history, Free
<1>8. ASSUME NEW j \in Jobs, RecoverJob(j)
      PROVE  TypeOK'
  BY <1>8 DEF RecoverJob, TypeOK, disk, history, Free
<1>9. ASSUME NEW j \in Jobs, CleanupFinished(j)
      PROVE  TypeOK'
  BY <1>9 DEF CleanupFinished, TypeOK, Held, disk, history, Free
<1> QED
  BY <1>1, <1>2, <1>3, <1>4, <1>5, <1>6, <1>7, <1>8, <1>9 DEF Recovery

(* A crash, a power loss or damage preserves the types. *)
LEMMA EnvironmentType ==
  ASSUME TypeOK, Environment
  PROVE  TypeOK'
<1> USE DEF Kinds, Stages, StoredManifest
<1>0. ASSUME Forget
      PROVE  /\ mode' = "down" /\ todo' = {} /\ valid' = {}
             /\ quarantined' = {} /\ attempt' = {}
             /\ lock' = Unlocked
             /\ hashing' \in [Jobs -> [manifest: StoredManifest,
                                       bytes: Payload \cup {NoPayload}]]
             /\ admission' \in [Jobs -> StoredManifest]
             /\ UNCHANGED <<shown, born, handed, sent, damaged>>
  BY <1>0 DEF Forget, NoHash, history
<1>a. lock.stage # "none" => lock.job \in Jobs
  BY DEF TypeOK, Free
<1>b. lock.old \in StoredManifest
  BY DEF TypeOK
<1>1. CASE Crash
  BY <1>1, <1>0 DEF Crash, TypeOK, Unlocked, disk, Free
<1>2. CASE PowerLossBeforeRename
  BY <1>2, <1>0 DEF PowerLossBeforeRename, TypeOK, Unlocked, Free
<1>3. CASE PowerLossAfterRename
  <2>1. Forget /\ lock.job \in Jobs
    BY <1>3, <1>a DEF PowerLossAfterRename, At
  <2>2. manifest' \in [Jobs -> StoredManifest]
    BY <1>3, <1>b DEF PowerLossAfterRename, TypeOK
  <2>3. temp' \subseteq Jobs /\ UNCHANGED <<dir, payload, tombstone>>
    BY <1>3, <2>1 DEF PowerLossAfterRename, TypeOK
  <2> QED
    BY <1>0, <2>1, <2>2, <2>3 DEF TypeOK, Unlocked, Free
<1>4. CASE PowerLossAfterEntomb
  <2>1. Forget
    BY <1>4 DEF PowerLossAfterEntomb
  <2>2. /\ manifest' \in [Jobs -> StoredManifest]
        /\ tombstone' \in [Jobs -> StoredManifest]
        /\ UNCHANGED <<dir, payload, temp>>
    BY <1>4, <1>b DEF PowerLossAfterEntomb, TypeOK
  <2> QED
    BY <1>0, <2>1, <2>2 DEF TypeOK, Unlocked, Free
<1>5. ASSUME NEW j \in Jobs, DamagePayload(j)
      PROVE  TypeOK'
  BY <1>5 DEF DamagePayload, TypeOK, memory, Free
<1> QED
  BY <1>1, <1>2, <1>3, <1>4, <1>5 DEF Environment

(* Type correctness of the queue, whatever is called and whatever fails. *)
THEOREM TypeCorrect == Spec => []TypeOK
<1>1. Init => TypeOK
  BY DEF Init, TypeOK, Unlocked, NoHash, Kinds, Stages, StoredManifest, Free
<1>2. TypeOK /\ [Next]_vars => TypeOK'
  <2> SUFFICES ASSUME TypeOK, [Next]_vars PROVE TypeOK'
    OBVIOUS
  <2>1. CASE UNCHANGED vars
    BY <2>1 DEF TypeOK, vars, disk, memory, history, Free
  <2>2. CASE Next
    BY <2>2, OperationType, LockStepType, RecoveryType, EnvironmentType DEF Next
  <2> QED BY <2>1, <2>2
<1> QED
  BY <1>1, <1>2, PTL DEF Spec

-----------------------------------------------------------------------------
(***************************************************************************)
(* The inductive invariant.  Most operations only start the write of a     *)
(* successor of the stored manifest; the first lemma covers them all.      *)
(***************************************************************************)
UpdateKinds == {"update", "provisional", "admit", "cancel", "recover"}

Successor(kind, m, next) ==
  /\ next \in Manifest
  /\ next.attempts >= m.attempts
  /\ kind = "admit" => next.attempts >= 1
  /\ kind = "cancel" => next.state = "cancelled"

(* Starting to write a successor of the stored manifest keeps the invariant: *)
(* the payload beside it is the one it names, and an attempt stays counted.  *)
LEMMA WriteStep ==
  ASSUME QueueInvariant, TypeOK', Free,
         NEW j \in Jobs, NEW kind \in UpdateKinds, NEW next,
         IsStored(manifest[j]),
         StartWrite(kind, j, next),
         Successor(kind, manifest[j], next),
         IsSealed(next) /\ j \notin damaged => payload[j] = next.bytes,
         UNCHANGED <<dir, payload, manifest, tombstone, mode, valid, attempt,
                     born, handed, sent, damaged>>,
         todo' \subseteq todo, mode \in {"up", "scan"}
  PROVE  QueueInvariant'
<1> USE DEF QueueInvariant, IsStored
<1>1. /\ lock' = [kind |-> kind, job |-> j, stage |-> "temp", next |-> next,
                  old |-> manifest[j]]
      /\ ValidManifest(next)
      /\ lock = Unlocked
  BY DEF StartWrite, Held, Free, TypeOK, LockedJob
<1>2. next # NoManifest
  BY QueueAssumption DEF Successor
<1>3. UnbornJobs'
  BY <1>1 DEF UnbornJobs
<1>4. JobRecords'
  BY <1>1 DEF JobRecords
<1>5. LockedJob'
  BY <1>1, <1>2 DEF LockedJob, UpdateKinds, Successor, JobRecords
<1>6. RecoveryTodo'
  BY <1>1 DEF RecoveryTodo, UpdateKinds
<1>7. PayloadBeside'
  BY <1>1 DEF PayloadBeside, OnDisk, Unsynced, UpdateKinds
<1>8. AttemptRecorded'
  <2>1. manifest[j].attempts \in Nat /\ next.attempts \in Nat
    BY DEF TypeOK, StoredManifest, Manifest, Successor
  <2>2. j \in sent \cup attempt => next.attempts >= 1
    BY <2>1 DEF AttemptRecorded, Reachable, Successor
  <2> QED
    BY <1>1, <2>2 DEF AttemptRecorded, Reachable
<1> QED
  BY <1>3, <1>4, <1>5, <1>6, <1>7, <1>8

(* What the queue knows of a job it may operate on. *)
LEMMA KnownJob ==
  ASSUME QueueInvariant, NEW j \in Jobs, Known(j)
  PROVE  /\ manifest[j] \in Manifest
         /\ IsStored(manifest[j]) /\ Free /\ mode = "up"
         /\ manifest[j].attempts \in Nat
         /\ IsSealed(manifest[j]) /\ j \notin damaged =>
              payload[j] = manifest[j].bytes
  BY DEF QueueInvariant, Known, TypeOK, StoredManifest, IsStored, Manifest,
     PayloadBeside, OnDisk

(* An update that keeps the sealed bytes and the attempts keeps the          *)
(* invariant.                                                                *)
LEMMA UpdateStep ==
  ASSUME QueueInvariant, TypeOK',
         NEW j \in Jobs, Known(j),
         NEW kind \in {"update", "provisional", "cancel"},
         NEW next \in Manifest,
         Keeps(manifest[j], next),
         kind = "cancel" => next.state = "cancelled",
         Update(kind, j, next)
  PROVE  QueueInvariant'
<1>1. Successor(kind, manifest[j], next)
  BY KnownJob DEF Keeps, Successor
<1>2. IsSealed(next) /\ j \notin damaged => payload[j] = next.bytes
  BY KnownJob DEF Keeps, IsSealed
<1> QED
  BY <1>1, <1>2, KnownJob, WriteStep DEF Update, UpdateKinds, history

(* A step that leaves the disk and the lock alone keeps the invariant. *)
LEMMA MemoryStep ==
  ASSUME QueueInvariant, TypeOK',
         UNCHANGED <<disk, mode, todo, valid, lock, born, handed, damaged>>,
         sent' \cup attempt' \subseteq sent \cup attempt
  PROVE  QueueInvariant'
<1> USE DEF QueueInvariant, disk
<1>1. UnbornJobs'
  BY DEF UnbornJobs
<1>2. JobRecords'
  BY DEF JobRecords
<1>3. LockedJob'
  BY DEF LockedJob
<1>4. RecoveryTodo'
  BY DEF RecoveryTodo, Free
<1>5. PayloadBeside'
  BY DEF PayloadBeside, OnDisk, Unsynced
<1>6. AttemptRecorded'
  BY DEF AttemptRecorded, Reachable
<1> QED
  BY <1>1, <1>2, <1>3, <1>4, <1>5, <1>6

(* Every operation on a job keeps the invariant. *)
LEMMA OperationInvariant ==
  ASSUME QueueInvariant, NEW j \in Jobs, Operation(j)
  PROVE  QueueInvariant'
<1>0. TypeOK'
  BY OperationType DEF QueueInvariant
<1>1. CASE Begin(j)
  <2> USE <1>0, <1>1 DEF QueueInvariant, Begin
  <2>1. lock' = [kind |-> "begin", job |-> j, stage |-> "payload",
                 next |-> NewManifest, old |-> NoManifest] /\ lock = Unlocked
    BY DEF Held, Free, TypeOK, LockedJob
  <2>2. UnbornJobs'
    BY <2>1 DEF UnbornJobs
  <2>3. JobRecords'
    BY <2>1 DEF JobRecords
  <2>4. LockedJob'
    BY <2>1 DEF LockedJob, UnbornJobs
  <2>5. RecoveryTodo'
    BY <2>1 DEF RecoveryTodo
  <2>6. PayloadBeside'
    BY <2>1 DEF PayloadBeside, OnDisk, Unsynced, UnbornJobs
  <2>7. AttemptRecorded'
    BY <2>1 DEF AttemptRecorded, Reachable, UnbornJobs
  <2> QED BY <2>2, <2>3, <2>4, <2>5, <2>6, <2>7
<1>2. CASE WriteDraft(j)
  <2> USE <1>0, <1>2 DEF QueueInvariant, WriteDraft
  <2>1. lock = Unlocked /\ lock' = lock /\ lock.job # j
    BY QueueAssumption DEF Known, Free, TypeOK, LockedJob, memory, Unlocked
  <2>2. ~IsSealed(manifest[j])
    BY DEF Known, JobRecords, ValidManifest, ValidState, IsDraft
  <2>3. payload' = [payload EXCEPT ![j] = payload[j] + 1]
        /\ payload[j] + 1 # NoPayload
    BY KnownJob DEF Known, PayloadBeside, OnDisk, TypeOK, Payload, NoPayload
  <2>4. UnbornJobs'
    BY DEF UnbornJobs, memory, history
  <2>5. JobRecords'
    BY DEF JobRecords
  <2>6. LockedJob'
    BY <2>1 DEF LockedJob, Unlocked, Known, Free
  <2>7. RecoveryTodo'
    BY DEF RecoveryTodo, memory, Free
  <2>8. PayloadBeside'
    BY <2>1, <2>2, <2>3 DEF PayloadBeside, OnDisk, Unsynced, TypeOK, history
  <2>9. AttemptRecorded'
    BY DEF AttemptRecorded, Reachable, memory, history
  <2> QED BY <2>4, <2>5, <2>6, <2>7, <2>8, <2>9
<1>3. CASE BeginSeal(j)
  BY <1>0, <1>3, MemoryStep DEF BeginSeal, history
<1>4. CASE PublishSeal(j)
  <2>1. hashing[j].bytes \in Nat \cup {Unsealed}
    BY QueueAssumption DEF QueueInvariant, TypeOK, Payload, NoPayload, Unsealed
  <2>2. Known(j)
    BY <1>4 DEF PublishSeal
  <2> DEFINE next == Seal(manifest[j], hashing[j].bytes)
  <2>3. next \in Manifest /\ next.bytes = payload[j]
        /\ next.attempts = manifest[j].attempts
    BY <1>4, <2>1, <2>2, KnownJob, UpdatesAreManifests, UpdatesKeep
    DEF PublishSeal, Unmoved
  <2>4. Successor("update", manifest[j], next)
    BY <2>2, <2>3, KnownJob DEF Successor
  <2> HIDE DEF next
  <2> QED
    BY <1>0, <1>4, <2>2, <2>3, <2>4, KnownJob, WriteStep
    DEF PublishSeal, UpdateKinds, history, next
<1>5. CASE SealRefused(j)
  BY <1>0, <1>5, MemoryStep DEF SealRefused, history
<1>6. CASE QueueMarkReplacement(j)
  BY <1>0, <1>6, KnownJob, UpdatesAreManifests, UpdatesKeep, UpdateStep
  DEF QueueMarkReplacement
<1>7. CASE QueueBlockWriting(j)
  BY <1>0, <1>7, KnownJob, UpdatesAreManifests, UpdatesKeep, UpdateStep
  DEF QueueBlockWriting, UploadErrorCode
<1>8. CASE QueueRecordCandidate(j)
  BY <1>0, <1>8, KnownJob, UpdatesAreManifests, UpdatesKeep, UpdateStep
  DEF QueueRecordCandidate
<1>9. CASE QueueBeginReplacing(j)
  BY <1>0, <1>9, KnownJob, UpdatesAreManifests, UpdatesKeep, UpdateStep
  DEF QueueBeginReplacing
<1>10. CASE QueueRetry(j)
  BY <1>0, <1>10, KnownJob, UpdatesAreManifests, UpdatesKeep, UpdateStep
  DEF QueueRetry, UploadErrorCode
<1>11. CASE QueueRetryShown(j)
  BY <1>0, <1>11, KnownJob, UpdatesAreManifests, UpdatesKeep, UpdateStep
  DEF QueueRetryShown
<1>12. CASE QueueBlock(j)
  BY <1>0, <1>12, KnownJob, UpdatesAreManifests, UpdatesKeep, UpdateStep
  DEF QueueBlock, UploadErrorCode
<1>13. CASE QueueCommit(j)
  BY <1>0, <1>13, KnownJob, UpdatesAreManifests, UpdatesKeep, UpdateStep
  DEF QueueCommit
<1>14. CASE QueueCancel(j)
  BY <1>0, <1>14, KnownJob, UpdatesAreManifests, UpdatesKeep, UpdateStep
  DEF QueueCancel
<1>15. CASE QueueRemove(j)
  <2> USE <1>0, <1>15 DEF QueueInvariant, QueueRemove, disk, history
  <2>1. lock' = [kind |-> "cleanup", job |-> j, stage |-> "entomb",
                 next |-> NoManifest, old |-> manifest[j]]
        /\ lock = Unlocked /\ IsStored(manifest[j]) /\ mode = "up"
    BY DEF Known, Held, Free, TypeOK, LockedJob
  <2>2. UnbornJobs'
    BY <2>1 DEF UnbornJobs
  <2>3. JobRecords'
    BY DEF JobRecords
  <2>4. LockedJob'
    BY <2>1 DEF LockedJob, IsFinished
  <2>5. RecoveryTodo'
    BY <2>1 DEF RecoveryTodo
  <2>6. PayloadBeside'
    BY <2>1 DEF PayloadBeside, OnDisk, Unsynced
  <2>7. AttemptRecorded'
    BY <2>1 DEF AttemptRecorded, Reachable, IsStored
  <2> QED BY <2>2, <2>3, <2>4, <2>5, <2>6, <2>7
<1>16. CASE Show(j)
  BY <1>0, <1>16, MemoryStep DEF Show, memory, history
<1>17. CASE BeginAttempt(j)
  BY <1>0, <1>17, KnownJob, UpdatesAreManifests, UpdatesKeep, UpdateStep
  DEF BeginAttempt
<1>18. CASE AdmitAttempt(j)
  <2>1. Known(j) /\ admission[j] = manifest[j]
    BY <1>18 DEF AdmitAttempt
  <2> DEFINE next == Admit(manifest[j])
  <2>2. next \in Manifest /\ next.bytes = manifest[j].bytes
        /\ next.attempts = manifest[j].attempts + 1
    BY <2>1, KnownJob, UpdatesAreManifests, UpdatesKeep
  <2>3. Successor("admit", manifest[j], next)
    BY <2>1, <2>2, KnownJob DEF Successor
  <2>4. IsSealed(next) /\ j \notin damaged => payload[j] = next.bytes
    BY <2>1, <2>2, KnownJob DEF IsSealed
  <2>5. StartWrite("admit", j, next)
    BY <1>18, <2>1 DEF AdmitAttempt
  <2> HIDE DEF next
  <2> QED
    BY <1>0, <1>18, <2>1, <2>3, <2>4, <2>5, KnownJob, WriteStep
    DEF AdmitAttempt, UpdateKinds, history
<1>19. CASE RefuseAttempt(j)
  <2>1. Known(j) /\ admission[j] = manifest[j]
    BY <1>19 DEF RefuseAttempt
  <2> DEFINE next == Block(manifest[j], PayloadInvalid)
  <2>2. next \in Manifest /\ Keeps(manifest[j], next)
    BY <2>1, KnownJob, UpdatesAreManifests, UpdatesKeep DEF UploadErrorCode
  <2>3. Successor("update", manifest[j], next)
    BY <2>1, <2>2, KnownJob DEF Successor, Keeps
  <2>4. IsSealed(next) /\ j \notin damaged => payload[j] = next.bytes
    BY <2>1, <2>2, KnownJob DEF IsSealed, Keeps
  <2>5. StartWrite("update", j, next)
    BY <1>19, <2>1 DEF RefuseAttempt
  <2> HIDE DEF next
  <2> QED
    BY <1>0, <1>19, <2>1, <2>3, <2>4, <2>5, KnownJob, WriteStep
    DEF RefuseAttempt, UpdateKinds, history
<1>20. CASE DropAttempt(j)
  BY <1>0, <1>20, MemoryStep DEF DropAttempt, history
<1>21. CASE SendPayload(j)
  BY <1>0, <1>21, MemoryStep DEF SendPayload, memory
<1>22. CASE CloseAttempt(j)
  BY <1>0, <1>22, MemoryStep DEF CloseAttempt, history
<1> QED
  BY <1>1, <1>2, <1>3, <1>4, <1>5, <1>6, <1>7, <1>8, <1>9, <1>10, <1>11,
     <1>12, <1>13, <1>14, <1>15, <1>16, <1>17, <1>18, <1>19, <1>20, <1>21,
     <1>22 DEF Operation

(* Every step of the lock holder keeps the invariant. *)
LEMMA LockStepInvariant ==
  ASSUME QueueInvariant, LockStep
  PROVE  QueueInvariant'
<1>t. TypeOK'
  BY LockStepType DEF QueueInvariant
<1>0. /\ TypeOK /\ UnbornJobs /\ JobRecords /\ LockedJob /\ RecoveryTodo
      /\ PayloadBeside /\ AttemptRecorded
  BY DEF QueueInvariant
<1>l. lock.stage # "none" => lock.job \in Jobs /\ ~Free /\ lock.job \in born
  BY <1>0 DEF TypeOK, Free, UnbornJobs
<1>n. NoManifest \notin Jobs /\ NoManifest \notin Manifest
  BY QueueAssumption
<1>d. todo \subseteq Jobs /\ sent \subseteq Jobs /\ attempt \subseteq Jobs
  BY <1>0 DEF TypeOK
<1> USE DEF IsStored
<1>1. CASE CreatePayload
  <2> USE <1>0, <1>d, <1>l DEF history
  <2>1. /\ lock'.stage = "create" /\ lock'.kind = lock.kind
        /\ lock'.job = lock.job /\ lock'.next = lock.next /\ lock'.old = lock.old
    BY <1>0, <1>1 DEF CreatePayload, At, TypeOK
  <2>2. /\ lock.job \in Jobs /\ lock.stage = "payload"
        /\ \A j \in Jobs \ {lock.job} : payload'[j] = payload[j]
        /\ payload'[lock.job] # NoPayload
        /\ ~IsStored(manifest[lock.job])
        /\ UNCHANGED <<dir, manifest, temp, tombstone, mode, todo, valid,
                       attempt, history>>
    BY <1>0, <1>1, <1>l DEF CreatePayload, At, TypeOK, LockedJob, NoPayload
  <2>3. UnbornJobs'
    BY <2>1, <2>2 DEF UnbornJobs
  <2>4. JobRecords'
    BY <2>1, <2>2 DEF JobRecords
  <2>5. LockedJob'
    BY <2>1, <2>2 DEF LockedJob
  <2>6. RecoveryTodo'
    BY <2>1, <2>2 DEF RecoveryTodo, Free
  <2>7. PayloadBeside'
    BY <2>1, <2>2 DEF PayloadBeside, OnDisk, Unsynced
  <2>8. AttemptRecorded'
    BY <2>1, <2>2 DEF AttemptRecorded, Reachable
  <2> QED
    BY <1>t, <2>3, <2>4, <2>5, <2>6, <2>7, <2>8 DEF QueueInvariant
<1>2. CASE CreateManifest
  <2> USE <1>0, <1>d, <1>l DEF history
  <2>1. /\ lock.job \in Jobs /\ lock.stage = "create"
        /\ lock.next = NewManifest /\ manifest[lock.job] = NoManifest
        /\ payload[lock.job] # NoPayload
        /\ StartWrite("begin", lock.job, NewManifest)
        /\ UNCHANGED <<dir, payload, manifest, tombstone, mode, todo, valid,
                       attempt, history>>
    BY <1>0, <1>2, <1>l DEF CreateManifest, At, LockedJob
  <2>2. /\ lock'.stage = "temp" /\ lock'.kind = "begin"
        /\ lock'.job = lock.job /\ lock'.next = NewManifest /\ lock'.old = NoManifest
    BY <2>1 DEF StartWrite, Held
  <2>3. /\ ValidManifest(NewManifest) /\ NewManifest # NoManifest
        /\ ~IsSealed(NewManifest)
    BY <1>n, <2>1, NewIsManifest DEF StartWrite, NewManifest, IsSealed
  <2>4. UnbornJobs'
    BY <2>1, <2>2, <2>3 DEF UnbornJobs
  <2>5. JobRecords'
    BY <2>1, <2>2, <2>3 DEF JobRecords
  <2>6. LockedJob'
    BY <2>1, <2>2, <2>3 DEF LockedJob
  <2>7. RecoveryTodo'
    BY <2>1, <2>2, <2>3 DEF RecoveryTodo, Free
  <2>8. PayloadBeside'
    BY <2>1, <2>2, <2>3 DEF PayloadBeside, OnDisk, Unsynced
  <2>9. AttemptRecorded'
    BY <2>1, <2>2, <2>3 DEF AttemptRecorded, Reachable
  <2> QED
    BY <1>t, <2>4, <2>5, <2>6, <2>7, <2>8, <2>9 DEF QueueInvariant
<1>3. CASE RenameManifest
  <2> USE <1>0, <1>d, <1>l DEF history
  <2>1. /\ lock'.stage = "renamed" /\ lock'.kind = lock.kind
        /\ lock'.job = lock.job /\ lock'.next = lock.next /\ lock'.old = lock.old
    BY <1>0, <1>3 DEF RenameManifest, At, TypeOK
  <2>2. /\ lock.job \in Jobs /\ lock.stage = "temp"
        /\ manifest'[lock.job] = lock.next
        /\ \A j \in Jobs \ {lock.job} : manifest'[j] = manifest[j]
        /\ ValidManifest(lock.next) /\ lock.job \in dir
        /\ ~IsStored(tombstone[lock.job])
        /\ UNCHANGED <<dir, payload, tombstone, mode, todo, valid, attempt,
                       history>>
    BY <1>0, <1>3, <1>l DEF RenameManifest, At, TypeOK, LockedJob
  <2>3. UnbornJobs'
    BY <2>1, <2>2 DEF UnbornJobs
  <2>4. JobRecords'
    BY <2>1, <2>2 DEF JobRecords
  <2>5. LockedJob'
    BY <2>1, <2>2 DEF LockedJob
  <2>6. RecoveryTodo'
    BY <2>1, <2>2 DEF RecoveryTodo, Free
  <2>7. PayloadBeside'
    BY <2>1, <2>2 DEF PayloadBeside, OnDisk, Unsynced
  <2>8. AttemptRecorded'
    BY <2>1, <2>2 DEF AttemptRecorded, Reachable
  <2> QED
    BY <1>t, <2>3, <2>4, <2>5, <2>6, <2>7, <2>8 DEF QueueInvariant
<1>4. CASE SyncManifest
  <2>1. /\ lock.job \in Jobs /\ lock.job \in born /\ lock.stage = "renamed"
        /\ manifest[lock.job] = lock.next /\ IsStored(lock.next)
        /\ ~IsStored(tombstone[lock.job])
        /\ UNCHANGED <<disk, mode, todo, born, sent, damaged>>
        /\ valid' \subseteq valid \cup {lock.job}
        /\ handed' \subseteq handed \cup {lock.job}
        /\ attempt' = IF lock.kind = "admit" THEN attempt \cup {lock.job}
                      ELSE attempt
    BY <1>0, <1>4, <1>l DEF SyncManifest, At, LockedJob
  <2>2. CASE lock.kind = "cancel"
    <3>1. /\ lock'.stage = "entomb" /\ lock'.kind = "cleanup"
          /\ lock'.job = lock.job /\ lock'.next = lock.next
          /\ lock'.old = lock.old
      BY <1>0, <1>4, <2>2 DEF SyncManifest, TypeOK
    <3>2. IsFinished(lock.next)
      BY <1>0, <2>1, <2>2 DEF LockedJob, IsFinished
    <3>3. UnbornJobs'
      BY <1>0, <2>1, <2>2, <3>1, <3>2 DEF UnbornJobs, disk
    <3>4. JobRecords'
      BY <1>0, <2>1, <2>2, <3>1, <3>2 DEF JobRecords, disk
    <3>5. LockedJob'
      BY <1>0, <2>1, <2>2, <3>1, <3>2 DEF LockedJob, disk
    <3>6. RecoveryTodo'
      BY <1>0, <2>1, <2>2, <3>1, <3>2 DEF RecoveryTodo, Free, disk
    <3>7. PayloadBeside'
      BY <1>0, <2>1, <2>2, <3>1, <3>2
      DEF PayloadBeside, OnDisk, Unsynced, disk
    <3>8. AttemptRecorded'
      BY <1>0, <2>1, <2>2, <3>1, <3>2 DEF AttemptRecorded, Reachable, disk
    <3> QED
      BY <1>t, <3>3, <3>4, <3>5, <3>6, <3>7, <3>8 DEF QueueInvariant
  <2>3. CASE lock.kind # "cancel"
    <3>1. /\ lock' = Unlocked
          /\ lock'.stage = "none" /\ lock'.kind = "none" /\ lock'.job = NoManifest
          /\ lock'.next = NoManifest /\ lock'.old = NoManifest
      BY <1>4, <2>3 DEF SyncManifest, Unlocked
    <3>2. UnbornJobs'
      BY <1>0, <1>d, <1>n, <2>1, <2>3, <3>1 DEF UnbornJobs, disk
    <3>3. JobRecords'
      BY <1>0, <1>d, <1>n, <2>1, <2>3, <3>1 DEF JobRecords, disk
    <3>4. LockedJob'
      BY <1>0, <1>d, <1>n, <2>1, <2>3, <3>1 DEF LockedJob, disk
    <3>5. RecoveryTodo'
      BY <1>0, <1>d, <1>n, <2>1, <2>3, <3>1 DEF RecoveryTodo, Free, disk
    <3>6. PayloadBeside'
      BY <1>0, <1>d, <1>n, <2>1, <2>3, <3>1
      DEF PayloadBeside, OnDisk, Unsynced, disk
    <3>7. AttemptRecorded'
      <4>1. SUFFICES ASSUME NEW j \in sent \cup attempt',
                            NEW m \in {manifest[j], tombstone[j]}, IsStored(m)
                     PROVE  m.attempts >= 1
        BY <1>d, <1>n, <2>1, <3>1 DEF AttemptRecorded, Reachable, disk
      <4>2. CASE j \in sent \cup attempt
        BY <1>0, <4>1, <4>2 DEF AttemptRecorded, Reachable
      <4>3. CASE j = lock.job /\ lock.kind = "admit"
        BY <1>0, <2>1, <4>1, <4>3 DEF LockedJob
      <4> QED
        BY <2>1, <4>1, <4>2, <4>3
    <3> QED
      BY <1>t, <3>2, <3>3, <3>4, <3>5, <3>6, <3>7 DEF QueueInvariant
  <2> QED
    BY <2>2, <2>3
<1>5. CASE WriteFails \/ SyncFails
  <2> USE <1>0, <1>d, <1>l, <1>n DEF history, disk
  <2>1. /\ lock' = Unlocked
        /\ lock'.stage = "none" /\ lock'.kind = "none" /\ lock'.job = NoManifest
        /\ lock'.next = NoManifest /\ lock'.old = NoManifest
    BY <1>5 DEF WriteFails, SyncFails, Abandon, Unlocked
  <2>2. /\ lock.stage \in {"temp", "renamed"}
        /\ UNCHANGED <<disk, attempt, history>>
        /\ valid' \subseteq valid /\ todo' \subseteq todo
        /\ mode' \in {mode, "down"}
    BY <1>5 DEF WriteFails, SyncFails, Abandon, At
  <2>3. UnbornJobs'
    BY <2>1, <2>2 DEF UnbornJobs
  <2>4. JobRecords'
    BY <2>1, <2>2 DEF JobRecords
  <2>5. LockedJob'
    BY <2>1, <2>2 DEF LockedJob
  <2>6. RecoveryTodo'
    BY <2>1, <2>2 DEF RecoveryTodo, Free
  <2>7. PayloadBeside'
    BY <2>1, <2>2 DEF PayloadBeside, OnDisk, Unsynced
  <2>8. AttemptRecorded'
    BY <2>1, <2>2 DEF AttemptRecorded, Reachable
  <2> QED
    BY <1>t, <2>3, <2>4, <2>5, <2>6, <2>7, <2>8 DEF QueueInvariant
<1>6. CASE Entomb
  <2> USE <1>0, <1>d, <1>l DEF history
  <2>1. /\ lock'.stage = "entombed" /\ lock'.kind = lock.kind
        /\ lock'.job = lock.job /\ lock'.next = lock.next /\ lock'.old = manifest[lock.job]
    BY <1>0, <1>6 DEF Entomb, At, TypeOK
  <2>2. /\ lock.job \in Jobs /\ lock.stage = "entomb"
        /\ lock.kind = "cleanup"
        /\ IsStored(manifest[lock.job]) /\ IsFinished(manifest[lock.job])
        /\ ValidManifest(manifest[lock.job]) /\ lock.job \in dir
        /\ manifest'[lock.job] = NoManifest
        /\ tombstone'[lock.job] = manifest[lock.job]
        /\ \A j \in Jobs \ {lock.job} :
             manifest'[j] = manifest[j] /\ tombstone'[j] = tombstone[j]
        /\ valid' \subseteq valid
        /\ UNCHANGED <<dir, payload, mode, todo, attempt, history>>
    BY <1>0, <1>6, <1>l DEF Entomb, At, TypeOK, LockedJob, JobRecords
  <2>3. UnbornJobs'
    BY <2>1, <2>2 DEF UnbornJobs
  <2>4. JobRecords'
    BY <2>1, <2>2 DEF JobRecords
  <2>5. LockedJob'
    BY <2>1, <2>2 DEF LockedJob
  <2>6. RecoveryTodo'
    BY <2>1, <2>2 DEF RecoveryTodo, Free
  <2>7. PayloadBeside'
    BY <2>1, <2>2 DEF PayloadBeside, OnDisk, Unsynced
  <2>8. AttemptRecorded'
    BY <2>1, <2>2 DEF AttemptRecorded, Reachable
  <2> QED
    BY <1>t, <2>3, <2>4, <2>5, <2>6, <2>7, <2>8 DEF QueueInvariant
<1>7. CASE UnlinkPayload
  <2> USE <1>0, <1>d, <1>l DEF history
  <2>1. /\ lock'.stage = "rmdir" /\ lock'.kind = lock.kind
        /\ lock'.job = lock.job /\ lock'.next = lock.next /\ lock'.old = lock.old
    BY <1>0, <1>7 DEF UnlinkPayload, At, TypeOK
  <2>2. /\ lock.job \in Jobs /\ lock.stage = "entombed"
        /\ ~IsStored(manifest[lock.job])
        /\ \A j \in Jobs \ {lock.job} : payload'[j] = payload[j]
        /\ UNCHANGED <<dir, manifest, tombstone, mode, todo, valid, attempt,
                       history>>
    BY <1>0, <1>7, <1>l DEF UnlinkPayload, At, TypeOK, LockedJob
  <2>3. UnbornJobs'
    BY <2>1, <2>2 DEF UnbornJobs
  <2>4. JobRecords'
    BY <2>1, <2>2 DEF JobRecords
  <2>5. LockedJob'
    BY <2>1, <2>2 DEF LockedJob
  <2>6. RecoveryTodo'
    BY <2>1, <2>2 DEF RecoveryTodo, Free
  <2>7. PayloadBeside'
    BY <2>1, <2>2 DEF PayloadBeside, OnDisk, Unsynced
  <2>8. AttemptRecorded'
    BY <2>1, <2>2 DEF AttemptRecorded, Reachable
  <2> QED
    BY <1>t, <2>3, <2>4, <2>5, <2>6, <2>7, <2>8 DEF QueueInvariant
<1>8. CASE RemoveDirectory
  <2> USE <1>0, <1>d, <1>l DEF history
  <2>1. /\ lock'.stage = "unmark" /\ lock'.kind = lock.kind
        /\ lock'.job = lock.job /\ lock'.next = lock.next /\ lock'.old = lock.old
    BY <1>0, <1>8 DEF RemoveDirectory, At, TypeOK
  <2>2. /\ lock.job \in Jobs /\ lock.stage = "rmdir"
        /\ ~IsStored(manifest[lock.job])
        /\ dir' = dir \ {lock.job}
        /\ UNCHANGED <<payload, manifest, tombstone, mode, todo, valid, attempt,
                       history>>
    BY <1>0, <1>8, <1>l DEF RemoveDirectory, At, LockedJob
  <2>3. UnbornJobs'
    BY <2>1, <2>2 DEF UnbornJobs
  <2>4. JobRecords'
    BY <2>1, <2>2 DEF JobRecords
  <2>5. LockedJob'
    BY <2>1, <2>2 DEF LockedJob
  <2>6. RecoveryTodo'
    BY <2>1, <2>2 DEF RecoveryTodo, Free
  <2>7. PayloadBeside'
    BY <2>1, <2>2 DEF PayloadBeside, OnDisk, Unsynced
  <2>8. AttemptRecorded'
    BY <2>1, <2>2 DEF AttemptRecorded, Reachable
  <2> QED
    BY <1>t, <2>3, <2>4, <2>5, <2>6, <2>7, <2>8 DEF QueueInvariant
<1>9. CASE RemoveTombstone
  <2> USE <1>0, <1>d, <1>l, <1>n DEF history
  <2>1. /\ lock' = Unlocked
        /\ lock'.stage = "none" /\ lock'.kind = "none" /\ lock'.job = NoManifest
        /\ lock'.next = NoManifest /\ lock'.old = NoManifest
    BY <1>9 DEF RemoveTombstone, Unlocked
  <2>2. /\ lock.job \in Jobs /\ lock.stage = "unmark"
        /\ tombstone'[lock.job] = NoManifest
        /\ \A j \in Jobs \ {lock.job} : tombstone'[j] = tombstone[j]
        /\ UNCHANGED <<dir, payload, manifest, mode, todo, valid, attempt,
                       history>>
    BY <1>0, <1>9, <1>l DEF RemoveTombstone, At, TypeOK
  <2>3. UnbornJobs'
    BY <2>1, <2>2 DEF UnbornJobs
  <2>4. JobRecords'
    BY <2>1, <2>2 DEF JobRecords
  <2>5. LockedJob'
    BY <2>1, <2>2 DEF LockedJob
  <2>6. RecoveryTodo'
    BY <2>1, <2>2 DEF RecoveryTodo, Free
  <2>7. PayloadBeside'
    BY <2>1, <2>2 DEF PayloadBeside, OnDisk, Unsynced
  <2>8. AttemptRecorded'
    BY <2>1, <2>2 DEF AttemptRecorded, Reachable
  <2> QED
    BY <1>t, <2>3, <2>4, <2>5, <2>6, <2>7, <2>8 DEF QueueInvariant
<1>10. CASE CleanupFails
  <2> USE <1>0, <1>d, <1>l, <1>n DEF history, disk
  <2>1. /\ lock' = Unlocked
        /\ lock'.stage = "none" /\ lock'.kind = "none" /\ lock'.job = NoManifest
        /\ lock'.next = NoManifest /\ lock'.old = NoManifest
    BY <1>10 DEF CleanupFails, Unlocked
  <2>2. /\ UNCHANGED <<disk, attempt, history>>
        /\ valid' \subseteq valid /\ todo' = {}
    BY <1>10 DEF CleanupFails
  <2>3. UnbornJobs'
    BY <2>1, <2>2 DEF UnbornJobs
  <2>4. JobRecords'
    BY <2>1, <2>2 DEF JobRecords
  <2>5. LockedJob'
    BY <2>1, <2>2 DEF LockedJob
  <2>6. RecoveryTodo'
    BY <2>1, <2>2 DEF RecoveryTodo, Free
  <2>7. PayloadBeside'
    BY <2>1, <2>2 DEF PayloadBeside, OnDisk, Unsynced
  <2>8. AttemptRecorded'
    BY <2>1, <2>2 DEF AttemptRecorded, Reachable
  <2> QED
    BY <1>t, <2>3, <2>4, <2>5, <2>6, <2>7, <2>8 DEF QueueInvariant
<1> QED
  BY <1>1, <1>2, <1>3, <1>4, <1>5, <1>6, <1>7, <1>8, <1>9, <1>10 DEF LockStep

(* A step of the scan leaves the disk and the lock alone, and offers only    *)
(* jobs that have a manifest.                                                *)
LEMMA ScanStep ==
  ASSUME QueueInvariant, TypeOK',
         UNCHANGED <<disk, lock, attempt, history>>,
         \A j \in valid' \ valid : IsStored(manifest[j]),
         RecoveryTodo'
  PROVE  QueueInvariant'
<1> USE DEF QueueInvariant, disk, history
<1>1. UnbornJobs'
  BY DEF UnbornJobs
<1>2. JobRecords'
  BY DEF JobRecords
<1>3. LockedJob'
  BY DEF LockedJob
<1>4. PayloadBeside'
  BY DEF PayloadBeside, OnDisk, Unsynced
<1>5. AttemptRecorded'
  BY DEF AttemptRecorded, Reachable
<1> QED
  BY <1>1, <1>2, <1>3, <1>4, <1>5

(* Recovery takes the lock for a job to clean up: one behind a tombstone, or *)
(* one whose manifest says it is finished.                                   *)
LEMMA CleanupStep ==
  ASSUME QueueInvariant, TypeOK', Free,
         NEW j \in Jobs, NEW kind, NEW stage, NEW old,
         lock' = Held(kind, j, stage, NoManifest, old),
         \/ /\ kind = "cleanup" /\ stage = "entomb" /\ old = manifest[j]
            /\ IsStored(manifest[j]) /\ IsFinished(manifest[j])
         \/ /\ kind = "finish" /\ stage \in {"entombed", "rmdir", "unmark"}
            /\ old = NoManifest /\ IsStored(tombstone[j])
            /\ stage = "unmark" => j \notin dir,
         UNCHANGED <<disk, mode, attempt, history>>,
         valid' \subseteq valid \cup {j},
         todo' = todo \ {j}, mode # "down"
  PROVE  QueueInvariant'
<1> USE DEF QueueInvariant, disk, history, IsStored
<1>1. /\ lock'.kind = kind /\ lock'.job = j /\ lock'.stage = stage
      /\ lock'.next = NoManifest /\ lock'.old = old /\ lock = Unlocked
  BY DEF Held, Free, TypeOK, LockedJob
<1>2. lock.job = NoManifest /\ lock.stage = "none" /\ NoManifest \notin Jobs
  BY <1>1, QueueAssumption DEF Unlocked
<1>3. UnbornJobs'
  BY <1>1, <1>2 DEF UnbornJobs
<1>4. JobRecords'
  BY <1>1, <1>2 DEF JobRecords
<1>5. LockedJob'
  BY <1>1, <1>2 DEF LockedJob, JobRecords
<1>6. RecoveryTodo'
  BY <1>1, <1>2 DEF RecoveryTodo, TypeOK
<1>7. PayloadBeside'
  BY <1>1, <1>2 DEF PayloadBeside, OnDisk, Unsynced
<1>8. AttemptRecorded'
  BY <1>1, <1>2 DEF AttemptRecorded, Reachable
<1> QED
  BY <1>3, <1>4, <1>5, <1>6, <1>7, <1>8

(* Every step of recovery keeps the invariant. *)
LEMMA RecoveryInvariant ==
  ASSUME QueueInvariant, Recovery
  PROVE  QueueInvariant'
<1>t. TypeOK'
  BY RecoveryType DEF QueueInvariant
<1>0. TypeOK /\ RecoveryTodo /\ LockedJob /\ UnbornJobs /\ JobRecords
  BY DEF QueueInvariant
<1>f. Free => lock.job \notin Jobs
  BY <1>0, QueueAssumption DEF Free, TypeOK, LockedJob, Unlocked
<1>1. CASE Restart
  <2>1. Free
    BY <1>0, <1>1 DEF Restart, RecoveryTodo
  <2>2. RecoveryTodo'
    BY <1>1, <1>f, <2>1 DEF Restart, RecoveryTodo, disk
  <2> QED
    BY <1>t, <1>1, <2>2, ScanStep DEF Restart, history
<1>2. CASE StartScan
  <2>1. RecoveryTodo'
    BY <1>2 DEF StartScan, RecoveryTodo
  <2> QED
    BY <1>t, <1>2, <2>1, ScanStep DEF StartScan, history
<1>3. CASE StartCleanup
  <2>1. RecoveryTodo'
    BY <1>0, <1>3, <1>f DEF StartCleanup, RecoveryTodo, Intact, TypeOK, disk
  <2> QED
    BY <1>t, <1>3, <2>1, ScanStep DEF StartCleanup, history
<1>4. CASE FinishRecovery
  <2>1. RecoveryTodo'
    BY <1>4 DEF FinishRecovery, RecoveryTodo
  <2> QED
    BY <1>t, <1>4, <2>1, ScanStep DEF FinishRecovery, history
<1>5. ASSUME NEW j \in Jobs, FinishTombstone(j)
      PROVE  QueueInvariant'
  <2>1. IsStored(tombstone[j])
    BY <1>0, <1>5 DEF FinishTombstone, RecoveryTodo
  <2>2. PICK stage \in {"entombed", "rmdir", "unmark"} :
          /\ lock' = Held("finish", j, stage, NoManifest, NoManifest)
          /\ stage = "unmark" => j \notin dir
    BY <1>5 DEF FinishTombstone
  <2> QED
    BY <1>t, <1>5, <2>1, <2>2, CleanupStep DEF FinishTombstone, history
<1>6. ASSUME NEW j \in Jobs, QuarantineJob(j)
      PROVE  QueueInvariant'
  <2>1. RecoveryTodo'
    BY <1>6 DEF QuarantineJob, Scanning, RecoveryTodo
  <2> QED
    BY <1>t, <1>6, <2>1, ScanStep DEF QuarantineJob, history
<1>7. ASSUME NEW j \in Jobs, RecoverDraft(j)
      PROVE  QueueInvariant'
  <2> DEFINE next == BlockDraft(manifest[j], InterruptedWrite)
  <2>1. /\ Free /\ mode = "scan" /\ IsStored(manifest[j])
        /\ manifest[j] \in Manifest /\ manifest[j].attempts \in Nat
        /\ ~IsSealed(manifest[j])
        /\ InterruptedWrite \in UploadErrorCode
    BY <1>0, <1>7
    DEF RecoverDraft, Scanning, Intact, TypeOK, StoredManifest, IsStored,
        Manifest, JobRecords, ValidManifest, ValidState, UploadErrorCode
  <2>2. next \in Manifest /\ Keeps(manifest[j], next)
    BY <2>1, UpdatesAreManifests, UpdatesKeep
  <2>3. Successor("recover", manifest[j], next) /\ ~IsSealed(next)
    BY <2>1, <2>2 DEF Successor, Keeps, IsSealed
  <2>4. StartWrite("recover", j, next)
    BY <1>7 DEF RecoverDraft
  <2> HIDE DEF next
  <2> QED
    BY <1>t, <1>7, <2>1, <2>3, <2>4, WriteStep
    DEF RecoverDraft, UpdateKinds, history
<1>8. ASSUME NEW j \in Jobs, RecoverJob(j)
      PROVE  QueueInvariant'
  <2>1. RecoveryTodo'
    BY <1>8 DEF RecoverJob, Scanning, RecoveryTodo
  <2>2. \A k \in valid' \ valid : IsStored(manifest[k])
    BY <1>8 DEF RecoverJob, Intact
  <2> QED
    BY <1>t, <1>8, <2>1, <2>2, ScanStep DEF RecoverJob, history
<1>9. ASSUME NEW j \in Jobs, CleanupFinished(j)
      PROVE  QueueInvariant'
  <2>1. IsStored(manifest[j]) /\ IsFinished(manifest[j])
    BY <1>0, <1>9 DEF CleanupFinished, RecoveryTodo
  <2> QED
    BY <1>t, <1>9, <2>1, CleanupStep DEF CleanupFinished, history
<1> QED
  BY <1>1, <1>2, <1>3, <1>4, <1>5, <1>6, <1>7, <1>8, <1>9 DEF Recovery

(* A crash keeps the invariant if every job is left as it is, or with the    *)
(* record an unsynced rename had replaced.                                   *)
LEMMA ForgetStep ==
  ASSUME QueueInvariant, TypeOK', Forget,
         UNCHANGED <<dir, payload>>,
         \A j \in Jobs :
           \/ manifest'[j] = manifest[j] /\ tombstone'[j] = tombstone[j]
           \/ /\ Unsynced(j) /\ manifest'[j] = lock.old
              /\ tombstone'[j] = NoManifest
  PROVE  QueueInvariant'
<1> USE DEF QueueInvariant, IsStored
<1>1. /\ lock' = Unlocked /\ lock'.kind = "none" /\ lock'.stage = "none"
      /\ lock'.job = NoManifest /\ NoManifest \notin Jobs
      /\ mode' = "down" /\ valid' = {} /\ attempt' = {}
      /\ UNCHANGED <<born, handed, sent, damaged>>
  BY QueueAssumption DEF Forget, Unlocked, history
<1>2. \A j \in Jobs : Unsynced(j) =>
        /\ j \in born /\ j \in dir
        /\ IsStored(lock.old) => ValidManifest(lock.old)
        /\ lock.old \in OnDisk(j) /\ lock.old \in Reachable(j)
  BY DEF Unsynced, UnbornJobs, LockedJob, OnDisk, Reachable
<1>3. UnbornJobs'
  BY <1>1, <1>2 DEF UnbornJobs
<1>4. JobRecords'
  BY <1>1, <1>2 DEF JobRecords
<1>5. LockedJob'
  BY <1>1 DEF LockedJob
<1>6. RecoveryTodo'
  BY <1>1 DEF RecoveryTodo, Free
<1>7. PayloadBeside'
  <2>1. \A j \in Jobs : OnDisk(j)' = {manifest'[j]}
    BY <1>1 DEF OnDisk, Unsynced
  <2>2. \A j \in Jobs : manifest'[j] \in OnDisk(j)
    BY <1>2 DEF OnDisk
  <2> QED
    BY <1>1, <2>1, <2>2 DEF PayloadBeside
<1>8. AttemptRecorded'
  <2>1. sent \subseteq Jobs
    BY DEF TypeOK
  <2>2. \A j \in Jobs : Reachable(j)' = {manifest'[j], tombstone'[j]}
    BY <1>1 DEF Reachable
  <2>3. \A j \in Jobs :
          /\ manifest'[j] \in Reachable(j)
          /\ tombstone'[j] \in Reachable(j) \cup {NoManifest}
    BY <1>2 DEF Reachable
  <2> QED
    BY <1>1, <2>1, <2>2, <2>3 DEF AttemptRecorded
<1> QED
  BY <1>3, <1>4, <1>5, <1>6, <1>7, <1>8

(* Nothing the environment does breaks the invariant. *)
LEMMA EnvironmentInvariant ==
  ASSUME QueueInvariant, Environment
  PROVE  QueueInvariant'
<1>t. TypeOK'
  BY EnvironmentType DEF QueueInvariant
<1>0. TypeOK /\ UnbornJobs /\ JobRecords /\ LockedJob /\ RecoveryTodo
      /\ PayloadBeside /\ AttemptRecorded
  BY DEF QueueInvariant
<1>1. CASE Crash
  BY <1>t, <1>1, ForgetStep DEF Crash, disk
<1>2. CASE PowerLossBeforeRename
  BY <1>t, <1>2, ForgetStep DEF PowerLossBeforeRename
<1>3. CASE PowerLossAfterRename
  <2>1. \A j \in Jobs : lock.job = j =>
          Unsynced(j) /\ manifest'[j] = lock.old /\ tombstone'[j] = NoManifest
    BY <1>0, <1>3
    DEF PowerLossAfterRename, At, Unsynced, TypeOK, LockedJob, IsStored
  <2>2. \A j \in Jobs : lock.job # j =>
          manifest'[j] = manifest[j] /\ tombstone'[j] = tombstone[j]
    BY <1>0, <1>3 DEF PowerLossAfterRename, TypeOK
  <2> QED
    BY <1>t, <1>3, <2>1, <2>2, ForgetStep DEF PowerLossAfterRename
<1>4. CASE PowerLossAfterEntomb
  <2>1. \A j \in Jobs : lock.job = j =>
          Unsynced(j) /\ manifest'[j] = lock.old /\ tombstone'[j] = NoManifest
    BY <1>0, <1>4 DEF PowerLossAfterEntomb, At, Unsynced, TypeOK
  <2>2. \A j \in Jobs : lock.job # j =>
          manifest'[j] = manifest[j] /\ tombstone'[j] = tombstone[j]
    BY <1>0, <1>4 DEF PowerLossAfterEntomb, TypeOK
  <2> QED
    BY <1>t, <1>4, <2>1, <2>2, ForgetStep DEF PowerLossAfterEntomb
<1>5. ASSUME NEW j \in Jobs, DamagePayload(j)
      PROVE  QueueInvariant'
  <2>1. /\ payload'[j] # NoPayload /\ j \in damaged'
        /\ \A k \in Jobs \ {j} : payload'[k] = payload[k]
        /\ damaged' = damaged \cup {j}
        /\ payload[j] # NoPayload
        /\ UNCHANGED <<dir, manifest, temp, tombstone, mode, todo, valid, lock,
                       attempt, born, handed, sent>>
    BY <1>0, <1>5 DEF DamagePayload, TypeOK, Payload, NoPayload, memory
  <2>2. UnbornJobs'
    BY <1>0, <2>1 DEF UnbornJobs
  <2>3. JobRecords'
    BY <1>0, <2>1 DEF JobRecords
  <2>4. LockedJob'
    BY <1>0, <2>1 DEF LockedJob, TypeOK, Free
  <2>5. RecoveryTodo'
    BY <1>0, <2>1 DEF RecoveryTodo, Free
  <2>6. PayloadBeside'
    BY <1>0, <2>1 DEF PayloadBeside, OnDisk, Unsynced
  <2>7. AttemptRecorded'
    BY <1>0, <2>1 DEF AttemptRecorded, Reachable
  <2> QED
    BY <1>t, <2>2, <2>3, <2>4, <2>5, <2>6, <2>7 DEF QueueInvariant
<1> QED
  BY <1>1, <1>2, <1>3, <1>4, <1>5 DEF Environment

LEMMA InitEstablishesQueue == Init => QueueInvariant
<1> SUFFICES ASSUME Init PROVE QueueInvariant
  OBVIOUS
<1>1. TypeOK
  BY DEF Init, TypeOK, Unlocked, NoHash, Kinds, Stages, StoredManifest, Free
<1> QED
  BY <1>1, QueueAssumption
  DEF Init, QueueInvariant, UnbornJobs, JobRecords, LockedJob, RecoveryTodo,
      PayloadBeside, AttemptRecorded, OnDisk, Unsynced, Unlocked, IsStored, Free

LEMMA QueueInvariantSteps == QueueInvariant /\ [Next]_vars => QueueInvariant'
<1> SUFFICES ASSUME QueueInvariant, [Next]_vars PROVE QueueInvariant'
  OBVIOUS
<1>1. CASE UNCHANGED vars
  <2>1. TypeOK'
    BY <1>1 DEF QueueInvariant, TypeOK, vars, disk, memory, history, Free
  <2> QED
    BY <1>1, <2>1, MemoryStep DEF vars, disk, memory, history
<1>2. CASE Next
  BY <1>2, OperationInvariant, LockStepInvariant, RecoveryInvariant,
     EnvironmentInvariant DEF Next
<1> QED
  BY <1>1, <1>2

(* The inductive invariant holds in every state of the queue: what is on the *)
(* disk at each step of the lock holder, and which records a crash can bring *)
(* back (uploads.py:1034-1190, 1381-1452).                                   *)
THEOREM QueueInvariantHolds == Spec => []QueueInvariant
  BY InitEstablishesQueue, QueueInvariantSteps, PTL DEF Spec

(* No crash, power loss or failed write brings back a record of a payload    *)
(* that may have reached the server without its attempt: cancel never takes  *)
(* it for never attempted (uploads.py:633-673, 870-873).                     *)
THEOREM SentStaysRecorded == Spec => []SentIsRecorded
<1>1. QueueInvariant => SentIsRecorded
  BY DEF QueueInvariant, AttemptRecorded, SentIsRecorded
<1> QED
  BY <1>1, QueueInvariantHolds, PTL

(* A sealed manifest names the payload beside it although seal hashes it     *)
(* with the lock released (uploads.py:433-471).                              *)
THEOREM SealedPayloadHolds == Spec => []SealMatchesPayload
<1>1. QueueInvariant => SealMatchesPayload
  BY DEF QueueInvariant, PayloadBeside, SealMatchesPayload, OnDisk
<1> QED
  BY <1>1, QueueInvariantHolds, PTL

-----------------------------------------------------------------------------
(* The invariant of what survives, beside QueueInvariant.                  *)

\* What one update may do to a record: its revision grows, except that
\* mark_replacement keeps the one of a draft, and the job goes at most one step
\* along the lifecycle.
Advances(m, next) ==
  next.revision > m.revision \/ (next.revision = m.revision /\ m.state = "writing")

Passes(m, next) ==
  LET same == next.candidate = m.candidate IN
  \/ PhaseOf(next) = PhaseOf(m) /\ same
  \/ PhaseOf(m) = "draft" /\ PhaseOf(next) = "sealed" /\ same
  \/ PhaseOf(m) = "sealed" /\ PhaseOf(next) = "sealed"
       /\ ~HasCandidate(m) /\ next.candidate \in Assets
  \/ PhaseOf(m) = "sealed" /\ PhaseOf(next) = "committed" /\ HasCandidate(m) /\ same
  \/ PhaseOf(m) = "committed" /\ PhaseOf(next) = "sealed" /\ same
  \/ /\ PhaseOf(m) \in {"draft", "sealed"} /\ PhaseOf(next) = "cancelled"
     /\ ~HasCandidate(m) /\ same

Moves(m, next) == Advances(m, next) /\ Passes(m, next)

\* A record that is being written is a successor of the one it replaces, or the
\* first one of its job.
Succession ==
  lock.stage \in {"temp", "renamed"} =>
    IF IsStored(lock.old) THEN Moves(lock.old, lock.next) ELSE lock.next = NewManifest

\* No record a crash can leave is older than the one a client was shown, and
\* of the same age only if it is that one.
ShownBehind ==
  /\ \A j \in Jobs : IsStored(shown[j]) => j \in born
  /\ lock.kind = "begin" => ~IsStored(shown[lock.job])
  /\ \A j \in Jobs : \A m \in OnDisk(j) :
       IsStored(shown[j]) /\ IsStored(m) =>
         /\ m.revision >= shown[j].revision
         /\ m.revision = shown[j].revision /\ shown[j].state # "writing" => m = shown[j]

\* The directory of a job that was handed out goes after its manifest, and that
\* after it has become a tombstone.
DirectoryKept ==
  \A j \in handed \cap dir : IsStored(manifest[j]) \/ IsStored(tombstone[j])

\* A job on offer has its manifest, and it is only written by its own process.
OnOffer ==
  /\ \A j \in valid : IsStored(manifest[j])
  /\ lock.kind \in {"update", "provisional", "admit", "cancel"} => lock.job \in valid
  /\ lock.kind = "recover" => mode = "scan"

\* While recovery goes on, a job it has passed is on offer, left alone for its
\* temporary file, or finished and still to be cleaned up.
Accounted(j) ==
  \/ j \in valid
  \/ j \in quarantined /\ j \in temp
  \/ mode \in {"scan", "cleanup"} /\ j \in todo
  \/ mode = "scan" /\ lock.kind = "recover" /\ lock.job = j
  \/ mode = "scan" /\ IsFinished(manifest[j]) /\ j \notin temp \cup quarantined

Accounting ==
  /\ mode \in {"down", "tombstones"} => quarantined = {}
  /\ mode = "scan" => todo \cap quarantined = {}
  /\ mode \in {"scan", "cleanup", "up"} =>
       \A j \in handed \cap dir : IsStored(manifest[j]) => Accounted(j)

\* What an attempt verifies is a record of an attempt.
Admitting ==
  /\ \A j \in Jobs : IsStored(admission[j]) => admission[j].state = "attempting"
  /\ lock.kind = "provisional" => lock.next.state = "attempting"

SafetyInvariant ==
  /\ QueueInvariant
  /\ Succession /\ ShownBehind /\ DirectoryKept /\ OnOffer /\ Accounting /\ Admitting

-----------------------------------------------------------------------------
(* The updates.                                                            *)

(* Every update, made where its guard allows it, is a move.                *)
LEMMA UpdatesMove ==
  ASSUME NEW m \in Manifest, ValidManifest(m)
  PROVE  /\ m.state = "writing" => \A b : b # Unsealed => Moves(m, Seal(m, b))
         /\ CanMarkReplacement(m) => Moves(m, MarkReplacement(m))
         /\ m.state = "writing" => \A e : Moves(m, BlockDraft(m, e))
         /\ CanAttempt(m) => Moves(m, Provisional(m))
         /\ Moves(m, Admit(m))
         /\ CanRecordCandidate(m) => \A c \in Assets : Moves(m, RecordCandidate(m, c))
         /\ CanBeginReplacing(m) => Moves(m, BeginReplacing(m))
         /\ CanRetry(m) => \A e : Moves(m, Retry(m, e))
         /\ CanBlock(m) => \A e : Moves(m, Block(m, e))
         /\ CanCommit(m) => Moves(m, Commit(m))
         /\ \A r : CanCancel(m, r) => Moves(m, Cancel(m))
<1> USE DEF Moves, Passes, PhaseOf, IsSealed, HasCandidate
<1>1. /\ m.revision \in Nat /\ m.state \in UploadState
      /\ m.state = "writing" => ~IsSealed(m)
      /\ m.state \in {"pending", "attempting", "replacing", "committed"} => IsSealed(m)
  BY DEF Manifest, ValidManifest, ValidState
<1> USE DEF Manifest
<1>2. m.state = "writing" => \A b : b # Unsealed => Moves(m, Seal(m, b))
  BY <1>1 DEF Seal, Advances
<1>3. CanMarkReplacement(m) => Moves(m, MarkReplacement(m))
  BY <1>1 DEF MarkReplacement, CanMarkReplacement, Advances
<1>4. m.state = "writing" => \A e : Moves(m, BlockDraft(m, e))
  BY <1>1 DEF BlockDraft, Advances
<1>5. CanAttempt(m) => Moves(m, Provisional(m))
  BY <1>1 DEF CanAttempt, Provisional, Advances
<1>6. Moves(m, Admit(m))
  BY <1>1 DEF Admit, Advances
<1>7. CanRecordCandidate(m) => \A c \in Assets : Moves(m, RecordCandidate(m, c))
  BY <1>1 DEF CanRecordCandidate, RecordCandidate, Advances
<1>8. CanBeginReplacing(m) => Moves(m, BeginReplacing(m))
  BY <1>1 DEF CanBeginReplacing, BeginReplacing, Advances
<1>9. CanRetry(m) => \A e : Moves(m, Retry(m, e))
  BY <1>1 DEF CanRetry, Retry, ResumeState, Advances
<1>10. CanBlock(m) => \A e : Moves(m, Block(m, e))
  BY <1>1 DEF CanBlock, Block, Advances
<1>11. CanCommit(m) => Moves(m, Commit(m))
  BY <1>1 DEF CanCommit, Commit, Advances
<1>12. \A r : CanCancel(m, r) => Moves(m, Cancel(m))
  BY <1>1 DEF CanCancel, Cancel, Advances
<1> QED
  BY <1>2, <1>3, <1>4, <1>5, <1>6, <1>7, <1>8, <1>9, <1>10, <1>11, <1>12

(* A record that is written after the one a client was shown is not taken for  *)
(* it.                                                                         *)
LEMMA ShownStaysBehind ==
  ASSUME NEW seen \in Manifest, NEW m \in Manifest, NEW next \in Manifest,
         Advances(m, next), m.revision >= seen.revision,
         m.revision = seen.revision /\ seen.state # "writing" => m = seen
  PROVE  /\ next.revision >= seen.revision
         /\ next.revision = seen.revision /\ seen.state # "writing" => next = seen
<1>1. m.revision \in Nat /\ next.revision \in Nat /\ seen.revision \in Nat
  BY DEF Manifest
<1> QED
  BY <1>1 DEF Advances

-----------------------------------------------------------------------------
(* The operations.                                                         *)

\* Starting to write a record that moves on from the stored one.
LEMMA StartStep ==
  ASSUME SafetyInvariant, QueueInvariant', Free,
         NEW j \in Jobs, NEW kind \in UpdateKinds, NEW next \in Manifest,
         IsStored(manifest[j]), StartWrite(kind, j, next), Moves(manifest[j], next),
         kind = "recover" => mode = "scan" /\ todo' = todo \ {j},
         kind # "recover" => mode = "up" /\ j \in valid /\ todo' = todo,
         kind = "provisional" => next.state = "attempting",
         \A k \in Jobs : admission'[k] \in {admission[k], NoManifest},
         UNCHANGED <<dir, payload, manifest, tombstone, mode, valid, quarantined,
                     shown, born, handed>>
  PROVE  SafetyInvariant'
<1> USE DEF SafetyInvariant, IsStored
<1>1. /\ lock'.kind = kind /\ lock'.job = j /\ lock'.stage = "temp"
      /\ lock'.next = next /\ lock'.old = manifest[j] /\ temp' = temp \cup {j}
  BY DEF StartWrite, Held
<1>2. /\ lock = Unlocked /\ lock.kind = "none" /\ lock.stage = "none" /\ lock.job \notin Jobs
      /\ manifest[j] \in Manifest /\ shown \in [Jobs -> StoredManifest]
      /\ handed \subseteq Jobs /\ valid \subseteq Jobs /\ todo \subseteq Jobs
  BY QueueAssumption DEF QueueInvariant, TypeOK, LockedJob, Free, Unlocked, StoredManifest
<1>3. Succession'
  BY <1>1 DEF Succession
<1>4. ShownBehind'
  <2>1. ASSUME NEW k \in Jobs, NEW m \in OnDisk(k)', IsStored(shown[k]), IsStored(m)
        PROVE  /\ m.revision >= shown[k].revision
               /\ m.revision = shown[k].revision /\ shown[k].state # "writing" => m = shown[k]
    <3>1. manifest[k] \in OnDisk(k)
      BY DEF OnDisk
    <3>2. CASE m = manifest[k]
      BY <2>1, <3>1, <3>2 DEF ShownBehind
    <3>3. CASE k = j /\ m = next
      <4>1. shown[j] \in Manifest /\ Advances(manifest[j], next)
        BY <1>2, <2>1, <3>3 DEF StoredManifest, Moves
      <4>2. /\ manifest[j].revision >= shown[j].revision
            /\ manifest[j].revision = shown[j].revision /\ shown[j].state # "writing"
                 => manifest[j] = shown[j]
        BY <2>1, <3>1, <3>3 DEF ShownBehind
      <4> HIDE DEF SafetyInvariant
      <4> QED
        BY <1>2, <3>3, <4>1, <4>2, ShownStaysBehind
    <3> QED
      BY <1>1, <2>1, <3>2, <3>3 DEF OnDisk, Unsynced
  <2> QED
    BY <1>1, <2>1 DEF ShownBehind, UpdateKinds
<1>5. DirectoryKept'
  BY DEF DirectoryKept
<1>6. OnOffer'
  BY <1>1 DEF OnOffer, UpdateKinds
<1>7. Accounting'
  BY <1>1, <1>2 DEF Accounting, Accounted, UpdateKinds
<1>8. Admitting'
  BY <1>1 DEF Admitting
<1> QED
  BY <1>3, <1>4, <1>5, <1>6, <1>7, <1>8

\* The lock is free and the job is on offer.
LEMMA KnownOffer ==
  ASSUME SafetyInvariant, NEW j \in Jobs, Known(j)
  PROVE  /\ QueueInvariant /\ Free /\ mode = "up" /\ j \in valid
         /\ IsStored(manifest[j]) /\ manifest[j] \in Manifest /\ ValidManifest(manifest[j])
  BY DEF SafetyInvariant, QueueInvariant, JobRecords, Known, TypeOK, StoredManifest, IsStored

LEMMA UpdateMoves ==
  ASSUME SafetyInvariant, QueueInvariant', NEW j \in Jobs, Known(j),
         NEW kind \in {"update", "provisional", "cancel"}, NEW next \in Manifest,
         Moves(manifest[j], next),
         kind = "provisional" => next.state = "attempting",
         Update(kind, j, next)
  PROVE  SafetyInvariant'
  BY KnownOffer, StartStep DEF Update, UpdateKinds, history

\* A step that leaves the records, the lock and the process's lists alone.
LEMMA QuietStep ==
  ASSUME SafetyInvariant, QueueInvariant',
         UNCHANGED <<dir, manifest, temp, tombstone, mode, todo, valid, quarantined,
                     lock, shown, born, handed>>,
         \A k \in Jobs : admission'[k] \in {admission[k], NoManifest}
  PROVE  SafetyInvariant'
<1> USE DEF SafetyInvariant, IsStored
<1>1. Succession'
  BY DEF Succession
<1>2. ShownBehind'
  BY DEF ShownBehind, OnDisk, Unsynced
<1>3. DirectoryKept'
  BY DEF DirectoryKept
<1>4. OnOffer'
  BY DEF OnOffer
<1>5. Accounting'
  BY DEF Accounting, Accounted
<1>6. Admitting'
  BY DEF Admitting
<1> QED
  BY <1>1, <1>2, <1>3, <1>4, <1>5, <1>6

LEMMA OperationSafety ==
  ASSUME SafetyInvariant, NEW j \in Jobs, Operation(j)
  PROVE  SafetyInvariant'
<1>0. QueueInvariant' /\ QueueInvariant /\ TypeOK
  BY OperationInvariant DEF SafetyInvariant, QueueInvariant
<1>1. CASE Begin(j)
  <2> USE DEF SafetyInvariant, IsStored
  <2>1. /\ lock'.kind = "begin" /\ lock'.job = j /\ lock'.stage = "payload"
        /\ lock.kind = "none" /\ lock.stage = "none" /\ lock.job \notin Jobs
        /\ j \notin born /\ j \notin handed /\ born' = born \cup {j}
        /\ dir' = dir \cup {j} /\ mode = "up" /\ NoManifest \notin Jobs
        /\ UNCHANGED <<manifest, temp, tombstone, mode, todo, valid, quarantined,
                       admission, shown, handed>>
    BY <1>0, <1>1, QueueAssumption
    DEF Begin, Held, Free, QueueInvariant, TypeOK, LockedJob, Unlocked, UnbornJobs
  <2>2. Succession'
    BY <2>1 DEF Succession
  <2>3. ShownBehind'
    BY <2>1 DEF ShownBehind, OnDisk, Unsynced
  <2>4. DirectoryKept'
    BY <2>1 DEF DirectoryKept
  <2>5. OnOffer'
    BY <2>1 DEF OnOffer
  <2>6. Accounting'
    BY <2>1 DEF Accounting, Accounted
  <2>7. Admitting'
    BY <2>1 DEF Admitting
  <2> QED
    BY <1>0, <2>2, <2>3, <2>4, <2>5, <2>6, <2>7
<1>2. CASE WriteDraft(j)
  BY <1>0, <1>2, QuietStep DEF WriteDraft, memory, history
<1>3. CASE BeginSeal(j)
  BY <1>0, <1>3, QuietStep DEF BeginSeal, disk, history
<1>4. CASE PublishSeal(j)
  <2> DEFINE next == Seal(manifest[j], hashing[j].bytes)
  <2>1. /\ Known(j) /\ manifest[j].state = "writing" /\ hashing[j].bytes = payload[j]
        /\ StartWrite("update", j, next)
    BY <1>4 DEF PublishSeal, Unmoved, IsDraft
  <2>2. hashing[j].bytes # Unsealed /\ hashing[j].bytes \in Nat \cup {Unsealed}
    BY <1>0, <2>1, KnownOffer, QueueAssumption
    DEF QueueInvariant, PayloadBeside, OnDisk, TypeOK, Payload, NoPayload, Unsealed
  <2>3. next \in Manifest /\ Moves(manifest[j], next)
    BY <2>1, <2>2, KnownOffer, UpdatesMove, UpdatesAreManifests
  <2> HIDE DEF next
  <2> QED
    BY <1>0, <1>4, <2>1, <2>3, KnownOffer, StartStep DEF PublishSeal, UpdateKinds, history
<1>5. CASE SealRefused(j)
  BY <1>0, <1>5, QuietStep DEF SealRefused, disk, history
<1>6. CASE QueueMarkReplacement(j)
  BY <1>0, <1>6, KnownOffer, UpdatesMove, UpdatesAreManifests, UpdateMoves
  DEF QueueMarkReplacement
<1>7. CASE QueueBlockWriting(j)
  BY <1>0, <1>7, KnownOffer, UpdatesMove, UpdatesAreManifests, UpdateMoves
  DEF QueueBlockWriting, IsDraft, UploadErrorCode
<1>8. CASE QueueRecordCandidate(j)
  BY <1>0, <1>8, KnownOffer, UpdatesMove, UpdatesAreManifests, UpdateMoves
  DEF QueueRecordCandidate
<1>9. CASE QueueBeginReplacing(j)
  BY <1>0, <1>9, KnownOffer, UpdatesMove, UpdatesAreManifests, UpdateMoves
  DEF QueueBeginReplacing
<1>10. CASE QueueRetry(j)
  BY <1>0, <1>10, KnownOffer, UpdatesMove, UpdatesAreManifests, UpdateMoves
  DEF QueueRetry, UploadErrorCode
<1>11. CASE QueueRetryShown(j)
  BY <1>0, <1>11, KnownOffer, UpdatesMove, UpdatesAreManifests, UpdateMoves
  DEF QueueRetryShown, CanRetryAt
<1>12. CASE QueueBlock(j)
  BY <1>0, <1>12, KnownOffer, UpdatesMove, UpdatesAreManifests, UpdateMoves
  DEF QueueBlock, UploadErrorCode
<1>13. CASE QueueCommit(j)
  BY <1>0, <1>13, KnownOffer, UpdatesMove, UpdatesAreManifests, UpdateMoves
  DEF QueueCommit
<1>14. CASE QueueCancel(j)
  BY <1>0, <1>14, KnownOffer, UpdatesMove, UpdatesAreManifests, UpdateMoves
  DEF QueueCancel
<1>15. CASE QueueRemove(j)
  <2> USE DEF SafetyInvariant, IsStored
  <2>1. /\ lock'.kind = "cleanup" /\ lock'.job = j /\ lock'.stage = "entomb"
        /\ lock.kind = "none" /\ lock.stage = "none" /\ lock.job \notin Jobs
        /\ UNCHANGED <<dir, manifest, temp, tombstone, mode, todo, valid, quarantined,
                       admission, shown, born, handed>>
    BY <1>0, <1>15, QueueAssumption
    DEF QueueRemove, Known, Held, Free, QueueInvariant, TypeOK, LockedJob, Unlocked,
        disk, history
  <2>2. Succession'
    BY <2>1 DEF Succession
  <2>3. ShownBehind'
    BY <2>1 DEF ShownBehind, OnDisk, Unsynced
  <2>4. DirectoryKept'
    BY <2>1 DEF DirectoryKept
  <2>5. OnOffer'
    BY <2>1 DEF OnOffer
  <2>6. Accounting'
    BY <2>1 DEF Accounting, Accounted
  <2>7. Admitting'
    BY <2>1 DEF Admitting
  <2> QED
    BY <1>0, <2>2, <2>3, <2>4, <2>5, <2>6, <2>7
<1>16. CASE Show(j)
  <2> USE DEF SafetyInvariant, IsStored
  <2>1. /\ lock.kind = "none" /\ lock.stage = "none" /\ lock.job \notin Jobs
        /\ manifest[j] # NoManifest /\ j \in born /\ manifest[j] \in Manifest
        /\ shown' = [shown EXCEPT ![j] = manifest[j]] /\ shown \in [Jobs -> StoredManifest]
        /\ UNCHANGED <<dir, manifest, temp, tombstone, mode, todo, valid, quarantined,
                       lock, admission, born, handed>>
    BY <1>0, <1>16, QueueAssumption
    DEF Show, Known, Free, QueueInvariant, TypeOK, LockedJob, Unlocked, UnbornJobs,
        StoredManifest, disk, memory, history
  <2>2. Succession'
    BY <2>1 DEF Succession
  <2>3. ShownBehind'
    <3>1. \A k \in Jobs : OnDisk(k) = {manifest[k]} /\ OnDisk(k)' = {manifest[k]}
      BY <2>1 DEF OnDisk, Unsynced
    <3>2. manifest[j].revision \in Nat
      BY <2>1 DEF Manifest
    <3> QED
      BY <2>1, <3>1, <3>2 DEF ShownBehind
  <2>4. DirectoryKept'
    BY <2>1 DEF DirectoryKept
  <2>5. OnOffer'
    BY <2>1 DEF OnOffer
  <2>6. Accounting'
    BY <2>1 DEF Accounting, Accounted
  <2>7. Admitting'
    BY <2>1 DEF Admitting
  <2> QED
    BY <1>0, <2>2, <2>3, <2>4, <2>5, <2>6, <2>7
<1>17. CASE BeginAttempt(j)
  <2>1. Provisional(manifest[j]).state = "attempting"
    BY <1>17, KnownOffer DEF BeginAttempt, Provisional, Manifest
  <2> QED
    BY <1>0, <1>17, <2>1, KnownOffer, UpdatesMove, UpdatesAreManifests, UpdateMoves
    DEF BeginAttempt
<1>18. CASE AdmitAttempt(j)
  <2> DEFINE next == Admit(manifest[j])
  <2>1. /\ Known(j) /\ StartWrite("admit", j, next)
        /\ \A k \in Jobs : admission'[k] \in {admission[k], NoManifest}
    BY <1>0, <1>18 DEF AdmitAttempt, TypeOK
  <2>2. next \in Manifest /\ Moves(manifest[j], next)
    BY <2>1, KnownOffer, UpdatesMove, UpdatesAreManifests
  <2> HIDE DEF next
  <2> QED
    BY <1>0, <1>18, <2>1, <2>2, KnownOffer, StartStep DEF AdmitAttempt, UpdateKinds, history
<1>19. CASE RefuseAttempt(j)
  <2> DEFINE next == Block(manifest[j], PayloadInvalid)
  <2>1. /\ Known(j) /\ StartWrite("update", j, next)
        /\ \A k \in Jobs : admission'[k] \in {admission[k], NoManifest}
        /\ manifest[j] = admission[j]
    BY <1>0, <1>19 DEF RefuseAttempt, TypeOK
  <2>2. CanBlock(manifest[j])
    BY <1>19, <2>1 DEF RefuseAttempt, SafetyInvariant, Admitting, CanBlock
  <2>3. next \in Manifest /\ Moves(manifest[j], next)
    BY <2>1, <2>2, KnownOffer, UpdatesMove, UpdatesAreManifests DEF UploadErrorCode
  <2> HIDE DEF next
  <2> QED
    BY <1>0, <1>19, <2>1, <2>3, KnownOffer, StartStep DEF RefuseAttempt, UpdateKinds, history
<1>20. CASE DropAttempt(j)
  <2>1. \A k \in Jobs : admission'[k] \in {admission[k], NoManifest}
    BY <1>0, <1>20 DEF DropAttempt, TypeOK
  <2> QED
    BY <1>0, <1>20, <2>1, QuietStep DEF DropAttempt, disk, history
<1>21. CASE SendPayload(j)
  BY <1>0, <1>21, QuietStep DEF SendPayload, disk, memory
<1>22. CASE CloseAttempt(j)
  BY <1>0, <1>22, QuietStep DEF CloseAttempt, disk, history
<1> QED
  BY <1>1, <1>2, <1>3, <1>4, <1>5, <1>6, <1>7, <1>8, <1>9, <1>10, <1>11,
     <1>12, <1>13, <1>14, <1>15, <1>16, <1>17, <1>18, <1>19, <1>20, <1>21,
     <1>22 DEF Operation

-----------------------------------------------------------------------------
(* The steps of the lock holder.                                           *)

LEMMA LockStepSafety ==
  ASSUME SafetyInvariant, LockStep
  PROVE  SafetyInvariant'
<1>0. /\ QueueInvariant' /\ QueueInvariant /\ TypeOK /\ LockedJob /\ UnbornJobs
      /\ JobRecords
  BY LockStepInvariant DEF SafetyInvariant, QueueInvariant
<1>l. /\ lock.stage # "none" => lock.job \in Jobs /\ lock.kind # "none" /\ lock.job \in born
      /\ NoManifest \notin Jobs \cup Manifest /\ temp \subseteq Jobs /\ handed \subseteq Jobs
      /\ valid \subseteq Jobs
  BY <1>0, QueueAssumption DEF TypeOK, Free, UnbornJobs
<1>u. ASSUME lock' = Unlocked
      PROVE  /\ lock'.kind = "none" /\ lock'.stage = "none" /\ lock'.job = NoManifest
             /\ lock'.next = NoManifest /\ lock'.old = NoManifest
  BY <1>u DEF Unlocked
<1>s. ASSUME NEW stage, lock' = [lock EXCEPT !.stage = stage]
      PROVE  /\ lock'.kind = lock.kind /\ lock'.job = lock.job /\ lock'.stage = stage
             /\ lock'.next = lock.next /\ lock'.old = lock.old
  BY <1>0, <1>s DEF TypeOK
<1> USE DEF SafetyInvariant, IsStored
<1>1. CASE CreatePayload
  <2>1. /\ lock'.kind = lock.kind /\ lock'.job = lock.job /\ lock'.stage = "create"
        /\ lock'.next = lock.next /\ lock.stage = "payload" /\ lock.kind = "begin"
        /\ UNCHANGED <<dir, manifest, temp, tombstone, mode, todo, valid, quarantined, admission, shown>>
        /\ UNCHANGED <<born, handed>>
    BY <1>0, <1>1, <1>s DEF CreatePayload, At, LockedJob, history
  <2>2. Succession'
    BY <1>l, <2>1 DEF Succession
  <2>3. ShownBehind'
    BY <1>l, <2>1 DEF ShownBehind, OnDisk, Unsynced
  <2>4. DirectoryKept'
    BY <1>l, <2>1 DEF DirectoryKept
  <2>5. OnOffer'
    BY <1>l, <2>1 DEF OnOffer
  <2>6. Accounting'
    BY <1>l, <2>1 DEF Accounting, Accounted
  <2>7. Admitting'
    BY <1>l, <2>1 DEF Admitting
  <2> QED
    BY <1>0, <2>2, <2>3, <2>4, <2>5, <2>6, <2>7
<1>2. CASE CreateManifest
  <2>1. /\ lock.kind = "begin" /\ lock.stage = "create" /\ lock.next = NewManifest
        /\ lock.job \notin handed /\ manifest[lock.job] = NoManifest
        /\ lock'.kind = "begin" /\ lock'.job = lock.job /\ lock'.stage = "temp"
        /\ lock'.next = NewManifest /\ lock'.old = NoManifest /\ temp' = temp \cup {lock.job}
        /\ UNCHANGED <<dir, manifest, tombstone, mode, todo, valid, quarantined, admission, shown>>
        /\ UNCHANGED <<born, handed>>
    BY <1>0, <1>2 DEF CreateManifest, StartWrite, Held, At, LockedJob, history
  <2>2. Succession'
    BY <1>l, <2>1 DEF Succession
  <2>3. ShownBehind'
    BY <1>l, <2>1 DEF ShownBehind, OnDisk, Unsynced
  <2>4. DirectoryKept'
    BY <1>l, <2>1 DEF DirectoryKept
  <2>5. OnOffer'
    BY <1>l, <2>1 DEF OnOffer
  <2>6. Accounting'
    BY <1>l, <2>1 DEF Accounting, Accounted
  <2>7. Admitting'
    BY <1>l, <2>1 DEF Admitting
  <2> QED
    BY <1>0, <2>2, <2>3, <2>4, <2>5, <2>6, <2>7
<1>3. CASE RenameManifest
  <2>1. /\ lock'.kind = lock.kind /\ lock'.job = lock.job /\ lock'.stage = "renamed"
        /\ lock'.next = lock.next /\ lock'.old = lock.old /\ lock.stage = "temp"
        /\ IsStored(lock.next) /\ manifest'[lock.job] = lock.next
        /\ manifest[lock.job] = lock.old /\ (lock.old # NoManifest \/ lock.kind = "begin")
        /\ lock.kind \in UpdateKinds \cup {"begin"} /\ (lock.kind = "begin" => lock.job \notin handed)
        /\ \A k \in Jobs : k # lock.job => manifest'[k] = manifest[k]
        /\ temp' = temp \ {lock.job}
        /\ UNCHANGED <<dir, tombstone, mode, todo, valid, quarantined, admission, shown>>
        /\ UNCHANGED <<born, handed>>
    BY <1>0, <1>3, <1>l, <1>s DEF RenameManifest, At, LockedJob, TypeOK, UpdateKinds, history
  <2>2. Succession'
    BY <1>l, <2>1 DEF Succession
  <2>3. ShownBehind'
    BY <1>l, <2>1 DEF ShownBehind, OnDisk, Unsynced
  <2>4. DirectoryKept'
    BY <1>l, <2>1 DEF DirectoryKept
  <2>5. OnOffer'
    BY <1>l, <2>1 DEF OnOffer
  <2>6. Accounting'
    BY <1>l, <2>1 DEF Accounting, Accounted, UpdateKinds, OnOffer
  <2>7. Admitting'
    BY <1>l, <2>1 DEF Admitting
  <2> QED
    BY <1>0, <2>2, <2>3, <2>4, <2>5, <2>6, <2>7
<1>4. CASE SyncManifest
  <2>1. /\ lock.stage = "renamed" /\ manifest[lock.job] = lock.next /\ IsStored(lock.next)
        /\ lock.kind \in UpdateKinds \cup {"begin"}
        /\ valid' = IF lock.kind \in {"begin", "recover"} THEN valid \cup {lock.job} ELSE valid
        /\ handed' = IF lock.kind = "begin" THEN handed \cup {lock.job} ELSE handed
        /\ \A k \in Jobs : admission'[k] = admission[k]
              \/ (k = lock.job /\ lock.kind = "provisional" /\ admission'[k] = lock.next)
        /\ UNCHANGED <<dir, manifest, temp, tombstone, mode, todo, quarantined, shown, born>>
    BY <1>0, <1>4 DEF SyncManifest, At, LockedJob, TypeOK, UpdateKinds, disk
  <2>2. \/ lock'.kind = "none" /\ lock'.stage = "none" /\ lock'.job = NoManifest
        \/ /\ lock.kind = "cancel" /\ lock'.kind = "cleanup" /\ lock'.stage = "entomb"
           /\ lock'.job = lock.job
    BY <1>0, <1>4, <1>u DEF SyncManifest, TypeOK
  <2>3. Succession'
    BY <1>l, <2>1, <2>2 DEF Succession, UpdateKinds
  <2>4. ShownBehind'
    BY <1>l, <2>1, <2>2 DEF ShownBehind, OnDisk, Unsynced
  <2>5. DirectoryKept'
    BY <1>l, <2>1, <2>2 DEF DirectoryKept
  <2>6. OnOffer'
    BY <1>l, <2>1, <2>2 DEF OnOffer, UpdateKinds
  <2>7. Accounting'
    BY <1>l, <2>1, <2>2 DEF Accounting, Accounted, UpdateKinds
  <2>8. Admitting'
    BY <1>l, <2>1, <2>2 DEF Admitting
  <2> QED
    BY <1>0, <2>3, <2>4, <2>5, <2>6, <2>7, <2>8
<1>5. CASE WriteFails \/ SyncFails
  <2>1. /\ lock.stage \in {"temp", "renamed"} /\ lock'.kind = "none" /\ lock'.stage = "none" /\ lock'.job = NoManifest
        /\ \/ mode' = "down" /\ valid' = {} /\ quarantined' = {}
           \/ lock.kind # "recover" /\ UNCHANGED <<mode, valid, quarantined, todo>>
        /\ UNCHANGED <<dir, manifest, temp, tombstone, admission, shown, born, handed>>
    BY <1>5, <1>u DEF WriteFails, SyncFails, Abandon, At, disk, history
  <2>2. Succession'
    BY <1>l, <2>1 DEF Succession
  <2>3. ShownBehind'
    BY <1>l, <2>1 DEF ShownBehind, OnDisk, Unsynced
  <2>4. DirectoryKept'
    BY <1>l, <2>1 DEF DirectoryKept
  <2>5. OnOffer'
    BY <1>l, <2>1 DEF OnOffer
  <2>6. Accounting'
    BY <1>l, <2>1 DEF Accounting, Accounted
  <2>7. Admitting'
    BY <1>l, <2>1 DEF Admitting
  <2> QED
    BY <1>0, <2>2, <2>3, <2>4, <2>5, <2>6, <2>7
<1>6. CASE Entomb
  <2>1. /\ lock.stage = "entomb" /\ lock.kind = "cleanup"
        /\ lock'.kind = "cleanup" /\ lock'.job = lock.job /\ lock'.stage = "entombed"
        /\ lock'.old = manifest[lock.job] /\ manifest[lock.job] # NoManifest
        /\ manifest'[lock.job] = NoManifest /\ tombstone'[lock.job] = manifest[lock.job]
        /\ \A k \in Jobs : k # lock.job => manifest'[k] = manifest[k] /\ tombstone'[k] = tombstone[k]
        /\ valid' = valid \ {lock.job}
        /\ UNCHANGED <<dir, temp, mode, todo, quarantined, admission, shown, born, handed>>
    BY <1>0, <1>l, <1>6 DEF Entomb, At, TypeOK, LockedJob, history
  <2>2. Succession'
    BY <1>l, <2>1 DEF Succession
  <2>3. ShownBehind'
    BY <1>l, <2>1 DEF ShownBehind, OnDisk, Unsynced
  <2>4. DirectoryKept'
    BY <1>l, <2>1 DEF DirectoryKept
  <2>5. OnOffer'
    BY <1>l, <2>1 DEF OnOffer
  <2>6. Accounting'
    BY <1>l, <2>1 DEF Accounting, Accounted
  <2>7. Admitting'
    BY <1>l, <2>1 DEF Admitting
  <2> QED
    BY <1>0, <2>2, <2>3, <2>4, <2>5, <2>6, <2>7
<1>7. CASE UnlinkPayload
  <2>1. /\ lock'.kind = lock.kind /\ lock'.job = lock.job /\ lock'.stage = "rmdir"
        /\ lock.stage = "entombed" /\ lock.kind \in {"cleanup", "finish"}
        /\ UNCHANGED <<dir, manifest, temp, tombstone, mode, todo, valid, quarantined, admission, shown>>
        /\ UNCHANGED <<born, handed>>
    BY <1>0, <1>7, <1>s DEF UnlinkPayload, At, LockedJob, history
  <2>2. Succession'
    BY <1>l, <2>1 DEF Succession
  <2>3. ShownBehind'
    BY <1>l, <2>1 DEF ShownBehind, OnDisk, Unsynced
  <2>4. DirectoryKept'
    BY <1>l, <2>1 DEF DirectoryKept
  <2>5. OnOffer'
    BY <1>l, <2>1 DEF OnOffer
  <2>6. Accounting'
    BY <1>l, <2>1 DEF Accounting, Accounted
  <2>7. Admitting'
    BY <1>l, <2>1 DEF Admitting
  <2> QED
    BY <1>0, <2>2, <2>3, <2>4, <2>5, <2>6, <2>7
<1>8. CASE RemoveDirectory
  <2>1. /\ lock'.kind = lock.kind /\ lock'.job = lock.job /\ lock'.stage = "unmark"
        /\ lock.stage = "rmdir" /\ lock.kind \in {"cleanup", "finish"} /\ dir' = dir \ {lock.job}
        /\ UNCHANGED <<manifest, temp, tombstone, mode, todo, valid, quarantined, admission, shown>>
        /\ UNCHANGED <<born, handed>>
    BY <1>0, <1>8, <1>s DEF RemoveDirectory, At, LockedJob, history
  <2>2. Succession'
    BY <1>l, <2>1 DEF Succession
  <2>3. ShownBehind'
    BY <1>l, <2>1 DEF ShownBehind, OnDisk, Unsynced
  <2>4. DirectoryKept'
    BY <1>l, <2>1 DEF DirectoryKept
  <2>5. OnOffer'
    BY <1>l, <2>1 DEF OnOffer
  <2>6. Accounting'
    BY <1>l, <2>1 DEF Accounting, Accounted
  <2>7. Admitting'
    BY <1>l, <2>1 DEF Admitting
  <2> QED
    BY <1>0, <2>2, <2>3, <2>4, <2>5, <2>6, <2>7
<1>9. CASE RemoveTombstone
  <2>1. /\ lock.stage = "unmark" /\ lock'.kind = "none" /\ lock'.stage = "none" /\ lock'.job = NoManifest
        /\ lock.kind \in {"cleanup", "finish"} /\ lock.job \notin dir
        /\ \A k \in Jobs : k # lock.job => tombstone'[k] = tombstone[k]
        /\ UNCHANGED <<dir, manifest, temp, mode, todo, valid, quarantined, admission, shown>>
        /\ UNCHANGED <<born, handed>>
    BY <1>0, <1>9, <1>l, <1>u DEF RemoveTombstone, At, TypeOK, LockedJob, history
  <2>2. Succession'
    BY <1>l, <2>1 DEF Succession
  <2>3. ShownBehind'
    BY <1>l, <2>1 DEF ShownBehind, OnDisk, Unsynced
  <2>4. DirectoryKept'
    BY <1>l, <2>1 DEF DirectoryKept
  <2>5. OnOffer'
    BY <1>l, <2>1 DEF OnOffer
  <2>6. Accounting'
    BY <1>l, <2>1 DEF Accounting, Accounted
  <2>7. Admitting'
    BY <1>l, <2>1 DEF Admitting
  <2> QED
    BY <1>0, <2>2, <2>3, <2>4, <2>5, <2>6, <2>7
<1>10. CASE CleanupFails
  <2>1. /\ lock.stage \in {"entomb", "entombed", "rmdir", "unmark"} /\ lock.kind \in {"cleanup", "finish"}
        /\ lock'.kind = "none" /\ lock'.stage = "none" /\ lock'.job = NoManifest
        /\ \/ mode' = "down" /\ valid' = {} /\ quarantined' = {}
           \/ mode = "up" /\ UNCHANGED <<mode, valid, quarantined>>
        /\ UNCHANGED <<dir, manifest, temp, tombstone, admission, shown, born, handed>>
    BY <1>0, <1>10, <1>u DEF CleanupFails, LockedJob, disk, history
  <2>2. Succession'
    BY <1>l, <2>1 DEF Succession
  <2>3. ShownBehind'
    BY <1>l, <2>1 DEF ShownBehind, OnDisk, Unsynced
  <2>4. DirectoryKept'
    BY <1>l, <2>1 DEF DirectoryKept
  <2>5. OnOffer'
    BY <1>l, <2>1 DEF OnOffer
  <2>6. Accounting'
    BY <1>l, <2>1 DEF Accounting, Accounted
  <2>7. Admitting'
    BY <1>l, <2>1 DEF Admitting
  <2> QED
    BY <1>0, <2>2, <2>3, <2>4, <2>5, <2>6, <2>7
<1> QED
  BY <1>1, <1>2, <1>3, <1>4, <1>5, <1>6, <1>7, <1>8, <1>9, <1>10 DEF LockStep

-----------------------------------------------------------------------------
(* Recovery.                                                               *)

\* A step of recovery that leaves the disk, and takes the lock at most to clean
\* up.
LEMMA RecoverStep ==
  ASSUME SafetyInvariant, QueueInvariant', Free,
         UNCHANGED <<disk, admission, shown, history>>,
         \/ lock' = lock
         \/ \E j \in Jobs, kind \in {"cleanup", "finish"},
               stage \in {"entomb", "entombed", "rmdir", "unmark"}, old \in StoredManifest :
              /\ lock' = Held(kind, j, stage, NoManifest, old)
              /\ old \in {manifest[j], NoManifest}
              /\ kind = "finish" => old = NoManifest
              /\ kind = "cleanup" => stage = "entomb",
         \A j \in valid' : IsStored(manifest[j]),
         Accounting'
  PROVE  SafetyInvariant'
<1> USE DEF SafetyInvariant, IsStored, disk, history
<1>1. /\ lock.kind = "none" /\ lock.stage = "none" /\ lock.job \notin Jobs
  BY QueueAssumption DEF QueueInvariant, TypeOK, LockedJob, Unlocked, Free
<1>2. /\ lock'.kind \in {"none", "cleanup", "finish"}
      /\ lock'.stage \in {"none", "entomb", "entombed", "rmdir", "unmark"}
      /\ lock'.kind = "cleanup" => lock'.stage = "entomb"
  BY <1>1 DEF Held
<1>3. Succession'
  BY <1>1, <1>2 DEF Succession
<1>4. ShownBehind'
  BY <1>1, <1>2 DEF ShownBehind, OnDisk, Unsynced
<1>5. DirectoryKept'
  BY <1>1, <1>2 DEF DirectoryKept
<1>6. OnOffer'
  BY <1>1, <1>2 DEF OnOffer
<1>7. Admitting'
  BY <1>1, <1>2 DEF Admitting
<1> QED
  BY <1>3, <1>4, <1>5, <1>6, <1>7

LEMMA RecoverySafety ==
  ASSUME SafetyInvariant, Recovery
  PROVE  SafetyInvariant'
<1>0. /\ QueueInvariant' /\ QueueInvariant /\ TypeOK /\ RecoveryTodo /\ LockedJob
      /\ JobRecords /\ Accounting /\ PayloadBeside
      /\ \A j \in valid : IsStored(manifest[j])
  BY RecoveryInvariant DEF SafetyInvariant, QueueInvariant, OnOffer
<1>f. ASSUME Free PROVE lock.kind = "none" /\ lock.job \notin Jobs
  BY <1>0, <1>f, QueueAssumption DEF LockedJob, TypeOK, Free, Unlocked
<1>h. handed \subseteq Jobs /\ todo \subseteq Jobs /\ valid \subseteq Jobs
  BY <1>0 DEF TypeOK
<1>1. CASE Restart
  <2>1. Free /\ Accounting'
    BY <1>0, <1>1 DEF Restart, RecoveryTodo, Accounting
  <2> QED
    BY <1>0, <1>1, <2>1, RecoverStep DEF Restart
<1>2. CASE StartScan
  <2>1. Accounting'
    BY <1>0, <1>2 DEF StartScan, Accounting, Accounted, disk, history
  <2> QED
    BY <1>0, <1>2, <2>1, RecoverStep DEF StartScan
<1>3. CASE StartCleanup
  <2>1. \A j \in handed \cap dir : IsStored(manifest[j]) => payload[j] # NoPayload
    BY <1>0, <1>h DEF PayloadBeside, OnDisk
  <2>2. Accounting'
    BY <1>0, <1>3, <1>f, <1>h, <2>1
    DEF StartCleanup, Accounting, Accounted, Intact, disk, history
  <2> QED
    BY <1>0, <1>3, <2>2, RecoverStep DEF StartCleanup
<1>4. CASE FinishRecovery
  <2>1. Accounting'
    BY <1>0, <1>4 DEF FinishRecovery, Accounting, Accounted, disk, history
  <2> QED
    BY <1>0, <1>4, <2>1, RecoverStep DEF FinishRecovery
<1>5. ASSUME NEW j \in Jobs, FinishTombstone(j)
      PROVE  SafetyInvariant'
  <2>1. Accounting'
    BY <1>0, <1>5 DEF FinishTombstone, Accounting
  <2>2. \E stage \in {"entomb", "entombed", "rmdir", "unmark"} :
          lock' = Held("finish", j, stage, NoManifest, NoManifest)
    BY <1>5 DEF FinishTombstone
  <2> QED
    BY <1>0, <1>5, <2>1, <2>2, RecoverStep DEF FinishTombstone, StoredManifest
<1>6. ASSUME NEW j \in Jobs, QuarantineJob(j)
      PROVE  SafetyInvariant'
  <2>1. IsStored(manifest[j]) => payload[j] # NoPayload
    BY <1>0 DEF PayloadBeside, OnDisk
  <2>2. Accounting'
    BY <1>0, <1>6, <1>f, <2>1
    DEF QuarantineJob, Scanning, Intact, Accounting, Accounted, disk, history
  <2> QED
    BY <1>0, <1>6, <2>2, RecoverStep DEF QuarantineJob, Scanning
<1>7. ASSUME NEW j \in Jobs, RecoverDraft(j)
      PROVE  SafetyInvariant'
  <2> DEFINE next == BlockDraft(manifest[j], InterruptedWrite)
  <2>1. /\ Free /\ mode = "scan" /\ IsStored(manifest[j]) /\ manifest[j] \in Manifest
        /\ ValidManifest(manifest[j]) /\ StartWrite("recover", j, next)
    BY <1>0, <1>7
    DEF RecoverDraft, Scanning, Intact, TypeOK, StoredManifest, IsStored, JobRecords
  <2>2. next \in Manifest /\ Moves(manifest[j], next)
    BY <1>7, <2>1, UpdatesMove, UpdatesAreManifests DEF RecoverDraft, UploadErrorCode
  <2> HIDE DEF next
  <2> QED
    BY <1>0, <1>7, <2>1, <2>2, StartStep DEF RecoverDraft, UpdateKinds, history
<1>8. ASSUME NEW j \in Jobs, RecoverJob(j)
      PROVE  SafetyInvariant'
  <2>1. Accounting'
    BY <1>0, <1>8, <1>f DEF RecoverJob, Scanning, Intact, Accounting, Accounted, disk, history
  <2>2. \A k \in valid' : IsStored(manifest[k])
    BY <1>0, <1>8 DEF RecoverJob, Intact
  <2> QED
    BY <1>0, <1>8, <2>1, <2>2, RecoverStep DEF RecoverJob, Scanning
<1>9. ASSUME NEW j \in Jobs, CleanupFinished(j)
      PROVE  SafetyInvariant'
  <2>1. IsStored(manifest[j]) /\ manifest[j] \in StoredManifest
    BY <1>0, <1>9 DEF CleanupFinished, RecoveryTodo, TypeOK
  <2>2. Accounting'
    BY <1>0, <1>9, <1>f DEF CleanupFinished, Accounting, Accounted, disk, history
  <2>3. \A k \in valid' : IsStored(manifest[k])
    BY <1>0, <1>9, <2>1 DEF CleanupFinished
  <2> QED
    BY <1>0, <1>9, <2>1, <2>2, <2>3, RecoverStep DEF CleanupFinished
<1> QED
  BY <1>1, <1>2, <1>3, <1>4, <1>5, <1>6, <1>7, <1>8, <1>9 DEF Recovery

-----------------------------------------------------------------------------
(* Crashes and power losses.                                               *)

LEMMA ForgetSafety ==
  ASSUME SafetyInvariant, QueueInvariant', Forget, UNCHANGED dir,
         \A j \in Jobs :
           \/ manifest'[j] = manifest[j] /\ tombstone'[j] = tombstone[j]
           \/ /\ Unsynced(j) /\ manifest'[j] = lock.old
              /\ IsStored(lock.old) \/ j \notin handed
  PROVE  SafetyInvariant'
<1> USE DEF SafetyInvariant, IsStored
<1>1. /\ lock'.kind = "none" /\ lock'.stage = "none" /\ lock'.job = NoManifest
      /\ mode' = "down" /\ valid' = {} /\ quarantined' = {} /\ NoManifest \notin Jobs
      /\ \A j \in Jobs : admission'[j] = NoManifest
      /\ UNCHANGED <<dir, shown, born, handed>> /\ handed \subseteq Jobs
  BY QueueAssumption DEF Forget, Unlocked, history, QueueInvariant, TypeOK
<1>2. Succession'
  BY <1>1 DEF Succession
<1>3. ShownBehind'
  <2>1. \A j \in Jobs : OnDisk(j)' = {manifest'[j]} /\ manifest'[j] \in OnDisk(j)
    BY <1>1 DEF OnDisk, Unsynced
  <2> QED
    BY <1>1, <2>1 DEF ShownBehind
<1>4. DirectoryKept'
  BY <1>1 DEF DirectoryKept
<1>5. OnOffer'
  BY <1>1 DEF OnOffer
<1>6. Accounting'
  BY <1>1 DEF Accounting
<1>7. Admitting'
  BY <1>1 DEF Admitting
<1> QED
  BY <1>2, <1>3, <1>4, <1>5, <1>6, <1>7

LEMMA EnvironmentSafety ==
  ASSUME SafetyInvariant, Environment
  PROVE  SafetyInvariant'
<1>0. QueueInvariant' /\ QueueInvariant /\ TypeOK /\ LockedJob
  BY EnvironmentInvariant DEF SafetyInvariant, QueueInvariant
<1>1. CASE Crash
  BY <1>0, <1>1, ForgetSafety DEF Crash, disk
<1>2. CASE PowerLossBeforeRename
  BY <1>0, <1>2, ForgetSafety DEF PowerLossBeforeRename
<1>3. CASE PowerLossAfterRename
  <2>1. \A j \in Jobs : lock.job = j =>
          /\ Unsynced(j) /\ manifest'[j] = lock.old
          /\ IsStored(lock.old) \/ j \notin handed
    BY <1>0, <1>3 DEF PowerLossAfterRename, At, Unsynced, TypeOK, LockedJob
  <2>2. \A j \in Jobs : lock.job # j =>
          manifest'[j] = manifest[j] /\ tombstone'[j] = tombstone[j]
    BY <1>0, <1>3 DEF PowerLossAfterRename, TypeOK
  <2> QED
    BY <1>0, <1>3, <2>1, <2>2, ForgetSafety DEF PowerLossAfterRename
<1>4. CASE PowerLossAfterEntomb
  <2>1. \A j \in Jobs : lock.job = j =>
          Unsynced(j) /\ manifest'[j] = lock.old /\ IsStored(lock.old)
    BY <1>0, <1>4 DEF PowerLossAfterEntomb, At, Unsynced, TypeOK, LockedJob
  <2>2. \A j \in Jobs : lock.job # j =>
          manifest'[j] = manifest[j] /\ tombstone'[j] = tombstone[j]
    BY <1>0, <1>4 DEF PowerLossAfterEntomb, TypeOK
  <2> QED
    BY <1>0, <1>4, <2>1, <2>2, ForgetSafety DEF PowerLossAfterEntomb
<1>5. ASSUME NEW j \in Jobs, DamagePayload(j)
      PROVE  SafetyInvariant'
  BY <1>0, <1>5, QuietStep DEF DamagePayload, memory
<1> QED
  BY <1>1, <1>2, <1>3, <1>4, <1>5 DEF Environment

LEMMA SafetyHolds == Spec => []SafetyInvariant
<1>1. Init => SafetyInvariant
  <2> SUFFICES ASSUME Init PROVE SafetyInvariant
    OBVIOUS
  <2>1. QueueInvariant
    BY InitEstablishesQueue
  <2>2. /\ lock.kind = "none" /\ lock.stage = "none"
        /\ \A j \in Jobs : shown[j] = NoManifest /\ admission[j] = NoManifest
    BY DEF Init, Unlocked
  <2> QED
    BY <2>1, <2>2
    DEF Init, SafetyInvariant, Succession, ShownBehind, DirectoryKept, OnOffer, Accounting,
        Admitting, IsStored
<1>2. SafetyInvariant /\ [Next]_vars => SafetyInvariant'
  <2> SUFFICES ASSUME SafetyInvariant, [Next]_vars PROVE SafetyInvariant'
    OBVIOUS
  <2>1. CASE UNCHANGED vars
    <3>1. QueueInvariant'
      BY <2>1, QueueInvariantSteps DEF SafetyInvariant
    <3> QED
      BY <2>1, <3>1, QuietStep DEF vars, disk, memory, history
  <2>2. CASE Next
    BY <2>2, OperationSafety, LockStepSafety, RecoverySafety, EnvironmentSafety DEF Next
  <2> QED
    BY <2>1, <2>2
<1> QED
  BY <1>1, <1>2, PTL DEF Spec

-----------------------------------------------------------------------------
(* Bytes that were handed out stay with their manifest until the job is        *)
(* finished, at every step of every operation, crash and power loss            *)
(* (uploads.py:1034-1072, 1084-1107, 1381-1452).                               *)
THEOREM BytesAreKept == Spec => []BytesKept
<1>1. ASSUME SafetyInvariant PROVE BytesKept
  <2> USE <1>1 DEF SafetyInvariant, IsStored
  <2> SUFFICES ASSUME NEW j \in handed
               PROVE  \/ j \in dir /\ payload[j] # NoPayload /\ IsStored(Durable(j))
                      \/ IsStored(tombstone[j]) /\ IsFinished(tombstone[j])
                      \/ j \notin dir /\ ~IsStored(manifest[j])
    BY DEF BytesKept
  <2>1. j \in Jobs /\ Durable(j) \in OnDisk(j)
    BY DEF QueueInvariant, TypeOK, OnDisk, Durable
  <2>2. CASE IsStored(Durable(j))
    <3>1. payload[j] # NoPayload
      BY <2>1, <2>2 DEF QueueInvariant, PayloadBeside
    <3>2. j \in dir
      BY <2>1, <2>2 DEF QueueInvariant, JobRecords, LockedJob, Durable, Unsynced
    <3> QED
      BY <2>2, <3>1, <3>2
  <2>3. CASE ~IsStored(Durable(j))
    <3>1. ~IsStored(manifest[j])
      BY <2>1, <2>3 DEF QueueInvariant, LockedJob, Durable, Unsynced
    <3> QED
      BY <2>1, <3>1 DEF QueueInvariant, JobRecords, DirectoryKept
  <2> QED
    BY <2>2, <2>3
<1> QED
  BY <1>1, SafetyHolds, PTL

(* The service that runs has accounted for every job it was handed, whatever   *)
(* interrupted the ones before it (uploads.py:1381-1452).                      *)
THEOREM NoJobIsForgotten == Spec => []NothingForgotten
<1>1. ASSUME SafetyInvariant PROVE NothingForgotten
  <2> USE <1>1 DEF SafetyInvariant
  <2>1. handed \subseteq Jobs /\ valid \subseteq Jobs
    BY DEF QueueInvariant, TypeOK
  <2>2. ASSUME mode = "up", NEW j \in handed \cap dir
        PROVE  j \in valid \/ (j \in quarantined /\ j \in temp) \/ IsStored(tombstone[j])
    BY <2>2 DEF DirectoryKept, Accounting, Accounted
  <2>3. ASSUME NEW j \in valid
        PROVE  j \in dir /\ IsStored(manifest[j]) /\ payload[j] # NoPayload
    BY <2>1, <2>3 DEF OnOffer, QueueInvariant, JobRecords, PayloadBeside, OnDisk
  <2> QED
    BY <2>2, <2>3 DEF NothingForgotten
<1> QED
  BY <1>1, SafetyHolds, PTL

(* What a client was shown and what it then cancels or retries are one record  *)
(* when the revisions agree (uploads.py:849-863, 1417-1475 of service.py).     *)
THEOREM RevisionsNameRecords == Spec => []RevisionNamesRecord
<1>1. ASSUME SafetyInvariant PROVE RevisionNamesRecord
  <2>1. \A j \in Jobs : Durable(j) \in OnDisk(j)
    BY DEF OnDisk, Durable
  <2> QED
    BY <1>1, <2>1 DEF SafetyInvariant, ShownBehind, RevisionNamesRecord
<1> QED
  BY <1>1, SafetyHolds, PTL

-----------------------------------------------------------------------------
(* The lifecycle.                                                          *)

\* The record a job has after a crash: its manifest, or else its tombstone.
Record(j) == IF IsStored(Durable(j)) THEN Durable(j) ELSE tombstone[j]

Gone(j) == j \in born \ dir

\* What one step may do to it.
RecordKept(j) ==
  Record(j)' = Record(j) /\ (~IsStored(Record(j)) => (Gone(j)' <=> Gone(j)))

RecordBegun(j) ==
  ~IsStored(Record(j)) /\ ~Gone(j) /\ Record(j)' = NewManifest /\ IsStored(Record(j)')

RecordMoved(j) ==
  /\ IsStored(Record(j)) /\ IsStored(Record(j)')
  /\ Moves(Record(j), Record(j)')

RecordRemoved(j) ==
  /\ IsStored(Record(j)) /\ IsFinished(Record(j))
  /\ ~IsStored(Record(j)') /\ Gone(j)'

RecordChanged(j) == RecordBegun(j) \/ RecordMoved(j) \/ RecordRemoved(j)

\* A step that leaves manifests, tombstones and the lock's unsynced job alone.
LEMMA SameRecords ==
  ASSUME UNCHANGED <<manifest, tombstone>>,
         \A j \in Jobs : Unsynced(j)' <=> Unsynced(j),
         lock'.old = lock.old \/ \A j \in Jobs : ~Unsynced(j),
         \A j \in Jobs : ~IsStored(Record(j)) => (Gone(j)' <=> Gone(j))
  PROVE  \A j \in Jobs : RecordKept(j)
  BY DEF RecordKept, Record, Durable

\* Where the lock holder syncs a rename, or a crash takes the lock from it
\* without losing the rename, the new record replaces the old one.
LEMMA SyncedRecord ==
  ASSUME SafetyInvariant, lock.stage = "renamed", UNCHANGED <<manifest, tombstone, dir, born>>,
         \A j \in Jobs : ~Unsynced(j)'
  PROVE  \A j \in Jobs : RecordKept(j) \/ (j = lock.job /\ RecordChanged(j))
<1> USE DEF SafetyInvariant
<1>1. /\ QueueInvariant /\ Succession /\ lock.job \in dir
      /\ ~IsStored(tombstone[lock.job]) /\ IsStored(lock.next)
      /\ manifest[lock.job] = lock.next
  BY DEF QueueInvariant, LockedJob
<1>2. ASSUME NEW j \in Jobs, j # lock.job PROVE RecordKept(j)
  BY <1>2 DEF RecordKept, Record, Durable, Unsynced, Gone
<1>3. ASSUME NEW k \in Jobs, k = lock.job PROVE RecordChanged(k)
  <2>1. Unsynced(k) /\ ~Unsynced(k)' /\ manifest'[k] = lock.next
    BY <1>1, <1>3 DEF Unsynced
  <2>2. /\ Record(k) = IF IsStored(lock.old) THEN lock.old ELSE tombstone[k]
        /\ Record(k)' = lock.next
    BY <1>1, <1>3, <2>1 DEF Record, Durable
  <2> QED
    BY <1>1, <1>3, <2>2 DEF RecordChanged, RecordBegun, RecordMoved, Succession, Gone
<1> QED
  BY <1>2, <1>3

\* A crash at any other step leaves the record as it is.
LEMMA ForgottenRecord ==
  ASSUME SafetyInvariant, lock' = Unlocked, UNCHANGED <<dir, born>>,
         \A j \in Jobs :
           \/ /\ manifest'[j] = manifest[j] /\ tombstone'[j] = tombstone[j]
              /\ lock.job # j \/ lock.stage # "renamed"
           \/ /\ Unsynced(j) /\ manifest'[j] = lock.old
              /\ tombstone'[j] = NoManifest
  PROVE  \A j \in Jobs : RecordKept(j)
<1> USE DEF SafetyInvariant, IsStored
<1>1. \A j \in Jobs : ~Unsynced(j)' /\ Durable(j)' = manifest'[j]
  BY DEF Unlocked, Unsynced, Durable
<1>2. LockedJob
  BY DEF QueueInvariant
<1>3. \A j \in Jobs : Record(j)' = Record(j)
  BY <1>1, <1>2 DEF Record, Durable, Unsynced, LockedJob
<1> QED
  BY <1>3 DEF RecordKept, Gone

LEMMA OperationRecords ==
  ASSUME SafetyInvariant, NEW k \in Jobs, Operation(k)
  PROVE  \A j \in Jobs : RecordKept(j)
<1>0. QueueInvariant
  BY DEF SafetyInvariant
<1>1. UNCHANGED <<manifest, tombstone>>
  BY DEF Operation, Begin, WriteDraft, BeginSeal, PublishSeal, SealRefused,
     QueueMarkReplacement, QueueBlockWriting, QueueRecordCandidate, QueueBeginReplacing,
     QueueRetry, QueueRetryShown, QueueBlock, QueueCommit, QueueCancel, QueueRemove, Show,
     BeginAttempt, AdmitAttempt, RefuseAttempt, DropAttempt, SendPayload, CloseAttempt,
     Update, disk, memory
<1>2. \/ lock' = lock
      \/ Free /\ lock'.stage \in {"payload", "temp", "entomb"}
  BY DEF Operation, Begin, WriteDraft, BeginSeal, PublishSeal, SealRefused,
     QueueMarkReplacement, QueueBlockWriting, QueueRecordCandidate, QueueBeginReplacing,
     QueueRetry, QueueRetryShown, QueueBlock, QueueCommit, QueueCancel, QueueRemove, Show,
     BeginAttempt, AdmitAttempt, RefuseAttempt, DropAttempt, SendPayload, CloseAttempt,
     Update, disk, memory, StartWrite, Held, Known
<1>3. \/ UNCHANGED <<dir, born>>
      \/ k \notin born /\ dir' = dir \cup {k} /\ born' = born \cup {k}
  BY DEF Operation, Begin, WriteDraft, BeginSeal, PublishSeal, SealRefused,
     QueueMarkReplacement, QueueBlockWriting, QueueRecordCandidate, QueueBeginReplacing,
     QueueRetry, QueueRetryShown, QueueBlock, QueueCommit, QueueCancel, QueueRemove, Show,
     BeginAttempt, AdmitAttempt, RefuseAttempt, DropAttempt, SendPayload, CloseAttempt,
     Update, disk, memory, history
<1>4. Free => lock.stage = "none"
  BY <1>0 DEF QueueInvariant, TypeOK, Free
<1>5. \A j \in Jobs : Unsynced(j)' <=> Unsynced(j)
  BY <1>2, <1>4 DEF Unsynced
<1>6. lock'.old = lock.old \/ \A j \in Jobs : ~Unsynced(j)
  BY <1>2, <1>4 DEF Unsynced
<1>7. \A j \in Jobs : Gone(j)' <=> Gone(j)
  BY <1>3 DEF Gone
<1> QED
  BY <1>1, <1>5, <1>6, <1>7, SameRecords

LEMMA LockStepRecords ==
  ASSUME SafetyInvariant, LockStep
  PROVE  \A j \in Jobs : RecordKept(j) \/ (j = lock.job /\ RecordChanged(j))
<1>0. QueueInvariant /\ TypeOK /\ LockedJob /\ JobRecords
  BY DEF SafetyInvariant, QueueInvariant
<1>l. lock.stage # "none" => lock.job \in Jobs /\ lock.job \in born
  BY <1>0 DEF QueueInvariant, TypeOK, Free, UnbornJobs
<1>s. ASSUME NEW stage, lock' = [lock EXCEPT !.stage = stage]
      PROVE  /\ lock'.kind = lock.kind /\ lock'.job = lock.job /\ lock'.stage = stage
             /\ lock'.next = lock.next /\ lock'.old = lock.old
  BY <1>0, <1>s DEF TypeOK
<1>1. CASE CreatePayload \/ CreateManifest
  <2>1. /\ lock.stage \in {"payload", "create"} /\ lock'.stage \in {"create", "temp"}
        /\ UNCHANGED <<manifest, tombstone, dir, born>>
    BY <1>1, <1>s DEF CreatePayload, CreateManifest, StartWrite, Held, At, history
  <2>2. \A j \in Jobs : ~Unsynced(j) /\ ~Unsynced(j)'
    BY <2>1 DEF Unsynced
  <2>3. \A j \in Jobs : Gone(j)' <=> Gone(j)
    BY <2>1 DEF Gone
  <2> QED
    BY <2>1, <2>2, <2>3, SameRecords
<1>2. CASE RenameManifest
  <2>1. /\ lock'.job = lock.job /\ lock'.stage = "renamed" /\ lock'.old = lock.old
        /\ lock.stage = "temp" /\ manifest[lock.job] = lock.old /\ lock.job \in Jobs
        /\ \A j \in Jobs : j # lock.job => manifest'[j] = manifest[j]
        /\ UNCHANGED <<tombstone, dir, born>>
    BY <1>0, <1>2, <1>l, <1>s DEF RenameManifest, At, LockedJob, TypeOK, history
  <2>2. \A j \in Jobs : Record(j)' = Record(j)
    BY <2>1 DEF Record, Durable, Unsynced
  <2> QED
    BY <2>1, <2>2 DEF RecordKept, Gone
<1>3. CASE SyncManifest \/ SyncFails
  <2>1. /\ lock.stage = "renamed" /\ UNCHANGED <<manifest, tombstone, dir, born>>
        /\ lock'.stage \in {"none", "entomb"}
    <3>1. CASE SyncManifest
      BY <1>0, <3>1 DEF SyncManifest, At, Unlocked, TypeOK, disk
    <3>2. CASE SyncFails
      BY <3>2 DEF SyncFails, Abandon, At, Unlocked, disk, history
    <3> QED
      BY <1>3, <3>1, <3>2
  <2>2. \A j \in Jobs : ~Unsynced(j)'
    BY <2>1 DEF Unsynced
  <2> QED
    BY <2>1, <2>2, SyncedRecord
<1>4. CASE WriteFails \/ CleanupFails
  <2>1. /\ lock' = Unlocked /\ lock.stage # "renamed"
        /\ UNCHANGED <<manifest, tombstone, dir, born>>
    BY <1>4 DEF WriteFails, Abandon, CleanupFails, At, disk, history
  <2> QED
    BY <2>1, ForgottenRecord
<1>5. CASE Entomb
  <2>1. /\ lock.stage = "entomb" /\ lock'.stage = "entombed" /\ lock'.kind = "cleanup"
        /\ lock'.job = lock.job /\ lock'.old = manifest[lock.job] /\ lock.job \in Jobs
        /\ IsStored(manifest[lock.job])
        /\ \A j \in Jobs : j # lock.job =>
             manifest'[j] = manifest[j] /\ tombstone'[j] = tombstone[j]
        /\ UNCHANGED <<dir, born>>
    BY <1>0, <1>5, <1>l DEF Entomb, At, LockedJob, TypeOK, history
  <2>2. \A j \in Jobs : Record(j)' = Record(j)
    BY <2>1 DEF Record, Durable, Unsynced
  <2> QED
    BY <2>1, <2>2 DEF RecordKept, Gone
<1>6. CASE UnlinkPayload
  <2>1. /\ lock.stage = "entombed" /\ lock'.stage = "rmdir" /\ lock'.job = lock.job
        /\ ~IsStored(manifest[lock.job]) /\ IsStored(tombstone[lock.job])
        /\ lock.kind = "cleanup" => lock.old = tombstone[lock.job]
        /\ UNCHANGED <<manifest, tombstone, dir, born>>
    BY <1>0, <1>6, <1>s DEF UnlinkPayload, At, LockedJob, history
  <2>2. \A j \in Jobs : Record(j)' = Record(j)
    BY <2>1 DEF Record, Durable, Unsynced
  <2> QED
    BY <2>1, <2>2 DEF RecordKept, Gone
<1>7. CASE RemoveDirectory
  <2>1. /\ lock.stage = "rmdir" /\ lock'.stage = "unmark"
        /\ IsStored(tombstone[lock.job]) /\ dir' = dir \ {lock.job}
        /\ UNCHANGED <<manifest, tombstone, born>>
    BY <1>0, <1>7, <1>s DEF RemoveDirectory, At, LockedJob, history
  <2>2. \A j \in Jobs : ~Unsynced(j) /\ ~Unsynced(j)'
    BY <2>1 DEF Unsynced
  <2>3. \A j \in Jobs : ~IsStored(Record(j)) => (Gone(j)' <=> Gone(j))
    BY <2>1 DEF Gone, Record
  <2> QED
    BY <2>1, <2>2, <2>3, SameRecords
<1>8. CASE RemoveTombstone
  <2>1. /\ lock.stage = "unmark" /\ lock' = Unlocked /\ lock.job \in born \ dir
        /\ ~IsStored(manifest[lock.job]) /\ IsStored(tombstone[lock.job])
        /\ IsFinished(tombstone[lock.job]) /\ ~IsStored(tombstone'[lock.job])
        /\ lock.job \in Jobs
        /\ \A j \in Jobs : j # lock.job => tombstone'[j] = tombstone[j]
        /\ UNCHANGED <<manifest, dir, born>>
    BY <1>0, <1>8, <1>l
    DEF RemoveTombstone, At, LockedJob, JobRecords, TypeOK, IsStored, history
  <2>2. \A j \in Jobs : Durable(j) = manifest[j] /\ Durable(j)' = manifest[j]
    BY <2>1 DEF Durable, Unsynced, Unlocked
  <2>3. ASSUME NEW k \in Jobs, k = lock.job PROVE RecordChanged(k)
    BY <2>1, <2>2, <2>3 DEF RecordChanged, RecordRemoved, Record, Gone
  <2>4. \A j \in Jobs : j # lock.job => RecordKept(j)
    BY <2>1, <2>2 DEF RecordKept, Record, Gone
  <2> QED
    BY <2>3, <2>4
<1> QED
  BY <1>1, <1>2, <1>3, <1>4, <1>5, <1>6, <1>7, <1>8 DEF LockStep

LEMMA RecoveryRecords ==
  ASSUME SafetyInvariant, Recovery
  PROVE  \A j \in Jobs : RecordKept(j)
<1>0. QueueInvariant /\ TypeOK /\ RecoveryTodo
  BY DEF SafetyInvariant, QueueInvariant
<1>1. UNCHANGED <<manifest, tombstone, dir, born>>
  BY DEF Recovery, Restart, StartScan, StartCleanup, FinishRecovery, FinishTombstone,
     QuarantineJob, RecoverDraft, RecoverJob, CleanupFinished, disk, history
<1>2. Free
  BY <1>0 DEF Recovery, Restart, StartScan, StartCleanup, FinishRecovery, FinishTombstone,
     QuarantineJob, RecoverDraft, RecoverJob, CleanupFinished, Scanning, RecoveryTodo
<1>3. \/ lock' = lock
      \/ lock'.stage \in {"temp", "entomb", "entombed", "rmdir", "unmark"}
           /\ (lock'.stage = "entombed" => lock'.kind = "finish")
  BY DEF Recovery, Restart, StartScan, StartCleanup, FinishRecovery, FinishTombstone,
     QuarantineJob, RecoverDraft, RecoverJob, CleanupFinished, StartWrite, Held
<1>4. lock.stage = "none"
  BY <1>0, <1>2 DEF TypeOK, Free
<1>5. \A j \in Jobs : ~Unsynced(j) /\ ~Unsynced(j)'
  BY <1>3, <1>4 DEF Unsynced
<1>6. \A j \in Jobs : Gone(j)' <=> Gone(j)
  BY <1>1 DEF Gone
<1> QED
  BY <1>1, <1>5, <1>6, SameRecords

LEMMA EnvironmentRecords ==
  ASSUME SafetyInvariant, Environment
  PROVE  \A j \in Jobs : RecordKept(j) \/ (j = lock.job /\ RecordChanged(j))
<1>0. QueueInvariant /\ TypeOK /\ LockedJob
  BY DEF SafetyInvariant, QueueInvariant
<1>1. CASE Crash
  <2>1. lock' = Unlocked /\ UNCHANGED <<manifest, tombstone, dir, born>>
    BY <1>1 DEF Crash, Forget, disk, history
  <2>2. \A j \in Jobs : ~Unsynced(j)'
    BY <2>1 DEF Unsynced, Unlocked
  <2> QED
    BY <2>1, <2>2, SyncedRecord, ForgottenRecord
<1>2. CASE PowerLossBeforeRename
  <2>1. lock' = Unlocked /\ lock.stage = "temp" /\ UNCHANGED <<manifest, tombstone, dir, born>>
    BY <1>2 DEF PowerLossBeforeRename, Forget, At, history
  <2> QED
    BY <2>1, ForgottenRecord
<1>3. CASE PowerLossAfterRename \/ PowerLossAfterEntomb
  <2>1. lock' = Unlocked /\ UNCHANGED <<dir, born>>
    BY <1>3 DEF PowerLossAfterRename, PowerLossAfterEntomb, Forget, history
  <2>2. \A j \in Jobs : lock.job = j =>
          Unsynced(j) /\ manifest'[j] = lock.old /\ tombstone'[j] = NoManifest
    BY <1>0, <1>3
    DEF PowerLossAfterRename, PowerLossAfterEntomb, At, Unsynced, TypeOK, LockedJob, IsStored
  <2>3. \A j \in Jobs : lock.job # j =>
          manifest'[j] = manifest[j] /\ tombstone'[j] = tombstone[j]
    BY <1>0, <1>3 DEF PowerLossAfterRename, PowerLossAfterEntomb, TypeOK
  <2> QED
    BY <2>1, <2>2, <2>3, ForgottenRecord
<1>4. ASSUME NEW k \in Jobs, DamagePayload(k)
      PROVE  \A j \in Jobs : RecordKept(j)
  BY <1>4 DEF DamagePayload, memory, RecordKept, Record, Durable, Unsynced, Gone
<1> QED
  BY <1>1, <1>2, <1>3, <1>4 DEF Environment

LEMMA RecordSteps ==
  ASSUME SafetyInvariant, [Next]_vars
  PROVE  \A j \in Jobs : RecordKept(j) \/ (j = lock.job /\ RecordChanged(j))
<1>1. CASE UNCHANGED vars
  BY <1>1 DEF vars, disk, memory, history, RecordKept, Record, Durable, Unsynced, Gone
<1>2. CASE Next
  BY <1>2, OperationRecords, LockStepRecords, RecoveryRecords, EnvironmentRecords DEF Next
<1> QED
  BY <1>1, <1>2

(* A remote asset recorded for a job is neither forgotten nor exchanged while  *)
(* the job exists (uploads.py:696-713, 741-796, 1381-1452).                    *)
THEOREM CandidateIsKept == Spec => CandidateKept
<1>1. ASSUME SafetyInvariant, [Next]_vars
      PROVE  \A j \in Jobs :
               /\ IsStored(Durable(j)) /\ HasCandidate(Durable(j))
               /\ IsStored(Durable(j)')
               => Durable(j).candidate = Durable(j)'.candidate
  <2> SUFFICES ASSUME NEW j \in Jobs, IsStored(Durable(j)), HasCandidate(Durable(j)),
                      IsStored(Durable(j)')
               PROVE  Durable(j).candidate = Durable(j)'.candidate
    OBVIOUS
  <2>1. Record(j) = Durable(j) /\ Record(j)' = Durable(j)'
    BY DEF Record, IsStored
  <2>2. RecordKept(j) \/ RecordMoved(j)
    BY <1>1, <2>1, RecordSteps DEF RecordChanged, RecordBegun, RecordRemoved, IsStored
  <2> QED
    BY <2>1, <2>2 DEF RecordKept, RecordMoved, Moves, Passes
<1> QED
  BY <1>1, SafetyHolds, PTL DEF Spec, CandidateKept

\* Phase and candidate are those of the record.
LEMMA ViewOfRecord ==
  \A j : /\ JobPhase(j) = IF IsStored(Record(j)) THEN PhaseOf(Record(j))
                          ELSE IF Gone(j) THEN "gone" ELSE "new"
         /\ JobCandidate(j) = IF IsStored(Record(j)) THEN Record(j).candidate ELSE NoAsset
  BY DEF JobPhase, JobCandidate, Record, Gone

LEMMA LifecycleStep ==
  ASSUME SafetyInvariant, [Next]_vars
  PROVE  [Lifecycle!Next]_(Lifecycle!vars)
<1> DEFINE P == [j \in Jobs |-> JobPhase(j)]
           C == [j \in Jobs |-> JobCandidate(j)]
<1>v. \A j \in Jobs :
        /\ JobPhase(j)' = IF IsStored(Record(j)') THEN PhaseOf(Record(j)')
                          ELSE IF Gone(j)' THEN "gone" ELSE "new"
        /\ JobCandidate(j)' = IF IsStored(Record(j)') THEN Record(j)'.candidate ELSE NoAsset
  BY DEF JobPhase, JobCandidate, Record, Gone, IsStored, PhaseOf, IsSealed
<1>1. \A j \in Jobs : RecordKept(j) =>
        JobPhase(j)' = JobPhase(j) /\ JobCandidate(j)' = JobCandidate(j)
  BY <1>v, ViewOfRecord DEF RecordKept
<1>p. P' = [j \in Jobs |-> JobPhase(j)'] /\ C' = [j \in Jobs |-> JobCandidate(j)']
  OBVIOUS
<1>2. CASE \A j \in Jobs : RecordKept(j)
  <2>1. P' = P /\ C' = C
    BY <1>1, <1>2, <1>p
  <2> QED
    BY <2>1 DEF Lifecycle!vars
<1>3. ASSUME NEW k \in Jobs, RecordChanged(k), k = lock.job
      PROVE  [Lifecycle!Next]_(Lifecycle!vars)
  <2>1. \A j \in Jobs : j # k => JobPhase(j)' = JobPhase(j) /\ JobCandidate(j)' = JobCandidate(j)
    BY <1>1, <1>3, RecordSteps
  <2>2. \A p : JobPhase(k)' = p => P' = [P EXCEPT ![k] = p]
    BY <1>3, <1>p, <2>1
  <2>3. \A c : JobCandidate(k)' = c => C' = [C EXCEPT ![k] = c]
    BY <1>3, <1>p, <2>1
  <2>4. JobCandidate(k)' = JobCandidate(k) => C' = C
    BY <1>3, <1>p, <2>1
  <2>5. JobPhase(k)' = JobPhase(k) => P' = P
    BY <1>3, <1>p, <2>1
  <2>6. P[k] = JobPhase(k) /\ C[k] = JobCandidate(k)
    BY <1>3
  <2>7. CASE RecordBegun(k)
    <3>1. JobPhase(k) = "new" /\ JobCandidate(k) = NoAsset
      BY <2>7, ViewOfRecord DEF RecordBegun
    <3>2. JobPhase(k)' = "draft" /\ JobCandidate(k)' = NoAsset
      BY <1>3, <1>v, <2>7 DEF RecordBegun, NewManifest, PhaseOf, IsSealed
    <3>3. Lifecycle!Draft(k)
      BY <2>2, <2>4, <2>6, <3>1, <3>2 DEF Lifecycle!Draft, Lifecycle!Become, P, C
    <3> QED
      BY <1>3, <3>3 DEF Lifecycle!Next
  <2>8. CASE RecordRemoved(k)
    <3>1. JobPhase(k) \in {"committed", "cancelled"}
      BY <2>8, ViewOfRecord DEF RecordRemoved, IsFinished, PhaseOf
    <3>2. JobPhase(k)' = "gone" /\ JobCandidate(k)' = NoAsset
      BY <1>3, <1>v, <2>8 DEF RecordRemoved
    <3>3. /\ P' = [j \in Jobs |-> IF j \in {k} THEN "gone" ELSE P[j]]
          /\ C' = [j \in Jobs |-> IF j \in {k} THEN NoAsset ELSE C[j]]
      BY <1>p, <2>1, <3>2
    <3>4. Lifecycle!Discard({k}) /\ {k} \in SUBSET Jobs
      BY <1>3, <2>6, <3>1, <3>3 DEF Lifecycle!Discard, P, C
    <3> QED
      BY <3>4 DEF Lifecycle!Next
  <2>9. CASE RecordMoved(k)
    <3> DEFINE m == Record(k)
               next == Record(k)'
    <3>1. /\ JobPhase(k) = PhaseOf(m) /\ JobCandidate(k) = m.candidate
          /\ JobPhase(k)' = PhaseOf(next) /\ JobCandidate(k)' = next.candidate
          /\ Passes(m, next)
      BY <1>3, <1>v, <2>9, ViewOfRecord DEF RecordMoved, Moves
    <3> HIDE DEF m, next
    <3>2. CASE PhaseOf(next) = PhaseOf(m) /\ next.candidate = m.candidate
      BY <2>4, <2>5, <3>1, <3>2 DEF Lifecycle!vars, P, C
    <3>3. CASE PhaseOf(m) = "draft" /\ PhaseOf(next) = "sealed" /\ next.candidate = m.candidate
      <4>1. Lifecycle!SealJob(k)
        BY <2>2, <2>4, <2>6, <3>1, <3>3 DEF Lifecycle!SealJob, Lifecycle!Become, P, C
      <4> QED
        BY <1>3, <4>1 DEF Lifecycle!Next
    <3>4. CASE /\ PhaseOf(m) = "sealed" /\ PhaseOf(next) = "sealed"
               /\ ~HasCandidate(m) /\ next.candidate \in Assets
      <4>1. Lifecycle!Record(k)
        BY <2>3, <2>5, <2>6, <3>1, <3>4 DEF Lifecycle!Record, HasCandidate, P, C
      <4> QED
        BY <1>3, <4>1 DEF Lifecycle!Next
    <3>5. CASE /\ PhaseOf(m) = "sealed" /\ PhaseOf(next) = "committed"
               /\ HasCandidate(m) /\ next.candidate = m.candidate
      <4>1. Lifecycle!CommitJob(k)
        BY <2>2, <2>4, <2>6, <3>1, <3>5
        DEF Lifecycle!CommitJob, Lifecycle!Become, HasCandidate, P, C
      <4> QED
        BY <1>3, <4>1 DEF Lifecycle!Next
    <3>6. CASE PhaseOf(m) = "committed" /\ PhaseOf(next) = "sealed" /\ next.candidate = m.candidate
      <4>1. Lifecycle!Reopen(k)
        BY <2>2, <2>4, <2>6, <3>1, <3>6 DEF Lifecycle!Reopen, Lifecycle!Become, P, C
      <4> QED
        BY <1>3, <4>1 DEF Lifecycle!Next
    <3>7. CASE /\ PhaseOf(m) \in {"draft", "sealed"} /\ PhaseOf(next) = "cancelled"
               /\ ~HasCandidate(m) /\ next.candidate = m.candidate
      <4>1. Lifecycle!CancelJob(k)
        BY <2>2, <2>4, <2>6, <3>1, <3>7
        DEF Lifecycle!CancelJob, Lifecycle!Become, HasCandidate, P, C
      <4> QED
        BY <1>3, <4>1 DEF Lifecycle!Next
    <3> QED
      BY <3>1, <3>2, <3>3, <3>4, <3>5, <3>6, <3>7 DEF Passes
  <2> QED
    BY <1>3, <2>7, <2>8, <2>9 DEF RecordChanged
<1> QED
  BY <1>2, <1>3, RecordSteps

(* The queue implements the lifecycle of JobLifecycle (docs/research/          *)
(* queued-upload-recovery.md, "Smallest correct state machine"), through every *)
(* crash, failed write and concurrent request.                                 *)
THEOREM QueueFollowsLifecycle == Spec => FollowsLifecycle
<1>1. Init => Lifecycle!Init
  <2> SUFFICES ASSUME Init PROVE Lifecycle!Init
    OBVIOUS
  <2>1. \A j \in Jobs : JobPhase(j) = "new" /\ JobCandidate(j) = NoAsset
    BY DEF Init, Unlocked, JobPhase, JobCandidate, Durable, Unsynced, IsStored
  <2> QED
    BY <2>1 DEF Lifecycle!Init
<1> QED
  BY <1>1, LifecycleStep, SafetyHolds, PTL DEF Spec, FollowsLifecycle, Lifecycle!Spec
=============================================================================
