------------------------ MODULE UploadServiceProofs ------------------------
(***************************************************************************)
(* Theorems about UploadService, for every set of jobs and assets and every *)
(* bound on what the environment does.  The invariant that carries them,    *)
(* ServiceInvariant, says what each place of the worker and of a staged     *)
(* file means for the record of the job.                                    *)
(***************************************************************************)
EXTENDS UploadService, UploadManifestProofs

-----------------------------------------------------------------------------
(* The invariant. *)

(* What TypeOK says of the records and of their order. *)
RecordTypes ==
  /\ record \in [Jobs -> Manifest \cup {NoManifest}]
  /\ \A j \in Jobs : IsStored(record[j]) => ValidManifest(record[j])

OrderTypes ==
  /\ older \subseteq Listed \X Listed
  /\ \A i, j \in Listed : i # j <=> (<<i, j>> \in older \/ <<j, i>> \in older)
  /\ \A i, j, k \in Listed :
       <<i, j>> \in older /\ <<j, k>> \in older => <<i, k>> \in older

(* What it says of the rest. *)
Pcs == {"check", "measure", "sleep", "admit", "send", "reply", "verify",
        "publish", "commit", "remove", "finish", "block"}

Places == [pc: Pcs, job: Jobs \cup {NoJob}, rev: Nat]

OtherTypes ==
  /\ waiting \subseteq Jobs /\ armed \subseteq Jobs /\ finishing \subseteq Jobs
  /\ file \in [Jobs -> {"none", "open", "deferring", "failing", "pending",
                        "gone"}]
  /\ sealedRev \in [Jobs -> Nat] /\ shown \in [Jobs -> Nat]
  /\ worker \in Places
  /\ channel \in BOOLEAN /\ online \in BOOLEAN
  /\ remote \in [Assets -> Jobs \cup {Absent, Unmarked}]
  /\ trashed \subseteq Assets /\ catalog \subseteq Assets
  /\ published \subseteq Jobs /\ cancelled \subseteq Jobs
  /\ cutShort \subseteq cancelled
  /\ trouble \in 0..MaxTrouble

(* A leftover, and a job set aside, have a record.  A job is set aside over a  *)
(* leftover or when the start had to write or remove it.                      *)
LeftoversFit ==
  /\ temp \cup quarantined \subseteq {j \in Jobs : IsStored(record[j])}
  /\ \A j \in quarantined :
       j \in temp \/ record[j].state \in {"writing", "committed", "cancelled"}

(* Every stored record is one of an ordinary upload that passes              *)
(* _validate_manifest.                                                       *)
Proper(m) ==
  /\ Sound(m)
  /\ m.op = "ordinary"
  /\ IsSealed(m) => m.bytes \in Assets

RecordsProper == \A j \in Jobs : IsStored(record[j]) => Proper(record[j])

(* What the staged file of a job says of its record. *)
FileFits(j) ==
  /\ file[j] = "none" => ~IsStored(record[j])
  /\ file[j] = "open" => Known(j) /\ IsDraft(record[j])
  /\ file[j] = "pending" /\ IsStored(record[j]) => IsSealed(record[j])

FilesFit == \A j \in Jobs : FileFits(j)

(* What the place of the worker says of the job it is at. *)
Attempted(j) ==
  /\ Known(j) /\ record[j].state = "attempting"
  /\ record[j].attempts >= 1
  /\ j \notin waiting /\ j \notin temp

(* The candidate carries the marker and the bytes of the job. *)
Marked(j) ==
  /\ HasCandidate(record[j])
  /\ record[j].candidate = record[j].bytes
  /\ remote[record[j].candidate] = j

Served(j) == Marked(j) /\ record[j].candidate \in catalog \cup trashed

Sending(j) == At("send", j) \/ At("reply", j)

WorkerFits(j) ==
  /\ Sending(j) => Attempted(j) /\ ~HasCandidate(record[j])
  /\ At("verify", j) => Attempted(j) /\ HasCandidate(record[j])
  /\ At("publish", j) => Attempted(j) /\ Marked(j)
  /\ At("commit", j) => Attempted(j) /\ Served(j) /\ j \in published
  /\ At("remove", j) =>
       Known(j) /\ record[j].state = "committed" /\ j \notin temp
  /\ At("finish", j) => j \in published

WorkerFit == \A j \in Jobs : WorkerFits(j)

(* A committed job is published and served. *)
CommitFits(j) ==
  IsStored(record[j]) /\ record[j].state = "committed" =>
    Served(j) /\ j \in published

CommitsFit == \A j \in Jobs : CommitFits(j)

(* A cancelled job has no record but one that says so, and gets none again. *)
CancelFits(j) ==
  /\ j \in cancelled => file[j] \notin {"none", "open"}
  /\ IsStored(record[j]) => (j \in cancelled <=> record[j].state = "cancelled")

CancelsFit ==
  /\ finishing \subseteq cancelled
  /\ \A j \in Jobs : CancelFits(j)

ServiceInvariant ==
  /\ RecordTypes /\ OrderTypes /\ OtherTypes /\ LeftoversFit
  /\ RecordsProper /\ FilesFit /\ WorkerFit /\ CommitsFit /\ CancelsFit
  /\ BytesNotLost

-----------------------------------------------------------------------------
(* Records. *)

(* A manifest is stored and NoManifest is not. *)
LEMMA ManifestIsStored == \A m \in Manifest : IsStored(m)
  BY ServiceAssumption DEF IsStored

LEMMA ProperIsStored == ASSUME NEW m, Proper(m) PROVE IsStored(m) /\ m \in Manifest
  BY ManifestIsStored DEF Proper, Sound

(* The error codes the service passes on are error codes, and none is the    *)
(* absence of an error.                                                      *)
ServiceErrors ==
  {"upload-unavailable", "ambiguous-response", "candidate-mismatch",
   "local-state-failed", "local-write-failed", UploadRejected,
   InterruptedWrite, PayloadInvalid}

LEMMA ErrorsAreCodes == ServiceErrors \subseteq UploadErrorCode \ {NoError}
  BY ServiceAssumption
  DEF ServiceErrors, UploadErrorCode, UploadRejected, InterruptedWrite,
      PayloadInvalid, NoError

(* m is a proper record with the bytes of the proper record it replaces. *)
Replaces(old, m) == Proper(m) /\ m.bytes = old.bytes

LEMMA NewIsProper == Proper(NewManifest) /\ ~IsSealed(NewManifest)
<1>1. /\ NewManifest.op = "ordinary" /\ NewManifest.state = "writing"
      /\ NewManifest.bytes = Unsealed
  BY DEF NewManifest
<1> QED
  BY <1>1, NewIsSound DEF Proper, IsSealed

LEMMA SealIsProper ==
  ASSUME NEW m, Proper(m), m.state = "writing", NEW b \in Assets
  PROVE  /\ Proper(Seal(m, b)) /\ IsSealed(Seal(m, b))
         /\ Seal(m, b).state = "pending" /\ ~HasCandidate(Seal(m, b))
<1>1. b \in Nat /\ b # Unsealed
  BY ServiceAssumption DEF Unsealed
<1>2. Sound(Seal(m, b))
  BY <1>1, SealIsSound DEF Proper
<1>3. /\ Seal(m, b).op = m.op /\ Seal(m, b).state = "pending"
      /\ Seal(m, b).bytes = b /\ Seal(m, b).candidate = m.candidate
  BY DEF Seal, Proper, Sound, Manifest
<1>4. ~HasCandidate(m)
  BY DEF Proper, Sound, ValidManifest, ValidState
<1> QED
  BY <1>1, <1>2, <1>3, <1>4 DEF Proper, IsSealed, HasCandidate

LEMMA BlockDraftIsProper ==
  ASSUME NEW m, Proper(m), m.state = "writing", NEW e \in ServiceErrors
  PROVE  Replaces(m, BlockDraft(m, e)) /\ BlockDraft(m, e).state = "blocked"
<1>1. Sound(BlockDraft(m, e))
  BY BlockDraftIsSound, ErrorsAreCodes DEF Proper
<1>2. /\ BlockDraft(m, e).op = m.op /\ BlockDraft(m, e).state = "blocked"
      /\ BlockDraft(m, e).bytes = m.bytes
  BY DEF BlockDraft, Proper, Sound, Manifest
<1> QED
  BY <1>1, <1>2 DEF Proper, IsSealed, Replaces

LEMMA BlockIsProper ==
  ASSUME NEW m, Proper(m), CanBlock(m), NEW e \in ServiceErrors
  PROVE  Replaces(m, Block(m, e)) /\ Block(m, e).state = "blocked"
<1>1. Sound(Block(m, e))
  BY BlockIsSound, ErrorsAreCodes DEF Proper
<1>2. /\ Block(m, e).op = m.op /\ Block(m, e).state = "blocked"
      /\ Block(m, e).bytes = m.bytes
  BY DEF Block, Proper, Sound, Manifest
<1> QED
  BY <1>1, <1>2 DEF Proper, IsSealed, Replaces

LEMMA RetryIsProper ==
  ASSUME NEW m, Proper(m), CanRetry(m), NEW e \in ServiceErrors \cup {NoError}
  PROVE  /\ Replaces(m, Retry(m, e))
         /\ Retry(m, e).state \notin {"writing", "committed", "cancelled"}
<1>1. Sound(Retry(m, e))
  BY RetryIsSound, ErrorsAreCodes DEF Proper
<1>2. /\ Retry(m, e).op = m.op /\ Retry(m, e).state = ResumeState(m)
      /\ Retry(m, e).bytes = m.bytes
  BY DEF Retry, Proper, Sound, Manifest
<1>3. ResumeState(m) \in {"replacing", "attempting", "pending"}
  BY DEF ResumeState
<1> QED
  BY <1>1, <1>2, <1>3 DEF Proper, IsSealed, Replaces

LEMMA AttemptIsProper ==
  ASSUME NEW m, Proper(m), CanAttempt(m)
  PROVE  /\ Replaces(m, Provisional(m)) /\ Provisional(m).state = "attempting"
         /\ Replaces(m, Admit(Provisional(m)))
         /\ Admit(Provisional(m)).state = "attempting"
         /\ Admit(Provisional(m)).attempts >= 1
         /\ Admit(Provisional(m)).candidate = m.candidate
<1> DEFINE p == Provisional(m)
<1>1. Sound(p) /\ Sound(Admit(p))
  BY AttemptIsSound DEF Proper
<1>2. /\ p.op = m.op /\ p.state = "attempting" /\ p.bytes = m.bytes
      /\ p.attempts = m.attempts /\ p.candidate = m.candidate
      /\ m.attempts \in Nat
  BY DEF Provisional, Proper, Sound, Manifest
<1> HIDE DEF p
<1>3. /\ Admit(p).op = p.op /\ Admit(p).state = p.state
      /\ Admit(p).bytes = p.bytes /\ Admit(p).attempts = p.attempts + 1
      /\ Admit(p).candidate = p.candidate
  BY <1>1 DEF Admit, Sound, Manifest
<1>4. /\ Replaces(m, p) /\ p.state = "attempting" /\ Replaces(m, Admit(p))
      /\ Admit(p).state = "attempting" /\ Admit(p).attempts >= 1
      /\ Admit(p).candidate = m.candidate
  BY <1>1, <1>2, <1>3 DEF Proper, IsSealed, Replaces
<1> QED
  BY <1>4 DEF p

LEMMA RecordIsProper ==
  ASSUME NEW m, Proper(m), m.state = "attempting", m.attempts >= 1,
         NEW c \in Assets
  PROVE  /\ Replaces(m, RecordCandidate(m, c))
         /\ RecordCandidate(m, c).state = "attempting"
         /\ RecordCandidate(m, c).attempts >= 1
         /\ HasCandidate(RecordCandidate(m, c))
<1>1. Sound(RecordCandidate(m, c))
  BY RecordIsSound DEF Proper
<1>2. /\ RecordCandidate(m, c).op = m.op
      /\ RecordCandidate(m, c).state = m.state
      /\ RecordCandidate(m, c).bytes = m.bytes
      /\ RecordCandidate(m, c).attempts = m.attempts
      /\ RecordCandidate(m, c).candidate = c
  BY DEF RecordCandidate, Proper, Sound, Manifest
<1>3. c # NoAsset
  BY NoAssetAssumption
<1> QED
  BY <1>1, <1>2, <1>3 DEF Proper, IsSealed, Replaces, HasCandidate

LEMMA CommitIsProper ==
  ASSUME NEW m, Proper(m), m.state = "attempting", HasCandidate(m)
  PROVE  /\ Replaces(m, Commit(m)) /\ Commit(m).state = "committed"
         /\ Commit(m).candidate = m.candidate
<1>1. CanCommit(m)
  BY DEF CanCommit, Proper
<1>2. Sound(Commit(m))
  BY <1>1, CommitIsSound DEF Proper
<1>3. /\ Commit(m).op = m.op /\ Commit(m).state = "committed"
      /\ Commit(m).bytes = m.bytes /\ Commit(m).candidate = m.candidate
  BY DEF Commit, Proper, Sound, Manifest
<1> QED
  BY <1>2, <1>3 DEF Proper, IsSealed, Replaces

LEMMA CancelIsProper ==
  ASSUME NEW m, Proper(m), NEW r, CanCancel(m, r)
  PROVE  /\ Replaces(m, Cancel(m)) /\ Cancel(m).state = "cancelled"
         /\ Cancel(m).candidate = m.candidate
<1>1. Sound(Cancel(m))
  BY CancelIsSound DEF Proper, CanCancel
<1>2. /\ Cancel(m).op = m.op /\ Cancel(m).state = "cancelled"
      /\ Cancel(m).bytes = m.bytes /\ Cancel(m).candidate = m.candidate
  BY DEF Cancel, Proper, Sound, Manifest
<1> QED
  BY <1>1, <1>2 DEF Proper, IsSealed, Replaces

-----------------------------------------------------------------------------
(* The queue.  A step leaves it alone, restarts the service, or does one of   *)
(* four things to one record.                                                 *)
QueueFits == RecordTypes /\ OrderTypes /\ RecordsProper /\ LeftoversFit

(* A record replaced, by a write that may leave its temporary file behind. *)
Put(j, m) ==
  /\ record' = [record EXCEPT ![j] = m]
  /\ temp' \in {temp, temp \cup {j}}
  /\ UNCHANGED quarantined

Begins(j) ==
  ~IsStored(record[j]) /\ Put(j, NewManifest) /\ UNCHANGED older

Seals(j) ==
  /\ Known(j) /\ IsDraft(record[j])
  /\ \E b \in Assets : Put(j, Seal(record[j], b))
  /\ older' = older \cup (Listed \X {j})

Updates(j, m) ==
  /\ Known(j) /\ Replaces(record[j], m)
  /\ Put(j, m) /\ UNCHANGED older

(* The other jobs stay in the queue as they are. *)
OthersStay(j) ==
  /\ \A i \in Jobs \ {j} :
       record'[i] = record[i] /\ (i \in temp' <=> i \in temp)
  /\ UNCHANGED quarantined

LEMMA SavePuts ==
  ASSUME NEW j, NEW m, Write(j, m) \/ Save(j, m)
  PROVE  Put(j, m)
  BY DEF Write, Save, Put

LEMMA PutPuts ==
  ASSUME RecordTypes, NEW j \in Jobs, NEW m \in Manifest \cup {NoManifest}, Put(j, m)
  PROVE  /\ record'[j] = m /\ OthersStay(j)
         /\ record' \in [Jobs -> Manifest \cup {NoManifest}]
  BY DEF RecordTypes, Put, OthersStay

(* If the same jobs are listed as before, an unchanged order fits. *)
LEMMA SameOrder ==
  ASSUME OrderTypes, UNCHANGED older, Listed' = Listed
  PROVE  OrderTypes'
  BY DEF OrderTypes

(* Listed is what the records say. *)
LEMMA ListedJobs ==
  ASSUME NEW j \in Jobs, OthersStay(j)
  PROVE  /\ \A i \in Jobs \ {j} : i \in Listed' <=> i \in Listed
         /\ Listed \subseteq Jobs /\ Listed' \subseteq Jobs
         /\ j \in Listed' <=>
              IsStored(record'[j]) /\ j \notin quarantined /\ IsSealed(record'[j])
         /\ j \in Listed <=>
              IsStored(record[j]) /\ j \notin quarantined /\ IsSealed(record[j])
  BY DEF Listed, Known, OthersStay

LEMMA OneRecordFits ==
  ASSUME QueueFits, NEW j \in Jobs, NEW m, Proper(m), Put(j, m)
  PROVE  /\ RecordTypes' /\ RecordsProper'
         /\ (j \notin quarantined => LeftoversFit')
         /\ record'[j] = m /\ OthersStay(j)
<1>1. m \in Manifest /\ IsStored(m) /\ ValidManifest(m)
  BY ProperIsStored DEF Proper, Sound
<1>2. /\ record'[j] = m /\ OthersStay(j)
      /\ record' \in [Jobs -> Manifest \cup {NoManifest}]
  BY <1>1, PutPuts DEF QueueFits
<1>3. RecordTypes'
  BY <1>1, <1>2 DEF QueueFits, RecordTypes, OthersStay
<1>4. RecordsProper'
  BY <1>2 DEF QueueFits, RecordsProper, OthersStay
<1>5. ASSUME j \notin quarantined PROVE LeftoversFit'
  BY <1>1, <1>2, <1>5 DEF QueueFits, LeftoversFit, Put, OthersStay
<1> QED
  BY <1>2, <1>3, <1>4, <1>5

LEMMA BeginsFits ==
  ASSUME QueueFits, NEW j \in Jobs, Begins(j)
  PROVE  QueueFits' /\ record'[j] = NewManifest /\ OthersStay(j)
<1>1. /\ RecordTypes' /\ RecordsProper' /\ LeftoversFit'
      /\ record'[j] = NewManifest /\ OthersStay(j)
  BY NewIsProper, OneRecordFits DEF Begins, QueueFits, LeftoversFit
<1>2. j \notin Listed /\ j \notin Listed'
  BY <1>1, NewIsProper, ListedJobs DEF Begins
<1>3. Listed' = Listed
  BY <1>1, <1>2, ListedJobs
<1> QED
  BY <1>1, <1>3, SameOrder DEF QueueFits, Begins

LEMMA UpdatesFits ==
  ASSUME QueueFits, NEW j \in Jobs, NEW m, Updates(j, m)
  PROVE  QueueFits' /\ record'[j] = m /\ IsStored(m) /\ OthersStay(j)
<1>1. /\ RecordTypes' /\ RecordsProper' /\ LeftoversFit'
      /\ record'[j] = m /\ OthersStay(j)
  BY OneRecordFits DEF Updates, Replaces, Known
<1>2. IsStored(m) /\ (IsSealed(m) <=> IsSealed(record[j]))
  BY ProperIsStored DEF Updates, Replaces, IsSealed
<1>3. j \in Listed <=> j \in Listed'
  BY <1>1, <1>2, ListedJobs DEF Updates, Known
<1>4. Listed' = Listed
  BY <1>1, <1>3, ListedJobs
<1> QED
  BY <1>1, <1>2, <1>4, SameOrder DEF QueueFits, Updates

LEMMA SealsFits ==
  ASSUME QueueFits, NEW j \in Jobs, Seals(j)
  PROVE  /\ QueueFits' /\ OthersStay(j) /\ IsStored(record'[j])
         /\ IsSealed(record'[j]) /\ record'[j].state = "pending"
         /\ ~HasCandidate(record'[j])
<1>1. PICK b \in Assets : Put(j, Seal(record[j], b))
  BY DEF Seals
<1> DEFINE m == Seal(record[j], b)
<1>2. /\ Proper(m) /\ IsSealed(m) /\ m.state = "pending" /\ ~HasCandidate(m)
  BY SealIsProper DEF Seals, QueueFits, RecordsProper, IsDraft, Known
<1> HIDE DEF m
<1>3. /\ RecordTypes' /\ RecordsProper' /\ LeftoversFit'
      /\ record'[j] = m /\ OthersStay(j)
  BY <1>1, <1>2, OneRecordFits DEF m, Seals, Known
<1>4. IsStored(m)
  BY <1>2, ProperIsStored
<1>5. ~IsSealed(record[j])
  BY DEF Seals, QueueFits, RecordsProper, Proper, Sound, ValidManifest,
         ValidState, IsDraft, Known
<1>6. j \notin Listed /\ Listed' = Listed \cup {j}
  BY <1>2, <1>3, <1>4, <1>5, ListedJobs DEF Seals, Known
<1>7. OrderTypes'
  <2>1. older' \subseteq Listed' \X Listed'
    BY <1>6 DEF Seals, QueueFits, OrderTypes
  <2>2. /\ \A i, k \in Listed : <<i, k>> \in older' <=> <<i, k>> \in older
        /\ \A i \in Listed : <<i, j>> \in older' /\ <<j, i>> \notin older'
        /\ <<j, j>> \notin older'
    BY <1>6 DEF Seals, QueueFits, OrderTypes
  <2>3. \A i, k \in Listed' :
          i # k <=> (<<i, k>> \in older' \/ <<k, i>> \in older')
    BY <1>6, <2>2 DEF QueueFits, OrderTypes
  <2>4. \A i, k, l \in Listed' :
          <<i, k>> \in older' /\ <<k, l>> \in older' => <<i, l>> \in older'
    BY <1>6, <2>2 DEF QueueFits, OrderTypes
  <2> QED BY <2>1, <2>3, <2>4 DEF OrderTypes
<1> QED
  BY <1>2, <1>3, <1>4, <1>7 DEF QueueFits

(* What is left of the order is one of the jobs that are left. *)
LEMMA FewerFits ==
  ASSUME OrderTypes, Listed' \subseteq Listed,
         older' = older \cap (Listed' \X Listed')
  PROVE  OrderTypes'
<1>1. older' \subseteq Listed' \X Listed'
  OBVIOUS
<1>2. \A i, k \in Listed' : <<i, k>> \in older' <=> <<i, k>> \in older
  OBVIOUS
<1> QED
  BY <1>1, <1>2 DEF OrderTypes

LEMMA DropFits ==
  ASSUME QueueFits, NEW j \in Jobs, Known(j), j \notin temp, Drop(j)
  PROVE  QueueFits' /\ ~IsStored(record'[j]) /\ OthersStay(j)
<1>1. /\ record'[j] = NoManifest /\ OthersStay(j)
      /\ record' \in [Jobs -> Manifest \cup {NoManifest}]
  BY SavePuts, PutPuts DEF QueueFits, Drop
<1>2. ~IsStored(record'[j])
  BY <1>1 DEF IsStored
<1>3. RecordTypes' /\ RecordsProper'
  BY <1>1, <1>2 DEF QueueFits, RecordTypes, RecordsProper, OthersStay
<1>4. Listed' \subseteq Listed
  BY <1>1, <1>2, ListedJobs
<1>5. LeftoversFit'
  BY <1>1 DEF QueueFits, LeftoversFit, Known, OthersStay, Drop, Write
<1> QED
  BY <1>1, <1>2, <1>3, <1>4, <1>5, FewerFits DEF QueueFits, Drop

(* What the next start leaves of a record. *)
LEMMA RecoveredIsProper ==
  ASSUME NEW m, Proper(m), m.state \notin {"committed", "cancelled"}
  PROVE  /\ Replaces(m, Recovered(m))
         /\ Recovered(m).state \notin {"committed", "cancelled"}
<1>1. IsStored(m)
  BY ProperIsStored
<1>2. CASE m.state = "writing"
  BY <1>1, <1>2, BlockDraftIsProper DEF Recovered, ServiceErrors
<1>3. CASE m.state # "writing"
  BY <1>1, <1>3 DEF Recovered, Replaces
<1> QED
  BY <1>2, <1>3

(* A finished job goes, unless the start could not clean it up. *)
Finished(j) == IsStored(record[j]) /\ record[j].state \in {"committed", "cancelled"}

LEMMA RestartRecords ==
  ASSUME QueueFits, Restart, NEW j \in Jobs
  PROVE  \/ record'[j] = record[j] /\ j \in quarantined' /\ IsStored(record[j])
         \/ /\ IsStored(record[j]) /\ ~Finished(j)
            /\ record'[j] = Recovered(record[j])
            /\ Replaces(record[j], record'[j])
            /\ record'[j].state \notin {"committed", "cancelled"}
         \/ /\ ~IsStored(record[j]) \/ Finished(j)
            /\ record'[j] = NoManifest /\ j \notin quarantined'
<1>1. record'[j] = IF j \in quarantined' THEN record[j] ELSE Recovered(record[j])
  BY DEF Restart
<1>2. quarantined' \subseteq {i \in Jobs : IsStored(record[i])}
  BY DEF Restart, Unsettled, QueueFits, LeftoversFit
<1>3. CASE j \in quarantined'
  BY <1>1, <1>2, <1>3
<1>4. CASE j \notin quarantined' /\ IsStored(record[j]) /\ ~Finished(j)
  BY <1>1, <1>4, RecoveredIsProper DEF QueueFits, RecordsProper, Finished
<1>5. CASE j \notin quarantined' /\ (~IsStored(record[j]) \/ Finished(j))
  BY <1>1, <1>5 DEF Recovered, Finished
<1> QED BY <1>3, <1>4, <1>5

LEMMA RestartFits ==
  ASSUME QueueFits, Restart
  PROVE  /\ QueueFits'
         /\ \A j \in Jobs :
              /\ IsStored(record'[j]) =>
                   /\ IsStored(record[j])
                   /\ record'[j].bytes = record[j].bytes
                   /\ record'[j] = record[j]
                      \/ /\ record[j].state \notin {"committed", "cancelled"}
                         /\ record'[j].state \notin {"committed", "cancelled"}
              /\ IsStored(record[j]) /\ ~Finished(j) => IsStored(record'[j])
<1>3. ~IsStored(NoManifest)
  BY DEF IsStored
<1>4. ASSUME NEW j \in Jobs, IsStored(record'[j])
      PROVE  /\ IsStored(record[j])
             /\ Proper(record'[j]) /\ record'[j] \in Manifest
             /\ record'[j].bytes = record[j].bytes
             /\ ValidManifest(record'[j])
             /\ record'[j] = record[j]
                \/ /\ record[j].state \notin {"committed", "cancelled"}
                   /\ record'[j].state \notin {"committed", "cancelled"}
  <2>1. CASE record'[j] = record[j] /\ IsStored(record[j])
    BY <2>1 DEF QueueFits, RecordsProper, Proper, Sound
  <2>2. CASE record'[j] # record[j] \/ ~IsStored(record[j])
    BY <1>3, <1>4, <2>2, RestartRecords, ProperIsStored
    DEF Replaces, Proper, Sound, Finished
  <2> QED BY <2>1, <2>2
<1>5. RecordTypes'
  <2>1. ASSUME NEW j \in Jobs PROVE record'[j] \in Manifest \cup {NoManifest}
    BY <1>4, <2>1 DEF IsStored
  <2>2. record' = [j \in Jobs |-> record'[j]]
    BY DEF Restart
  <2> QED BY <1>4, <2>1, <2>2 DEF RecordTypes
<1>6. RecordsProper'
  BY <1>4 DEF RecordsProper
<1>7. Listed' \subseteq Listed
  <2> SUFFICES ASSUME NEW j \in Listed' PROVE j \in Listed
    OBVIOUS
  <2>1. j \in Jobs /\ IsStored(record'[j]) /\ j \notin quarantined'
        /\ IsSealed(record'[j])
    BY DEF Listed, Known
  <2>2. IsStored(record[j]) /\ IsSealed(record[j])
    BY <1>4, <2>1 DEF IsSealed
  <2>3. j \notin quarantined
    <3>1. j \notin temp
      BY <2>1 DEF Restart
    <3>2. record'[j] = Recovered(record[j]) /\ ~Finished(j)
      BY <2>1, <2>2, RestartRecords DEF IsStored
    <3>3. record[j].state # "writing"
      BY <2>1, <2>2 DEF QueueFits, RecordsProper, Proper, Sound, ValidManifest,
         ValidState
    <3> QED
      BY <2>2, <3>1, <3>2, <3>3 DEF QueueFits, LeftoversFit, Finished
  <2> QED BY <2>1, <2>2, <2>3 DEF Listed, Known
<1>8. OrderTypes'
  BY <1>7, FewerFits DEF QueueFits, Restart
<1>9. ASSUME NEW j \in Jobs, IsStored(record[j]), ~Finished(j)
      PROVE  IsStored(record'[j])
  BY <1>9, RestartRecords, ProperIsStored DEF Replaces
<1>10. LeftoversFit'
  <2>1. /\ quarantined' \subseteq Jobs /\ temp' = temp /\ temp \subseteq quarantined'
        /\ \A j \in quarantined' : j \in temp \/ j \in Unsettled
    BY DEF Restart, Unsettled, QueueFits, LeftoversFit
  <2>2. \A j \in quarantined' : record'[j] = record[j] /\ IsStored(record[j])
    BY <2>1, RestartRecords DEF Restart, Unsettled, QueueFits, LeftoversFit
  <2> QED BY <2>1, <2>2 DEF LeftoversFit, Unsettled
<1> QED
  BY <1>4, <1>5, <1>6, <1>8, <1>9, <1>10 DEF QueueFits

-----------------------------------------------------------------------------
(* The server and the catalog.  An asset that carries the marker of a job     *)
(* keeps it, and stays in the catalog or in the trash: a refresh drops what    *)
(* is trashed and nothing else.                                               *)
ServerGrows ==
  /\ \A a \in Assets : remote[a] \in Jobs => remote'[a] = remote[a]
  /\ \A a \in Assets :
       remote[a] \in Jobs /\ a \in catalog \cup trashed =>
         a \in catalog' \cup trashed'
  /\ published \subseteq published'

LEMMA ServerOnlyGrows ==
  ASSUME OtherTypes, [Next]_vars
  PROVE  ServerGrows
<1> USE DEF ServerGrows
<1>0. /\ remote \in [Assets -> Jobs \cup {Absent, Unmarked}]
      /\ Absent \notin Jobs /\ Unmarked \notin Jobs /\ Absent # Unmarked
  BY ServiceAssumption DEF OtherTypes, Absent, Unmarked
<1>1. ASSUME NEW j \in Jobs, Post(j) PROVE ServerGrows
  BY <1>0, <1>1 DEF Post, history
<1>2. ASSUME NEW j \in Jobs, Publish(j) PROVE ServerGrows
  BY <1>2 DEF Publish, server
<1>3. ASSUME NEW j \in Jobs, LocalFailure(j) PROVE ServerGrows
  BY <1>3 DEF LocalFailure, BlockJob, server, history
<1>4. CASE Refresh
  BY <1>0, <1>4 DEF Refresh, server, history
<1>5. ASSUME NEW a \in Assets, ForeignUpload(a) PROVE ServerGrows
  BY <1>0, <1>5 DEF ForeignUpload, history
<1>6. ASSUME NEW a \in Assets, ForeignTrash(a) PROVE ServerGrows
  BY <1>6 DEF ForeignTrash, history
<1>7. CASE UNCHANGED <<server, catalog, published>>
  BY <1>7 DEF server
<1>8. ASSUME NEW j \in Jobs,
             \/ Create(j) \/ WriteFails(j) \/ SealFile(j) \/ SealFails(j)
             \/ Mounting(j) \/ Tick(j) \/ Show(j) \/ RetryUpload(j)
             \/ RetryUploadFails(j) \/ CancelUpload(j) \/ CancelUploadFails(j)
             \/ FinishCancel(j)
      PROVE  UNCHANGED <<server, catalog, published>>
  BY <1>8 DEF Create, WriteFails, SealFile, SealFails, Mounting, DeferJob,
     DeferRefused, DeferFails, GiveUpFile, Tick, Show, RetryUpload,
     RetryUploadFails, CancelUpload, CancelUploadFails, FinishCancel, history
<1>9. ASSUME NextDue \/ Measure \/ Wake \/ GoOnline \/ Restart
      PROVE  UNCHANGED <<server, catalog, published>>
  BY <1>9 DEF NextDue, Measure, Wake, GoOnline, Restart, history
<1>10. ASSUME NEW j \in Jobs,
              \/ OpenAttempt(j) \/ AttemptInvalid(j) \/ AttemptRefused(j)
              \/ AdmissionFails(j) \/ Accepted(j) \/ AcceptFails(j)
              \/ Unavailable(j) \/ Garbled(j) \/ Rejected(j)
              \/ BlockAfterFailure(j) \/ BlockRefused(j)
              \/ Verify(j) \/ Mismatch(j) \/ CommitJob(j) \/ CommitFails(j)
              \/ RemoveJob(j) \/ RemoveFails(j) \/ FinishUpload(j)
       PROVE  UNCHANGED <<server, catalog, published>>
  BY <1>10 DEF OpenAttempt, AttemptInvalid, AttemptRefused, AdmissionFails,
     Accepted, AcceptFails, Unavailable, Garbled, Rejected, BlockAfterFailure,
     BlockRefused, Verify, Mismatch, CommitJob, CommitFails, RemoveJob,
     RemoveFails, FinishUpload, RetryLater, BlockJob, history
<1>11. CASE UNCHANGED vars
  BY <1>7, <1>11 DEF vars, history
<1> QED
  BY <1>1, <1>2, <1>3, <1>4, <1>5, <1>6, <1>7, <1>8, <1>9, <1>10, <1>11
  DEF Next, WorkerStep, Processing

(* What is marked and served stays so while the record stays.                 *)
LEMMA ServedStays ==
  ASSUME RecordTypes, ServerGrows, NEW j \in Jobs, IsStored(record[j]),
         record'[j] = record[j]
  PROVE  (Marked(j) => Marked(j)') /\ (Served(j) => Served(j)')
<1>1. record[j] \in Manifest
  BY DEF RecordTypes, IsStored
<1>2. HasCandidate(record[j]) => record[j].candidate \in Assets
  BY <1>1 DEF Manifest, HasCandidate
<1> QED
  BY <1>2 DEF Marked, Served, ServerGrows, HasCandidate

-----------------------------------------------------------------------------
(* The worker. *)

(* The worker or the step after it may still write the record of j. *)
Held(j) == IsStored(record[j]) /\ record[j].state \in {"attempting", "committed"}

(* A step of somebody else that changes no record the worker holds. *)
LEMMA WorkerFitStays ==
  ASSUME ServiceInvariant, ServerGrows, UNCHANGED <<worker, quarantined>>,
         \A j \in Jobs : Held(j) =>
           /\ record'[j] = record[j]
           /\ j \in waiting' => j \in waiting
           /\ j \in temp' => j \in temp
  PROVE  WorkerFit'
<1> SUFFICES ASSUME NEW j \in Jobs PROVE WorkerFits(j)'
  BY DEF WorkerFit
<1>1. WorkerFits(j)
  BY DEF ServiceInvariant, WorkerFit
<1>2. \A pc : At(pc, j)' <=> At(pc, j)
  BY DEF At
<1>3. At("finish", j) => j \in published'
  BY <1>1 DEF WorkerFits, ServerGrows
<1>4. CASE ~Held(j)
  BY <1>1, <1>2, <1>3, <1>4 DEF WorkerFits, Held, Attempted, Sending, Known
<1>5. CASE Held(j)
  <2>1. record'[j] = record[j] /\ IsStored(record[j])
    BY <1>5 DEF Held
  <2>2. (Marked(j) => Marked(j)') /\ (Served(j) => Served(j)')
    BY <2>1, ServedStays DEF ServiceInvariant
  <2>3. Attempted(j) => Attempted(j)'
    BY <1>5, <2>1 DEF Attempted, Known
  <2>4. j \in published => j \in published'
    BY DEF ServerGrows
  <2>5. (Known(j) => Known(j)') /\ (j \in temp' => j \in temp)
    BY <1>5, <2>1 DEF Known
  <2> QED
    BY <1>1, <1>2, <2>1, <2>2, <2>3, <2>4, <2>5 DEF WorkerFits, Sending
<1> QED
  BY <1>4, <1>5

(* A worker that is at no job, only about to ask for one, or about to block   *)
(* the one its last call of the queue failed for, fits.                       *)
LEMMA RestingFits ==
  ASSUME worker'.pc \in {"check", "measure", "sleep", "admit", "block"}
  PROVE  WorkerFit'
  BY DEF WorkerFit, WorkerFits, Sending, At

LEMMA BusyFits ==
  ASSUME NEW pc, NEW j \in Jobs, worker' = Busy(pc, j), WorkerFits(j)'
  PROVE  WorkerFit'
  BY DEF WorkerFit, WorkerFits, Sending, At, Busy

(* Commits. *)
LEMMA CommitsFitStays ==
  ASSUME ServiceInvariant, ServerGrows,
         \A j \in Jobs : record'[j] = record[j]
                        \/ ~(IsStored(record'[j]) /\ record'[j].state = "committed")
  PROVE  CommitsFit'
<1> SUFFICES ASSUME NEW j \in Jobs, IsStored(record'[j]),
                    record'[j].state = "committed"
             PROVE  Served(j)' /\ j \in published'
  BY DEF CommitsFit, CommitFits
<1>1. record'[j] = record[j] /\ CommitFits(j)
  BY DEF ServiceInvariant, CommitsFit
<1>2. Served(j) /\ j \in published
  BY <1>1 DEF CommitFits
<1> QED
  BY <1>1, <1>2, ServedStays DEF ServiceInvariant, ServerGrows

-----------------------------------------------------------------------------
(* Files, cancels and bytes. *)
NamesFit == FilesFit /\ CancelsFit /\ BytesNotLost

LEMMA NamesStay ==
  ASSUME ServiceInvariant, ServerGrows, UNCHANGED <<record, quarantined, file, finishing, cancelled>>
  PROVE  NamesFit'
  BY DEF ServiceInvariant, NamesFit, FilesFit, FileFits, CancelsFit, CancelFits,
     BytesNotLost, ServerGrows, Known

(* A sealed or a blocked record is replaced under an unchanged file. *)
LEMMA NamesStayOnUpdate ==
  ASSUME ServiceInvariant, ServerGrows, NEW j \in Jobs, NEW m, Updates(j, m),
         record[j].state \notin {"writing", "cancelled"}, m.state # "cancelled",
         UNCHANGED <<file, finishing, cancelled>>
  PROVE  NamesFit'
<1>1. record'[j] = m /\ IsStored(m) /\ OthersStay(j)
  BY UpdatesFits DEF ServiceInvariant, QueueFits
<1>2. IsStored(record[j]) /\ (IsSealed(m) <=> IsSealed(record[j]))
  BY DEF Updates, Replaces, IsSealed, Known
<1>3. FilesFit'
  BY <1>1, <1>2 DEF ServiceInvariant, FilesFit, FileFits, OthersStay, IsDraft, Known
<1>4. CancelsFit'
  BY <1>1, <1>2 DEF ServiceInvariant, CancelsFit, CancelFits, OthersStay, OtherTypes
<1>5. BytesNotLost'
  BY <1>1, <1>2 DEF ServiceInvariant, BytesNotLost, OthersStay, ServerGrows
<1> QED
  BY <1>3, <1>4, <1>5 DEF NamesFit

-----------------------------------------------------------------------------
(* Every step keeps the types of the variables that are not records. *)
LEMMA RevisionsAreNumbers ==
  ASSUME RecordTypes, NEW j \in Jobs, IsStored(record[j])
  PROVE  record[j].revision \in Nat /\ record[j].revision + 1 \in Nat
  BY DEF RecordTypes, IsStored, Manifest

LEMMA PlacesAreTyped ==
  /\ \A pc \in Pcs, j \in Jobs : Busy(pc, j) \in Places
  /\ \A pc \in Pcs : Idle(pc) \in Places
  BY DEF Busy, Idle, Places

LEMMA CandidatesAreAssets ==
  ASSUME RecordTypes, NEW j \in Jobs, IsStored(record[j]), HasCandidate(record[j])
  PROVE  record[j].candidate \in Assets
  BY DEF RecordTypes, IsStored, Manifest, HasCandidate

LEMMA TroubleIsBounded ==
  ASSUME OtherTypes, Trouble
  PROVE  trouble' \in 0..MaxTrouble
  BY ServiceAssumption DEF OtherTypes, Trouble

LEMMA OtherTypesStay ==
  ASSUME ServiceInvariant, [Next]_vars
  PROVE  OtherTypes'
<1> USE DEF ServiceInvariant, Pcs
<1>0. ASSUME NEW j, Fault(j) PROVE trouble' \in 0..MaxTrouble
  BY <1>0, TroubleIsBounded DEF Fault, OtherTypes
<1>1. ASSUME NEW j \in Jobs, Create(j) \/ WriteFails(j) PROVE OtherTypes'
  BY <1>1, TroubleIsBounded DEF Create, WriteFails, OtherTypes, queue, mount, process, control,
     server, history
<1>2. ASSUME NEW j \in Jobs, SealFile(j) PROVE OtherTypes'
  <2>1. record[j].revision + 1 \in Nat
    BY <1>2, RevisionsAreNumbers DEF SealFile, FilesFit, FileFits, Known
  <2> QED BY <1>2, <2>1 DEF SealFile, OtherTypes, process, control, server, history
<1>24. ASSUME NEW j \in Jobs, SealFails(j) PROVE OtherTypes'
  BY <1>0, <1>24 DEF SealFails, OtherTypes, process, control, server, history
<1>3. ASSUME NEW j \in Jobs, DeferJob(j) \/ DeferRefused(j) PROVE OtherTypes'
  BY <1>3 DEF DeferJob, DeferRefused, OtherTypes, queue, mount, process, control,
     server, history
<1>25. ASSUME NEW j \in Jobs, DeferFails(j) PROVE OtherTypes'
  BY <1>0, <1>25 DEF DeferFails, OtherTypes, process, control, server, history
<1>26. ASSUME NEW j \in Jobs, GiveUpFile(j) PROVE OtherTypes'
  <2>1. trouble' \in 0..MaxTrouble
    BY <1>0, <1>26 DEF GiveUpFile, OtherTypes
  <2> QED
    BY <1>26, <2>1 DEF GiveUpFile, OtherTypes, process, control, server, history
<1>4. ASSUME NEW j \in Jobs, Tick(j) PROVE OtherTypes'
  BY <1>4 DEF Tick, OtherTypes, mount, process, control, server, history
<1>5. ASSUME NEW j \in Jobs, Show(j) PROVE OtherTypes'
  <2>1. record[j].revision \in Nat
    BY <1>5, RevisionsAreNumbers DEF Show, Known
  <2> QED BY <1>5, <2>1, TroubleIsBounded DEF Show, OtherTypes, queue, mount, process, server, history
<1>6. ASSUME NEW j \in Jobs, RetryUpload(j) PROVE OtherTypes'
  BY <1>6, TroubleIsBounded DEF RetryUpload, OtherTypes, mount, control, server, history
<1>27. ASSUME NEW j \in Jobs, RetryUploadFails(j) PROVE OtherTypes'
  BY <1>27, TroubleIsBounded DEF RetryUploadFails, OtherTypes, mount, process,
     control, server, history
<1>7. ASSUME NEW j \in Jobs, CancelUpload(j) PROVE OtherTypes'
  BY <1>7 DEF CancelUpload, Drop, OtherTypes, mount, process, server
<1>28. ASSUME NEW j \in Jobs, CancelUploadFails(j) PROVE OtherTypes'
  <2>1. /\ cancelled' \subseteq Jobs /\ cutShort' \subseteq cancelled'
        /\ waiting' \subseteq Jobs
    BY <1>28 DEF CancelUploadFails, Drop, OtherTypes
  <2> QED
    BY <1>28, <2>1, TroubleIsBounded DEF CancelUploadFails, OtherTypes, mount,
       process, control, server
<1>8. ASSUME NEW j \in Jobs, FinishCancel(j) PROVE OtherTypes'
  BY <1>8 DEF FinishCancel, UploadFinished, OtherTypes, queue, process, server, history
<1>9. CASE GoOnline
  BY <1>9 DEF GoOnline, OtherTypes, queue, mount, control, server, history
<1>10. CASE Refresh
  BY <1>10 DEF Refresh, OtherTypes, queue, mount, process, control, server, history
<1>11. CASE Restart
  BY <1>11, PlacesAreTyped, TroubleIsBounded DEF Restart, OtherTypes, server, history
<1>12. ASSUME NEW a \in Assets, ForeignUpload(a) \/ ForeignTrash(a) PROVE OtherTypes'
  BY <1>12, TroubleIsBounded DEF ForeignUpload, ForeignTrash, OtherTypes, queue, mount, process,
     control, history
<1>13. CASE NextDue
  <2>1. ASSUME NEW j \in FirstDue
        PROVE  [pc |-> "admit", job |-> j, rev |-> record[j].revision] \in Places
    BY RevisionsAreNumbers DEF FirstDue, Listed, Known, Places, Pcs
  <2>2. worker' \in Places
    BY <1>13, <2>1, PlacesAreTyped DEF NextDue
  <2> QED
    BY <1>13, <2>2 DEF NextDue, OtherTypes, queue, mount, control, server, history
<1>14. CASE Measure \/ Wake
  BY <1>14, PlacesAreTyped DEF Measure, Wake, OtherTypes, queue, mount, control,
     server, history
<1>15. ASSUME NEW j \in Jobs, OpenAttempt(j) \/ AttemptInvalid(j) \/ AttemptRefused(j)
       PROVE OtherTypes'
  BY <1>15, PlacesAreTyped, TroubleIsBounded DEF OpenAttempt, AttemptInvalid, AttemptRefused,
     OtherTypes, queue, mount, control, server, history
<1>29. ASSUME NEW j \in Jobs, AdmissionFails(j)
       PROVE OtherTypes'
  <2>1. waiting' \subseteq Jobs /\ worker' \in Places /\ trouble' \in 0..MaxTrouble
    BY <1>0, <1>29, PlacesAreTyped DEF AdmissionFails, OtherTypes
  <2> QED
    BY <1>29, <2>1 DEF AdmissionFails, OtherTypes, mount, control, server, history
<1>30. ASSUME NEW j \in Jobs, AcceptFails(j) \/ CommitFails(j)
       PROVE OtherTypes'
  BY <1>0, <1>30, PlacesAreTyped DEF AcceptFails, CommitFails, OtherTypes, mount,
     control, server, history
<1>31. ASSUME NEW j \in Jobs, NEW e, RetryLater(j, e) \/ BlockJob(j, e)
       PROVE  /\ waiting' \subseteq Jobs /\ worker' \in Places
              /\ UNCHANGED <<mount, armed, channel, online, control, server, history>>
  BY <1>31, PlacesAreTyped DEF RetryLater, BlockJob, OtherTypes
<1>32. ASSUME NEW j \in Jobs, BlockAfterFailure(j) \/ BlockRefused(j) \/ Mismatch(j)
       PROVE OtherTypes'
  <2>1. CASE BlockAfterFailure(j) \/ Mismatch(j)
    <3>1. trouble' \in 0..MaxTrouble
      BY <1>0, <2>1 DEF BlockAfterFailure, Mismatch, OtherTypes
    <3> QED
      BY <1>31, <2>1, <3>1 DEF BlockAfterFailure, Mismatch, OtherTypes, mount,
         control, server, history
  <2>2. CASE BlockRefused(j)
    BY <2>2, PlacesAreTyped DEF BlockRefused, OtherTypes, queue, mount, control,
       server, history
  <2> QED BY <1>32, <2>1, <2>2
<1>16. ASSUME NEW j \in Jobs, Post(j) PROVE OtherTypes'
  BY <1>16, PlacesAreTyped DEF Post, OtherTypes, queue, mount, control, history
<1>17. ASSUME NEW j \in Jobs, Accepted(j) \/ Verify(j) \/ CommitJob(j) PROVE OtherTypes'
  BY <1>17, PlacesAreTyped DEF Accepted, Verify, CommitJob, OtherTypes, queue,
     mount, control, server, history
<1>18. ASSUME NEW j \in Jobs,
              Unavailable(j) \/ Garbled(j) \/ Rejected(j)
       PROVE OtherTypes'
  BY <1>18, <1>31, TroubleIsBounded DEF Unavailable, Garbled, Rejected,
     OtherTypes, mount, control, server, history
<1>19. ASSUME NEW j \in Jobs, At("publish", j) PROVE record[j].candidate \in Assets
  BY <1>19, CandidatesAreAssets DEF WorkerFit, WorkerFits, Attempted, Marked, Known
<1>20. ASSUME NEW j \in Jobs, LocalFailure(j) PROVE OtherTypes'
  <2>1. catalog' \subseteq Assets
    BY <1>19, <1>20 DEF LocalFailure, OtherTypes, Talking, At
  <2> QED
    BY <1>20, <1>31, <2>1, TroubleIsBounded DEF LocalFailure, OtherTypes,
       mount, control, server, history
<1>21. ASSUME NEW j \in Jobs, Publish(j) PROVE OtherTypes'
  BY <1>19, <1>21, PlacesAreTyped DEF Publish, OtherTypes, queue, mount, control,
     server
<1>22. ASSUME NEW j \in Jobs, RemoveJob(j) \/ RemoveFails(j) \/ FinishUpload(j)
       PROVE OtherTypes'
  BY <1>22, PlacesAreTyped, TroubleIsBounded DEF RemoveJob, RemoveFails,
     FinishUpload, Drop, UploadFinished, OtherTypes, queue, mount, control, server,
     history
<1>23. CASE UNCHANGED vars
  BY <1>23 DEF vars, OtherTypes, queue, mount, process, control, server, history
<1> QED
  BY <1>1, <1>2, <1>3, <1>4, <1>5, <1>6, <1>7, <1>8, <1>9, <1>10, <1>11, <1>12,
     <1>13, <1>14, <1>15, <1>16, <1>17, <1>18, <1>20, <1>21, <1>22, <1>23, <1>24,
     <1>25, <1>26, <1>27, <1>28, <1>29, <1>30, <1>32
  DEF Next, WorkerStep, Processing, Mounting

-----------------------------------------------------------------------------
(* Every step keeps the rest of the invariant.  First the steps that write no *)
(* record.                                                                    *)
Fits == QueueFits /\ WorkerFit /\ CommitsFit /\ NamesFit

Resting == worker.pc \in {"check", "measure", "sleep", "admit", "block"}

LEMMA SameQueueFits ==
  ASSUME ServiceInvariant, ServerGrows, UNCHANGED <<disk, older>>
  PROVE  QueueFits' /\ CommitsFit'
<1> USE DEF disk
<1>1. RecordTypes' /\ OrderTypes' /\ RecordsProper'
  BY DEF ServiceInvariant, RecordTypes, OrderTypes, RecordsProper, Listed, Known
<1>2. LeftoversFit'
  BY DEF ServiceInvariant, LeftoversFit
<1>3. CommitsFit'
  BY CommitsFitStays
<1> QED
  BY <1>1, <1>2, <1>3 DEF QueueFits

(* A write that fails before the record is replaced. *)
LEMMA UnwrittenFits ==
  ASSUME ServiceInvariant, ServerGrows, NEW j \in Jobs, Known(j), Unwritten(j),
         UNCHANGED older
  PROVE  QueueFits' /\ CommitsFit' /\ OthersStay(j)
<1>1. RecordTypes' /\ OrderTypes' /\ RecordsProper'
  BY DEF ServiceInvariant, RecordTypes, OrderTypes, RecordsProper, Listed, Known,
     Unwritten
<1>2. LeftoversFit'
  BY DEF ServiceInvariant, LeftoversFit, Unwritten, Known
<1>3. CommitsFit'
  BY CommitsFitStays DEF Unwritten
<1>4. OthersStay(j)
  BY DEF OthersStay, Unwritten
<1> QED
  BY <1>1, <1>2, <1>3, <1>4 DEF QueueFits

(* Such a write of a worker that gives the job up, or of the mount or the     *)
(* control socket for a job the worker does not hold.                         *)
LEMMA UnwrittenStepFits ==
  ASSUME ServiceInvariant, ServerGrows, NEW j \in Jobs, Known(j), Unwritten(j),
         UNCHANGED <<older, file, finishing, cancelled>>,
         Resting' \/ (UNCHANGED <<worker, waiting>> /\ ~Held(j))
  PROVE  Fits'
<1>1. QueueFits' /\ CommitsFit' /\ OthersStay(j)
  BY UnwrittenFits
<1>2. ASSUME Resting' PROVE WorkerFit'
  BY <1>2, RestingFits DEF Resting
<1>3. ASSUME UNCHANGED <<worker, waiting>>, ~Held(j) PROVE WorkerFit'
  <2>1. \A i \in Jobs : Held(i) => record'[i] = record[i] /\ (i \in temp' => i \in temp)
    BY <1>1, <1>3 DEF OthersStay
  <2> QED BY <1>3, <2>1, WorkerFitStays DEF Unwritten
<1>4. NamesFit'
  BY NamesStay DEF Unwritten
<1> QED
  BY <1>1, <1>2, <1>3, <1>4 DEF Fits

LEMMA QuietFits ==
  ASSUME ServiceInvariant, ServerGrows, waiting' \subseteq waiting,
         UNCHANGED worker \/ Resting',
         UNCHANGED <<disk, older, file, finishing, cancelled>>
  PROVE  Fits'
<1>1. WorkerFit'
  BY WorkerFitStays, RestingFits DEF Resting, disk
<1> QED
  BY <1>1, SameQueueFits, NamesStay DEF Fits, disk

LEMMA FileStepFits ==
  ASSUME ServiceInvariant, ServerGrows, NEW j \in Jobs,
         WriteFails(j) \/ DeferRefused(j) \/ FinishCancel(j)
  PROVE  Fits'
<1>1. /\ UNCHANGED <<disk, older, waiting, worker, published, cancelled>>
      /\ file' = file \/ \E f \in {"failing", "gone"} :
                            file' = [file EXCEPT ![j] = f]
      /\ file[j] # "none"
      /\ finishing' \subseteq finishing
  <2>1. CASE WriteFails(j)
    BY <2>1 DEF WriteFails, queue, process, control, history
  <2>2. CASE DeferRefused(j)
    BY <2>2 DEF DeferRefused, queue, process, control, history
  <2>3. CASE FinishCancel(j)
    <3>1. file[j] # "none"
      BY <2>3 DEF FinishCancel, ServiceInvariant, CancelsFit, CancelFits
    <3> QED
      BY <2>3, <3>1 DEF FinishCancel, UploadFinished, queue, process, history
  <2> QED BY <2>1, <2>2, <2>3
<1>2. QueueFits' /\ CommitsFit'
  BY <1>1, SameQueueFits
<1>3. WorkerFit'
  BY <1>1, WorkerFitStays DEF disk
<1>4. \A i \in Jobs :
        \/ file'[i] = file[i]
        \/ (i = j /\ file'[i] \in {"failing", "gone"})
  <2>1. CASE file' = file
    BY <2>1
  <2>2. ASSUME NEW f \in {"failing", "gone"}, file' = [file EXCEPT ![j] = f]
        PROVE  \A i \in Jobs : IF i = j THEN file'[i] = f ELSE file'[i] = file[i]
    BY <2>2 DEF ServiceInvariant, OtherTypes
  <2> QED BY <1>1, <2>1, <2>2
<1>5. NamesFit'
  BY <1>1, <1>4 DEF ServiceInvariant, NamesFit, FilesFit, FileFits, CancelsFit,
     CancelFits, BytesNotLost, OtherTypes, disk, Known
<1> QED
  BY <1>2, <1>3, <1>5 DEF Fits

-----------------------------------------------------------------------------
(* Steps of the mount and of the control socket that write a record. *)

LEMMA OutsideFits ==
  ASSUME ServiceInvariant, ServerGrows, NEW j \in Jobs, ~Held(j),
         QueueFits', OthersStay(j), UNCHANGED worker,
         waiting' \subseteq waiting \cup {j},
         IsStored(record'[j]) => record'[j].state # "committed"
  PROVE  WorkerFit' /\ CommitsFit'
<1>1. \A i \in Jobs : Held(i) =>
        /\ record'[i] = record[i]
        /\ i \in waiting' => i \in waiting
        /\ i \in temp' => i \in temp
  BY DEF OthersStay
<1>2. \A i \in Jobs : record'[i] = record[i]
        \/ ~(IsStored(record'[i]) /\ record'[i].state = "committed")
  BY DEF OthersStay
<1> QED
  BY <1>1, <1>2, WorkerFitStays, CommitsFitStays DEF OthersStay

(* A write outside the worker that fails before the record is replaced. *)
LEMMA UnwrittenOutside ==
  ASSUME ServiceInvariant, ServerGrows, NEW j \in Jobs, Known(j), Unwritten(j),
         ~Held(j), UNCHANGED <<older, worker, waiting>>
  PROVE  /\ QueueFits' /\ WorkerFit' /\ CommitsFit' /\ OthersStay(j)
         /\ record'[j] = record[j]
<1>1. QueueFits' /\ CommitsFit' /\ OthersStay(j)
  BY UnwrittenFits
<1>2. \A i \in Jobs : Held(i) => record'[i] = record[i] /\ (i \in temp' => i \in temp)
  BY <1>1 DEF OthersStay
<1>3. WorkerFit'
  BY <1>2, WorkerFitStays DEF Unwritten
<1> QED
  BY <1>1, <1>3 DEF Unwritten

(* The names fit if they do for the one job whose record, file or cancel      *)
(* changes.                                                                   *)
LEMMA NamesFitAt ==
  ASSUME ServiceInvariant, ServerGrows, NEW j \in Jobs, OthersStay(j),
         \A i \in Jobs \ {j} :
           file'[i] = file[i] /\ (i \in cancelled' <=> i \in cancelled),
         finishing' \subseteq cancelled',
         FileFits(j)', CancelFits(j)',
         file'[j] # "none" /\ ~IsStored(record'[j]) =>
           j \in published' \cup cancelled'
  PROVE  NamesFit'
<1>1. FilesFit'
  BY DEF ServiceInvariant, FilesFit, FileFits, OthersStay, Known
<1>2. CancelsFit'
  BY DEF ServiceInvariant, CancelsFit, CancelFits, OthersStay
<1>3. BytesNotLost'
  BY DEF ServiceInvariant, BytesNotLost, OthersStay, ServerGrows
<1> QED
  BY <1>1, <1>2, <1>3 DEF NamesFit

(* The same when only the file of that job becomes f. *)
LEMMA NamesFitWithFile ==
  ASSUME ServiceInvariant, ServerGrows, NEW j \in Jobs, OthersStay(j),
         NEW f, file' = [file EXCEPT ![j] = f], UNCHANGED <<finishing, cancelled>>,
         IsStored(record'[j]) \/ (f # "none" /\ file[j] # "none" /\ ~IsStored(record[j])),
         f = "open" => Known(j)' /\ IsDraft(record'[j]),
         f = "pending" => IsStored(record'[j]) /\ IsSealed(record'[j]),
         f # "none",
         j \in cancelled => f # "open",
         IsStored(record'[j]) => (j \in cancelled <=> record'[j].state = "cancelled")
  PROVE  NamesFit'
<1>1. \A i \in Jobs : IF i = j THEN file'[i] = f ELSE file'[i] = file[i]
  BY DEF ServiceInvariant, OtherTypes
<1>2. FileFits(j)'
  BY <1>1 DEF FileFits
<1>3. CancelFits(j)'
  BY <1>1 DEF CancelFits
<1>4. finishing' \subseteq cancelled'
  BY DEF ServiceInvariant, CancelsFit
<1>5. file'[j] # "none" /\ ~IsStored(record'[j]) => j \in published' \cup cancelled'
  BY DEF ServiceInvariant, BytesNotLost, ServerGrows
<1> QED
  BY <1>1, <1>2, <1>3, <1>4, <1>5, NamesFitAt

LEMMA CreateFits ==
  ASSUME ServiceInvariant, ServerGrows, NEW j \in Jobs, Create(j)
  PROVE  Fits'
<1>1. ~IsStored(record[j]) /\ file[j] = "none" /\ j \notin cancelled
  BY DEF Create, ServiceInvariant, FilesFit, FileFits, CancelsFit, CancelFits
<1>2. Begins(j)
  BY <1>1, SavePuts DEF Create, Begins
<1>3. QueueFits' /\ record'[j] = NewManifest /\ OthersStay(j)
  BY <1>2, BeginsFits DEF ServiceInvariant, QueueFits
<1>4. /\ NewManifest.state = "writing" /\ NewManifest.revision = 1
      /\ IsStored(NewManifest)
  BY NewIsManifest, ManifestIsStored DEF NewManifest
<1>5. WorkerFit' /\ CommitsFit'
  BY <1>1, <1>3, <1>4, OutsideFits DEF Held, Create, process
<1>6. j \notin quarantined
  BY <1>1 DEF ServiceInvariant, LeftoversFit
<1>7. Known(j)' /\ IsDraft(record'[j])
  BY <1>3, <1>4, <1>6 DEF Known, IsDraft, OthersStay
<1>8. NamesFit'
  BY <1>1, <1>3, <1>4, <1>7, NamesFitWithFile DEF Create, control, history
<1> QED
  BY <1>3, <1>5, <1>8 DEF Fits

LEMMA SealFileFits ==
  ASSUME ServiceInvariant, ServerGrows, NEW j \in Jobs, SealFile(j) \/ SealFails(j)
  PROVE  Fits'
<1>1. /\ Known(j) /\ IsDraft(record[j]) /\ j \notin cancelled
      /\ record[j].state = "writing" /\ ~Held(j)
  BY DEF SealFile, SealFails, ServiceInvariant, FilesFit, FileFits, CancelsFit,
     CancelFits, Held, IsDraft
<1>2. /\ UNCHANGED <<worker, waiting, finishing, cancelled>>
      /\ \E f \in {"deferring", "failing"} : file' = [file EXCEPT ![j] = f]
  BY DEF SealFile, SealFails, process, control, history
<1>3. Seals(j) \/ (Unwritten(j) /\ UNCHANGED older)
  BY <1>1, SavePuts DEF SealFile, SealFails, Seals
<1>4. ASSUME OthersStay(j), IsStored(record'[j]), record'[j].state # "cancelled"
      PROVE  NamesFit'
  BY <1>1, <1>2, <1>4, NamesFitWithFile
<1>5. CASE Seals(j)
  <2>1. /\ QueueFits' /\ OthersStay(j) /\ IsStored(record'[j])
        /\ record'[j].state = "pending"
    BY <1>5, SealsFits DEF ServiceInvariant, QueueFits
  <2>2. WorkerFit' /\ CommitsFit'
    BY <1>1, <1>2, <2>1, OutsideFits
  <2> QED BY <1>4, <2>1, <2>2 DEF Fits
<1>6. CASE Unwritten(j) /\ UNCHANGED older
  <2>1. /\ QueueFits' /\ WorkerFit' /\ CommitsFit' /\ OthersStay(j)
        /\ record'[j] = record[j]
    BY <1>1, <1>2, <1>6, UnwrittenOutside
  <2>2. NamesFit'
    BY <1>1, <1>4, <2>1 DEF Known
  <2> QED BY <2>1, <2>2 DEF Fits
<1> QED
  BY <1>3, <1>5, <1>6

(* A retry that somebody asks for. *)
LEMMA RetryAtUpdates ==
  ASSUME ServiceInvariant, NEW j \in Jobs, NEW r, Known(j),
         CanRetryAt(record[j], r)
  PROVE  /\ ~Held(j) /\ IsSealed(record[j])
         /\ record[j].state \notin {"writing", "committed", "cancelled"}
         /\ Save(j, Retry(record[j], NoError)) /\ UNCHANGED older =>
              \E m : Updates(j, m) /\ m.state \notin {"committed", "cancelled"}
<1>1. /\ Proper(record[j]) /\ CanRetry(record[j]) /\ IsSealed(record[j])
      /\ record[j].state \in {"pending", "blocked"}
  BY DEF ServiceInvariant, RecordsProper, CanRetryAt, CanRetry, Known
<1>2. /\ Replaces(record[j], Retry(record[j], NoError))
      /\ Retry(record[j], NoError).state \notin {"committed", "cancelled"}
  BY <1>1, RetryIsProper
<1> QED
  BY <1>1, <1>2, SavePuts DEF Updates, Held

LEMMA RetryUploadFits ==
  ASSUME ServiceInvariant, ServerGrows, NEW j \in Jobs,
         RetryUpload(j) \/ RetryUploadFails(j)
  PROVE  Fits'
<1>1. /\ Known(j) /\ ~Held(j)
      /\ record[j].state \notin {"writing", "committed", "cancelled"}
      /\ UNCHANGED <<older, worker, file, finishing, cancelled>>
      /\ \/ /\ waiting' \subseteq waiting
            /\ \E m : Updates(j, m) /\ m.state \notin {"committed", "cancelled"}
         \/ Unwritten(j) /\ UNCHANGED waiting
  BY RetryAtUpdates DEF RetryUpload, RetryUploadFails, mount, process, control, history
<1>2. ASSUME waiting' \subseteq waiting, NEW m, Updates(j, m),
             m.state \notin {"committed", "cancelled"}
      PROVE  Fits'
  <2>1. QueueFits' /\ record'[j] = m /\ OthersStay(j)
    BY <1>2, UpdatesFits DEF ServiceInvariant, QueueFits
  <2>2. WorkerFit' /\ CommitsFit'
    BY <1>1, <1>2, <2>1, OutsideFits
  <2>3. NamesFit'
    BY <1>1, <1>2, NamesStayOnUpdate
  <2> QED BY <2>1, <2>2, <2>3 DEF Fits
<1>3. ASSUME Unwritten(j), UNCHANGED waiting
      PROVE  Fits'
  BY <1>1, <1>3, UnwrittenStepFits
<1> QED
  BY <1>1, <1>2, <1>3

LEMMA DeferJobFits ==
  ASSUME ServiceInvariant, ServerGrows, NEW j \in Jobs, DeferJob(j) \/ DeferFails(j)
  PROVE  Fits'
<1>1. /\ Known(j) /\ ~Held(j) /\ IsSealed(record[j])
      /\ record[j].state \notin {"writing", "committed", "cancelled"}
      /\ j \notin cancelled
  BY RetryAtUpdates DEF DeferJob, DeferFails, Deferrable, ServiceInvariant,
     CancelsFit, CancelFits, Known
<1>2. /\ UNCHANGED <<older, worker, finishing, cancelled>>
      /\ \E f \in {"pending", "failing"} : file' = [file EXCEPT ![j] = f]
      /\ waiting' \subseteq waiting \cup {j}
      /\ \/ \E m : Updates(j, m) /\ m.state \notin {"committed", "cancelled"}
         \/ Unwritten(j) /\ UNCHANGED waiting
  BY RetryAtUpdates DEF DeferJob, DeferFails, Deferrable, mount, process, control,
     history
<1>3. ASSUME OthersStay(j), IsStored(record'[j]), IsSealed(record'[j]),
             record'[j].state # "cancelled"
      PROVE  NamesFit'
  BY <1>1, <1>2, <1>3, NamesFitWithFile
<1>4. ASSUME NEW m, Updates(j, m), m.state \notin {"committed", "cancelled"}
      PROVE  Fits'
  <2>1. QueueFits' /\ record'[j] = m /\ OthersStay(j) /\ IsStored(m)
    BY <1>4, UpdatesFits DEF ServiceInvariant, QueueFits
  <2>2. WorkerFit' /\ CommitsFit'
    BY <1>1, <1>2, <1>4, <2>1, OutsideFits
  <2>3. IsSealed(m)
    BY <1>1, <1>4 DEF Updates, Replaces, IsSealed
  <2> QED BY <1>3, <1>4, <2>1, <2>2, <2>3 DEF Fits
<1>5. ASSUME Unwritten(j), UNCHANGED waiting
      PROVE  Fits'
  <2>1. /\ QueueFits' /\ WorkerFit' /\ CommitsFit' /\ OthersStay(j)
        /\ record'[j] = record[j]
    BY <1>1, <1>2, <1>5, UnwrittenOutside
  <2>2. NamesFit'
    BY <1>1, <1>3, <2>1 DEF Known
  <2> QED BY <2>1, <2>2 DEF Fits
<1> QED
  BY <1>2, <1>4, <1>5

LEMMA GiveUpFileFits ==
  ASSUME ServiceInvariant, ServerGrows, NEW j \in Jobs, GiveUpFile(j)
  PROVE  Fits'
<1> DEFINE m == BlockDraft(record[j], "local-write-failed")
           draft == Known(j) /\ IsDraft(record[j])
<1>1. /\ file' = [file EXCEPT ![j] = "gone"] /\ file[j] # "none"
      /\ UNCHANGED <<older, waiting, worker, finishing, cancelled>>
  BY DEF GiveUpFile, process, control, history
<1>2. ASSUME OthersStay(j), record'[j] = record[j]
      PROVE  NamesFit'
  <2>1. IsStored(record'[j]) => (j \in cancelled <=> record'[j].state = "cancelled")
    BY <1>2 DEF ServiceInvariant, CancelsFit, CancelFits
  <2> QED BY <1>1, <1>2, <2>1, NamesFitWithFile
<1>3. CASE ~draft
  <2>1. UNCHANGED disk
    BY <1>3 DEF GiveUpFile
  <2>2. QueueFits' /\ CommitsFit' /\ WorkerFit'
    BY <1>1, <2>1, SameQueueFits, WorkerFitStays DEF disk
  <2>3. OthersStay(j) /\ record'[j] = record[j]
    BY <2>1 DEF disk, OthersStay
  <2> QED BY <1>2, <2>2, <2>3 DEF Fits
<1>4. CASE draft
  <2>1. ~Held(j) /\ record[j].state = "writing" /\ IsStored(record[j])
    BY <1>4 DEF Held, IsDraft, Known
  <2>2. CASE Unwritten(j)
    <3>1. /\ QueueFits' /\ WorkerFit' /\ CommitsFit' /\ OthersStay(j)
          /\ record'[j] = record[j]
      BY <1>1, <1>4, <2>1, <2>2, UnwrittenOutside
    <3> QED BY <1>2, <3>1 DEF Fits
  <2>3. CASE Save(j, m)
    <3>1. Replaces(record[j], m) /\ m.state = "blocked"
      BY <2>1, BlockDraftIsProper DEF ServiceInvariant, RecordsProper, ServiceErrors
    <3>2. Updates(j, m)
      BY <1>1, <1>4, <2>3, <3>1, SavePuts DEF Updates
    <3> HIDE DEF m
    <3>3. QueueFits' /\ record'[j] = m /\ OthersStay(j) /\ IsStored(m)
      BY <3>2, UpdatesFits DEF ServiceInvariant, QueueFits
    <3>4. WorkerFit' /\ CommitsFit'
      BY <1>1, <2>1, <3>1, <3>3, OutsideFits
    <3>5. j \notin cancelled
      BY <2>1 DEF ServiceInvariant, CancelsFit, CancelFits
    <3>6. NamesFit'
      BY <1>1, <3>1, <3>3, <3>5, NamesFitWithFile
    <3> QED BY <3>3, <3>4, <3>6 DEF Fits
  <2> QED BY <1>4, <2>2, <2>3 DEF GiveUpFile
<1> QED
  BY <1>3, <1>4

LEMMA CancelUploadFits ==
  ASSUME ServiceInvariant, ServerGrows, NEW j \in Jobs,
         CancelUpload(j) \/ CancelUploadFails(j)
  PROVE  Fits'
<1> DEFINE m == Cancel(record[j])
<1>1. /\ Known(j) /\ IsStored(record[j]) /\ j \notin temp
      /\ record[j].state \in {"pending", "blocked"} /\ Proper(record[j])
      /\ ~Held(j) /\ file[j] \notin {"none", "open"}
      /\ UNCHANGED <<worker, file>>
  BY DEF CancelUpload, CancelUploadFails, CanCancel, mount, process, Known, Held,
     ServiceInvariant, RecordsProper, FilesFit, FileFits, IsDraft
<1>2. \/ /\ Unwritten(j)
         /\ UNCHANGED <<older, waiting, finishing, cancelled>>
      \/ /\ Save(j, m) /\ UNCHANGED <<older, finishing>>
         /\ waiting' \subseteq waiting /\ cancelled' = cancelled \cup {j}
      \/ /\ Drop(j) /\ finishing' \subseteq finishing \cup {j}
         /\ cancelled' = cancelled \cup {j}
  BY DEF CancelUpload, CancelUploadFails, control, history
<1>3. CASE Unwritten(j) /\ UNCHANGED <<older, waiting, finishing, cancelled>>
  BY <1>1, <1>3, UnwrittenStepFits
<1>4. ASSUME cancelled' = cancelled \cup {j}, finishing' \subseteq finishing \cup {j},
             OthersStay(j),
             IsStored(record'[j]) =>
               /\ record'[j].state = "cancelled"
               /\ IsSealed(record'[j]) <=> IsSealed(record[j])
      PROVE  NamesFit'
  <2>1. FileFits(j)' /\ CancelFits(j)' /\ j \in cancelled'
    BY <1>1, <1>4 DEF FileFits, CancelFits, ServiceInvariant, FilesFit
  <2>2. finishing' \subseteq cancelled'
    BY <1>4 DEF ServiceInvariant, CancelsFit
  <2> QED BY <1>1, <1>4, <2>1, <2>2, NamesFitAt
<1>5. CASE /\ Drop(j) /\ finishing' \subseteq finishing \cup {j}
           /\ cancelled' = cancelled \cup {j}
  <2>1. QueueFits' /\ ~IsStored(record'[j]) /\ OthersStay(j)
    BY <1>1, <1>5, DropFits DEF ServiceInvariant, QueueFits
  <2>2. WorkerFit' /\ CommitsFit'
    BY <1>1, <1>5, <2>1, OutsideFits DEF Drop
  <2> QED BY <1>4, <1>5, <2>1, <2>2 DEF Fits
<1>6. CASE /\ Save(j, m) /\ UNCHANGED <<older, finishing>>
           /\ waiting' \subseteq waiting /\ cancelled' = cancelled \cup {j}
  <2>1. Replaces(record[j], m) /\ m.state = "cancelled"
    <3>1. PICK r : CanCancel(record[j], r)
      BY DEF CancelUpload, CancelUploadFails
    <3> QED BY <1>1, <3>1, CancelIsProper
  <2>2. Updates(j, m)
    BY <1>1, <1>6, <2>1, SavePuts DEF Updates
  <2>3. IsSealed(m) <=> IsSealed(record[j])
    BY <2>1 DEF Replaces, IsSealed
  <2> HIDE DEF m
  <2>4. QueueFits' /\ record'[j] = m /\ OthersStay(j)
    BY <2>2, UpdatesFits DEF ServiceInvariant, QueueFits
  <2>5. WorkerFit' /\ CommitsFit'
    BY <1>1, <1>6, <2>1, <2>4, OutsideFits
  <2> QED BY <1>4, <1>6, <2>1, <2>3, <2>4, <2>5 DEF Fits
<1> QED
  BY <1>2, <1>3, <1>5, <1>6

-----------------------------------------------------------------------------
(* Steps of the worker. *)

(* What holds of a job the worker is sending or has sent. *)
LEMMA TalkingHolds ==
  ASSUME ServiceInvariant, NEW j \in Jobs, Talking(j) \/ At("publish", j) \/ At("commit", j)
  PROVE  /\ Proper(record[j]) /\ IsStored(record[j]) /\ Known(j) /\ j \notin temp
         /\ j \notin waiting
         /\ record[j].state = "attempting" /\ record[j].attempts >= 1
         /\ IsSealed(record[j]) /\ record[j].bytes \in Assets
         /\ CanRetry(record[j]) /\ CanBlock(record[j])
<1>1. Attempted(j)
  BY DEF ServiceInvariant, WorkerFit, WorkerFits, Talking, Sending
<1>2. Proper(record[j])
  BY <1>1 DEF Attempted, ServiceInvariant, RecordsProper, Known
<1>3. IsSealed(record[j])
  BY <1>1, <1>2 DEF Attempted, Proper, Sound, ValidManifest, ValidState
<1> QED
  BY <1>1, <1>2, <1>3 DEF Attempted, Proper, CanRetry, CanBlock, Known

(* The worker ends its attempt with a write and turns to the next job. *)
LEMMA LeaveFits ==
  ASSUME ServiceInvariant, ServerGrows, NEW j \in Jobs, NEW m, Updates(j, m),
         m.state \notin {"committed", "cancelled"},
         record[j].state \notin {"writing", "cancelled"}, Resting',
         UNCHANGED <<file, finishing, cancelled>>
  PROVE  Fits'
<1>1. QueueFits' /\ record'[j] = m /\ OthersStay(j)
  BY UpdatesFits DEF ServiceInvariant, QueueFits
<1>2. CommitsFit'
  BY <1>1, CommitsFitStays DEF OthersStay
<1>3. WorkerFit'
  BY RestingFits DEF Resting
<1>4. NamesFit'
  BY NamesStayOnUpdate
<1> QED
  BY <1>1, <1>2, <1>3, <1>4 DEF Fits

LEMMA RetryLaterFits ==
  ASSUME ServiceInvariant, ServerGrows, NEW j \in Jobs, Talking(j),
         NEW e \in ServiceErrors, RetryLater(j, e)
  PROVE  Fits'
<1> DEFINE m == Retry(record[j], e)
<1>1. /\ Proper(record[j]) /\ Known(j) /\ record[j].state = "attempting"
      /\ CanRetry(record[j])
  BY TalkingHolds
<1>2. Replaces(record[j], m) /\ m.state \notin {"committed", "cancelled"}
  BY <1>1, RetryIsProper
<1>3. Resting' /\ UNCHANGED <<older, file, finishing, cancelled>>
  BY DEF RetryLater, Resting, Idle, mount, control, history
<1>4. CASE Unwritten(j)
  BY <1>1, <1>3, <1>4, UnwrittenStepFits
<1>5. CASE Save(j, m)
  <2>1. Updates(j, m)
    BY <1>1, <1>2, <1>3, <1>5, SavePuts DEF Updates
  <2> QED BY <1>1, <1>2, <1>3, <2>1, LeaveFits
<1> QED
  BY <1>4, <1>5 DEF RetryLater

(* A record that can be blocked is, or its write fails. *)
LEMMA BlockJobFits ==
  ASSUME ServiceInvariant, ServerGrows, NEW j \in Jobs, Known(j), CanBlock(record[j]),
         NEW e \in ServiceErrors, BlockJob(j, e)
  PROVE  Fits'
<1> DEFINE m == Block(record[j], e)
<1>1. Proper(record[j]) /\ record[j].state \notin {"writing", "cancelled"}
  BY DEF CanBlock, ServiceInvariant, RecordsProper, Known
<1>2. Replaces(record[j], m) /\ m.state = "blocked"
  BY <1>1, BlockIsProper
<1>3. Resting' /\ UNCHANGED <<older, file, finishing, cancelled>>
  BY DEF BlockJob, Resting, Idle, mount, control, history
<1>4. CASE Unwritten(j)
  BY <1>3, <1>4, UnwrittenStepFits
<1>5. CASE Save(j, m)
  <2>1. Updates(j, m)
    BY <1>1, <1>2, <1>3, <1>5, SavePuts DEF Updates
  <2> QED BY <1>1, <1>2, <1>3, <2>1, LeaveFits
<1> QED
  BY <1>4, <1>5 DEF BlockJob

(* Every way an attempt fails. *)
LEMMA FailureFits ==
  ASSUME ServiceInvariant, ServerGrows, NEW j \in Jobs,
         \/ Unavailable(j) \/ Garbled(j) \/ Rejected(j) \/ LocalFailure(j)
         \/ Mismatch(j) \/ BlockAfterFailure(j)
  PROVE  Fits'
<1>0. ASSUME Talking(j) \/ At("publish", j)
      PROVE  Known(j) /\ CanBlock(record[j])
  BY <1>0, TalkingHolds
<1>1. CASE Unavailable(j)
  BY <1>1, RetryLaterFits DEF Unavailable, ServiceErrors
<1>2. CASE Garbled(j)
  BY <1>0, <1>2, RetryLaterFits, BlockJobFits DEF Garbled, ServiceErrors
<1>3. CASE Rejected(j)
  BY <1>0, <1>3, BlockJobFits DEF Rejected, ServiceErrors
<1>4. CASE LocalFailure(j)
  BY <1>0, <1>4, BlockJobFits DEF LocalFailure, ServiceErrors
<1>5. CASE Mismatch(j)
  BY <1>0, <1>5, BlockJobFits DEF Mismatch, ServiceErrors, Talking
<1>6. CASE BlockAfterFailure(j)
  BY <1>6, BlockJobFits DEF BlockAfterFailure, ServiceErrors
<1> QED
  BY <1>1, <1>2, <1>3, <1>4, <1>5, <1>6

LEMMA AdmissibleHolds ==
  ASSUME ServiceInvariant, NEW j \in Jobs, Admissible(j)
  PROVE  /\ Known(j) /\ IsStored(record[j]) /\ Proper(record[j])
         /\ CanAttempt(record[j])
         /\ record[j].state \notin {"writing", "committed", "cancelled"}
  BY DEF Admissible, CanAttempt, ServiceInvariant, RecordsProper, Known

(* What open_attempt may leave in the record. *)
LEMMA AdmissionUpdates ==
  ASSUME ServiceInvariant, NEW j \in Jobs, Admissible(j), UNCHANGED older,
         NEW m \in {Provisional(record[j]), Admit(Provisional(record[j])),
                    Block(Provisional(record[j]), PayloadInvalid)},
         Put(j, m)
  PROVE  Updates(j, m) /\ m.state \in {"attempting", "blocked"}
<1> DEFINE p == Provisional(record[j])
<1>1. Known(j) /\ Proper(record[j]) /\ CanAttempt(record[j])
  BY AdmissibleHolds
<1>2. /\ Replaces(record[j], p) /\ p.state = "attempting"
      /\ Replaces(record[j], Admit(p)) /\ Admit(p).state = "attempting"
  BY <1>1, AttemptIsProper
<1> HIDE DEF p
<1>3. Replaces(p, Block(p, PayloadInvalid)) /\ Block(p, PayloadInvalid).state = "blocked"
  BY <1>2, BlockIsProper DEF Replaces, CanBlock, ServiceErrors
<1>4. /\ Replaces(record[j], Block(p, PayloadInvalid))
  BY <1>2, <1>3 DEF Replaces
<1>5. m \in {p, Admit(p), Block(p, PayloadInvalid)}
  BY DEF p
<1> QED
  BY <1>1, <1>2, <1>3, <1>4, <1>5 DEF Updates

LEMMA AdmissionFailsFits ==
  ASSUME ServiceInvariant, ServerGrows, NEW j \in Jobs,
         AttemptInvalid(j) \/ AdmissionFails(j)
  PROVE  Fits'
<1>1. /\ Known(j) /\ record[j].state \notin {"writing", "cancelled"}
      /\ Admissible(j)
  BY AdmissibleHolds DEF AttemptInvalid, AdmissionFails
<1>2. Resting' /\ UNCHANGED <<older, file, finishing, cancelled>>
  BY DEF AttemptInvalid, AdmissionFails, Resting, Idle, Busy, mount, control, history
<1>3. \/ Unwritten(j)
      \/ \E m \in {Provisional(record[j]), Admit(Provisional(record[j])),
                  Block(Provisional(record[j]), PayloadInvalid)} : Put(j, m)
  <2>1. CASE AttemptInvalid(j)
    BY <2>1, SavePuts DEF AttemptInvalid
  <2>2. CASE AdmissionFails(j)
    <3>1. CASE Unwritten(j)
      BY <3>1
    <3>2. CASE \E m \in {Admit(Provisional(record[j])),
                         Block(Provisional(record[j]), PayloadInvalid)} : Save(j, m)
      BY <3>2, SavePuts
    <3>3. CASE /\ record' = [record EXCEPT ![j] = Provisional(@)]
               /\ temp' \in {temp, temp \cup {j}}
               /\ UNCHANGED quarantined
      <4>1. record' = [record EXCEPT ![j] = Provisional(record[j])]
        BY <3>3
      <4> QED BY <3>3, <4>1 DEF Put
    <3> QED BY <2>2, <3>1, <3>2, <3>3 DEF AdmissionFails
  <2> QED BY <2>1, <2>2
<1>4. CASE Unwritten(j)
  BY <1>1, <1>2, <1>4, UnwrittenStepFits
<1>5. ASSUME NEW m \in {Provisional(record[j]), Admit(Provisional(record[j])),
                        Block(Provisional(record[j]), PayloadInvalid)}, Put(j, m)
      PROVE  Fits'
  <2>1. Updates(j, m) /\ m.state \notin {"committed", "cancelled"}
    BY <1>1, <1>2, <1>5, AdmissionUpdates
  <2> QED BY <1>1, <1>2, <2>1, LeaveFits
<1> QED
  BY <1>3, <1>4, <1>5

(* The commits fit when one record is replaced that fits. *)
LEMMA CommitsFitOnUpdate ==
  ASSUME ServiceInvariant, ServerGrows, NEW j \in Jobs, NEW m, Updates(j, m),
         m.state = "committed" => CommitFits(j)'
  PROVE  CommitsFit'
<1>1. QueueFits' /\ record'[j] = m /\ OthersStay(j)
  BY UpdatesFits DEF ServiceInvariant, QueueFits
<1>2. CASE m.state = "committed"
  <2> SUFFICES ASSUME NEW i \in Jobs PROVE CommitFits(i)'
    BY DEF CommitsFit
  <2>1. CASE i = j
    BY <1>2, <2>1
  <2>2. CASE i # j
    <3>1. record'[i] = record[i] /\ CommitFits(i)
      BY <1>1, <2>2 DEF OthersStay, ServiceInvariant, CommitsFit
    <3> QED
      BY <3>1, ServedStays DEF CommitFits, ServiceInvariant, ServerGrows
  <2> QED BY <2>1, <2>2
<1>3. CASE m.state # "committed"
  BY <1>1, <1>3, CommitsFitStays DEF OthersStay
<1> QED
  BY <1>2, <1>3

(* The worker goes on with the same job, and writes its record. *)
LEMMA GoOnFits ==
  ASSUME ServiceInvariant, ServerGrows, NEW j \in Jobs, NEW m, NEW pc,
         Updates(j, m), record[j].state \notin {"writing", "cancelled"},
         m.state # "cancelled", worker' = Busy(pc, j),
         WorkerFits(j)', m.state = "committed" => CommitFits(j)',
         UNCHANGED <<file, finishing, cancelled>>
  PROVE  Fits'
<1>1. QueueFits'
  BY UpdatesFits DEF ServiceInvariant, QueueFits
<1>2. WorkerFit'
  BY BusyFits
<1>3. CommitsFit'
  BY CommitsFitOnUpdate
<1>4. NamesFit'
  BY NamesStayOnUpdate
<1> QED
  BY <1>1, <1>2, <1>3, <1>4 DEF Fits

LEMMA OpenAttemptFits ==
  ASSUME ServiceInvariant, ServerGrows, NEW j \in Jobs, OpenAttempt(j)
  PROVE  Fits'
<1> DEFINE m == Admit(Provisional(record[j]))
           pc == IF HasCandidate(record[j]) THEN "verify" ELSE "send"
<1>1. /\ Known(j) /\ Proper(record[j]) /\ CanAttempt(record[j]) /\ Admissible(j)
      /\ record[j].state \notin {"writing", "cancelled"}
  BY AdmissibleHolds DEF OpenAttempt
<1>2. /\ Replaces(record[j], m) /\ m.state = "attempting" /\ m.attempts >= 1
      /\ m.candidate = record[j].candidate
  BY <1>1, AttemptIsProper
<1>3. /\ Save(j, m) /\ waiting' = waiting \ {j} /\ worker' = Busy(pc, j)
      /\ UNCHANGED <<older, file, finishing, cancelled>>
  BY DEF OpenAttempt, mount, control, history
<1> HIDE DEF m
<1>4. Updates(j, m)
  BY <1>1, <1>2, <1>3, SavePuts DEF Updates
<1>5. record'[j] = m /\ IsStored(m) /\ j \notin temp' /\ j \notin quarantined'
  BY <1>1, <1>3, <1>4, UpdatesFits DEF ServiceInvariant, QueueFits, Save, Write, Known
<1>6. WorkerFits(j)'
  BY <1>2, <1>3, <1>5
  DEF WorkerFits, Sending, At, Busy, Attempted, HasCandidate, Known
<1> HIDE DEF pc
<1> QED
  BY <1>1, <1>2, <1>3, <1>4, <1>6, GoOnFits

(* The worker turns to another step of the same job, or gives it to the       *)
(* handler that blocks it.                                                    *)
LEMMA AcceptedFits ==
  ASSUME ServiceInvariant, ServerGrows, NEW j \in Jobs, Accepted(j) \/ AcceptFails(j)
  PROVE  Fits'
<1> DEFINE m == RecordCandidate(record[j], record[j].bytes)
<1>1. /\ Proper(record[j]) /\ Known(j) /\ j \notin temp /\ j \notin waiting
      /\ record[j].state = "attempting" /\ record[j].attempts >= 1
      /\ record[j].bytes \in Assets
  BY TalkingHolds DEF Accepted, AcceptFails, Talking
<1>2. /\ Replaces(record[j], m) /\ m.state = "attempting" /\ m.attempts >= 1
      /\ HasCandidate(m)
  BY <1>1, RecordIsProper
<1>3. UNCHANGED <<older, waiting, file, finishing, cancelled>>
  BY DEF Accepted, AcceptFails, mount, control, history
<1>4. (Accepted(j) \/ AcceptFails(j)) => Save(j, m) \/ Unwritten(j)
  BY DEF Accepted, AcceptFails, SaveFails
<1>5. AcceptFails(j) => Resting'
  BY DEF AcceptFails, Resting, Busy
<1> HIDE DEF m
<1>6. CASE Unwritten(j) /\ AcceptFails(j)
  BY <1>1, <1>3, <1>5, <1>6, UnwrittenStepFits
<1>7. ASSUME Save(j, m) PROVE Updates(j, m)
  BY <1>1, <1>2, <1>3, <1>7, SavePuts DEF Updates
<1>8. CASE Save(j, m) /\ AcceptFails(j)
  BY <1>1, <1>2, <1>3, <1>5, <1>7, <1>8, LeaveFits
<1>9. CASE Accepted(j)
  <2>1. Save(j, m) /\ worker' = Busy("verify", j)
    BY <1>9 DEF Accepted, m
  <2>2. record'[j] = m /\ IsStored(m) /\ j \notin temp' /\ j \notin quarantined'
    BY <1>1, <1>7, <2>1, UpdatesFits DEF ServiceInvariant, QueueFits, Save, Write, Known
  <2>3. WorkerFits(j)'
    BY <1>1, <1>2, <1>3, <2>1, <2>2
    DEF WorkerFits, Sending, At, Busy, Attempted, Known
  <2> QED
    BY <1>1, <1>2, <1>3, <1>7, <2>1, <2>3, GoOnFits
<1> QED
  BY <1>4, <1>6, <1>8, <1>9

(* The steps of an attempt that write nothing. *)
LEMMA SameRecordFits ==
  ASSUME ServiceInvariant, ServerGrows, NEW j \in Jobs, NEW pc,
         worker' = Busy(pc, j), WorkerFits(j)',
         UNCHANGED <<disk, older, file, finishing, cancelled>>
  PROVE  Fits'
  BY SameQueueFits, BusyFits, NamesStay DEF Fits, disk

LEMMA AttemptStepFits ==
  ASSUME ServiceInvariant, ServerGrows, NEW j \in Jobs,
         Post(j) \/ Verify(j) \/ Publish(j)
  PROVE  Fits'
<1>1. WorkerFits(j) /\ (IsStored(record[j]) => Proper(record[j]))
  BY DEF ServiceInvariant, WorkerFit, RecordsProper
<1>2. CASE Post(j)
  <2>1. /\ UNCHANGED <<disk, older, waiting, file, finishing, cancelled>>
        /\ worker' = Busy("reply", j)
    BY <1>2 DEF Post, queue, mount, control, history
  <2>2. Attempted(j) /\ ~HasCandidate(record[j])
    BY <1>1, <1>2 DEF Post, WorkerFits, Sending
  <2>3. WorkerFits(j)'
    BY <2>1, <2>2 DEF WorkerFits, Sending, At, Busy, Attempted, disk, Known
  <2> QED BY <2>1, <2>3, SameRecordFits
<1>3. CASE Verify(j)
  <2>1. /\ UNCHANGED <<disk, older, waiting, file, finishing, cancelled, remote>>
        /\ worker' = Busy("publish", j)
    BY <1>3 DEF Verify, queue, mount, control, server, history
  <2>2. Attempted(j) /\ Marked(j)
    BY <1>1, <1>3 DEF Verify, WorkerFits, Matches, Marked
  <2>3. WorkerFits(j)'
    BY <2>1, <2>2 DEF WorkerFits, Sending, At, Busy, Attempted, Marked, disk, Known
  <2> QED BY <2>1, <2>3, SameRecordFits
<1>4. CASE Publish(j)
  <2>1. /\ UNCHANGED <<disk, older, waiting, file, finishing, cancelled,
                       remote, trashed>>
        /\ worker' = Busy("commit", j)
        /\ catalog' = catalog \cup {record[j].candidate} /\ j \in published'
    BY <1>4 DEF Publish, queue, mount, control, server, history
  <2>2. Attempted(j) /\ Marked(j)
    BY <1>1, <1>4 DEF Publish, WorkerFits
  <2>3. WorkerFits(j)'
    BY <2>1, <2>2 DEF WorkerFits, Sending, At, Busy, Attempted, Marked, Served,
       disk, Known
  <2> QED BY <2>1, <2>3, SameRecordFits
<1> QED
  BY <1>2, <1>3, <1>4

LEMMA CommitJobFits ==
  ASSUME ServiceInvariant, ServerGrows, NEW j \in Jobs, CommitJob(j) \/ CommitFails(j)
  PROVE  Fits'
<1> DEFINE m == Commit(record[j])
<1>1. /\ Proper(record[j]) /\ Known(j) /\ j \notin temp
      /\ record[j].state = "attempting"
  BY TalkingHolds DEF CommitJob, CommitFails
<1>2. Served(j) /\ j \in published
  BY DEF CommitJob, CommitFails, ServiceInvariant, WorkerFit, WorkerFits
<1>3. /\ Replaces(record[j], m) /\ m.state = "committed"
      /\ m.candidate = record[j].candidate
  BY <1>1, <1>2, CommitIsProper DEF Served, Marked
<1>4. UNCHANGED <<older, file, finishing, cancelled, remote, trashed, catalog, published>>
  BY DEF CommitJob, CommitFails, mount, control, server, history
<1>5. (CommitJob(j) \/ CommitFails(j)) => Save(j, m) \/ Unwritten(j)
  BY DEF CommitJob, CommitFails, SaveFails
<1>6. CommitFails(j) => Resting'
  BY DEF CommitFails, Resting, Busy
<1> HIDE DEF m
<1>7. CASE Unwritten(j) /\ CommitFails(j)
  BY <1>1, <1>4, <1>6, <1>7, UnwrittenStepFits
<1>8. ASSUME Save(j, m)
      PROVE  /\ Updates(j, m) /\ record'[j] = m /\ IsStored(m)
             /\ CommitFits(j)'
  <2>1. Updates(j, m)
    BY <1>1, <1>3, <1>4, <1>8, SavePuts DEF Updates
  <2>2. record'[j] = m /\ IsStored(m)
    BY <2>1, UpdatesFits DEF ServiceInvariant, QueueFits
  <2>3. CommitFits(j)'
    BY <1>2, <1>3, <1>4, <2>2
    DEF CommitFits, Served, Marked, HasCandidate, Replaces
  <2> QED BY <2>1, <2>2, <2>3
<1>9. CASE Save(j, m) /\ CommitFails(j)
  <2>1. Updates(j, m) /\ CommitFits(j)'
    BY <1>8, <1>9
  <2>2. QueueFits'
    BY <2>1, UpdatesFits DEF ServiceInvariant, QueueFits
  <2>3. CommitsFit'
    BY <2>1, CommitsFitOnUpdate
  <2>4. WorkerFit'
    BY <1>6, <1>9, RestingFits DEF Resting
  <2>5. NamesFit'
    BY <1>1, <1>3, <1>4, <2>1, NamesStayOnUpdate
  <2> QED BY <2>2, <2>3, <2>4, <2>5 DEF Fits
<1>10. CASE CommitJob(j)
  <2>1. Save(j, m) /\ worker' = Busy("remove", j)
    BY <1>10 DEF CommitJob, m
  <2>2. /\ Updates(j, m) /\ record'[j] = m /\ IsStored(m) /\ CommitFits(j)'
        /\ j \notin temp' /\ j \notin quarantined'
    BY <1>1, <1>8, <2>1 DEF Save, Write, Known
  <2>3. WorkerFits(j)'
    BY <1>3, <2>1, <2>2 DEF WorkerFits, Sending, At, Busy, Known
  <2> QED
    BY <1>1, <1>3, <1>4, <2>1, <2>2, <2>3, GoOnFits
<1> QED
  BY <1>5, <1>7, <1>9, <1>10

(* What holds of a job the worker has still to remove. *)
LEMMA RemovableHolds ==
  ASSUME ServiceInvariant, NEW j \in Jobs, At("remove", j)
  PROVE  /\ Known(j) /\ IsStored(record[j]) /\ j \notin temp
         /\ record[j].state = "committed" /\ j \in published
         /\ j \notin cancelled /\ file[j] \notin {"none", "open"}
  BY DEF ServiceInvariant, WorkerFit, WorkerFits, CommitsFit, CommitFits, CancelsFit,
     CancelFits, FilesFit, FileFits, IsDraft, Known

LEMMA RemoveJobFits ==
  ASSUME ServiceInvariant, ServerGrows, NEW j \in Jobs, RemoveJob(j)
  PROVE  Fits'
<1>1. /\ Drop(j) /\ worker' = Busy("finish", j)
      /\ UNCHANGED <<file, finishing, cancelled, published>>
  BY DEF RemoveJob, mount, control, history
<1>2. /\ Known(j) /\ j \notin temp /\ j \in published /\ j \notin cancelled
      /\ file[j] \notin {"none", "open"}
  BY RemovableHolds DEF RemoveJob
<1>3. QueueFits' /\ ~IsStored(record'[j]) /\ OthersStay(j)
  BY <1>1, <1>2, DropFits DEF ServiceInvariant, QueueFits
<1>4. WorkerFit'
  BY <1>1, <1>2, BusyFits DEF WorkerFits, Sending, At, Busy
<1>5. CommitsFit'
  BY <1>3, CommitsFitStays DEF OthersStay
<1>6. FileFits(j)' /\ CancelFits(j)' /\ finishing' \subseteq cancelled'
  BY <1>1, <1>2, <1>3 DEF FileFits, CancelFits, ServiceInvariant, CancelsFit
<1>7. NamesFit'
  BY <1>1, <1>2, <1>3, <1>6, NamesFitAt
<1> QED
  BY <1>3, <1>4, <1>5, <1>7 DEF Fits

LEMMA RemoveFailsFits ==
  ASSUME ServiceInvariant, ServerGrows, NEW j \in Jobs, RemoveFails(j)
  PROVE  Fits'
<1>1. /\ worker' = Busy("finish", j)
      /\ UNCHANGED <<disk, older, file, finishing, cancelled, published>>
  BY DEF RemoveFails, queue, mount, control, history
<1>2. j \in published
  BY RemovableHolds DEF RemoveFails
<1>3. WorkerFits(j)'
  BY <1>1, <1>2 DEF WorkerFits, Sending, At, Busy
<1> QED
  BY <1>1, <1>3, SameRecordFits

LEMMA FinishUploadFits ==
  ASSUME ServiceInvariant, ServerGrows, NEW j \in Jobs, FinishUpload(j)
  PROVE  Fits'
<1>1. /\ UNCHANGED <<disk, older, finishing, published, cancelled>>
      /\ worker' = Idle("check")
      /\ file' = file \/ (file' = [file EXCEPT ![j] = "gone"] /\ file[j] = "pending")
  BY DEF FinishUpload, UploadFinished, queue, control, history
<1>3. QueueFits' /\ CommitsFit'
  BY <1>1, SameQueueFits
<1>4. WorkerFit'
  BY <1>1, RestingFits DEF Idle
<1>5. CASE file' = file
  BY <1>1, <1>3, <1>4, <1>5, NamesStay DEF Fits, disk
<1>6. CASE file' = [file EXCEPT ![j] = "gone"] /\ file[j] = "pending"
  <2>1. OthersStay(j) /\ record'[j] = record[j]
    BY <1>1 DEF disk, OthersStay
  <2>2. IsStored(record'[j]) => (j \in cancelled <=> record'[j].state = "cancelled")
    BY <2>1 DEF ServiceInvariant, CancelsFit, CancelFits
  <2>3. NamesFit'
    BY <1>1, <1>6, <2>1, <2>2, NamesFitWithFile
  <2> QED BY <1>3, <1>4, <2>3 DEF Fits
<1> QED
  BY <1>1, <1>5, <1>6

-----------------------------------------------------------------------------
(* A restart. *)
LEMMA RestartStepFits ==
  ASSUME ServiceInvariant, ServerGrows, Restart
  PROVE  Fits'
<1>1. /\ QueueFits'
      /\ \A j \in Jobs :
           /\ IsStored(record'[j]) =>
                /\ IsStored(record[j])
                /\ record'[j] = record[j]
                   \/ /\ record[j].state \notin {"committed", "cancelled"}
                      /\ record'[j].state \notin {"committed", "cancelled"}
           /\ IsStored(record[j]) /\ ~Finished(j) => IsStored(record'[j])
  BY RestartFits DEF ServiceInvariant, QueueFits
<1>2. /\ UNCHANGED <<published, cancelled>> /\ finishing' = {}
      /\ worker' = Idle("check")
      /\ \A j \in Jobs :
           /\ file[j] = "none" => file'[j] = "none"
           /\ file[j] # "none" => file'[j] \in {"pending", "gone"}
           /\ file'[j] = "pending" => IsSealed(record'[j])
  BY DEF Restart, history, Listed
<1>3. WorkerFit'
  BY <1>2, RestingFits DEF Idle
<1>4. CommitsFit'
  BY <1>1, CommitsFitStays
<1>5. FilesFit'
  BY <1>1, <1>2 DEF ServiceInvariant, FilesFit, FileFits
<1>6. CancelsFit'
  BY <1>1, <1>2 DEF ServiceInvariant, CancelsFit, CancelFits
<1>7. BytesNotLost'
  <2> SUFFICES ASSUME NEW j \in Jobs, file'[j] # "none", ~IsStored(record'[j])
               PROVE  j \in published' \cup cancelled'
    BY DEF BytesNotLost
  <2>1. file[j] # "none"
    BY <1>2
  <2>2. CASE IsStored(record[j])
    <3>1. record[j].state \in {"committed", "cancelled"}
      BY <1>1, <2>2 DEF Finished
    <3> QED
      BY <1>2, <2>2, <3>1 DEF ServiceInvariant, CommitsFit, CommitFits, CancelsFit,
         CancelFits
  <2>3. CASE ~IsStored(record[j])
    BY <1>2, <2>1, <2>3 DEF ServiceInvariant, BytesNotLost
  <2> QED BY <2>2, <2>3
<1> QED
  BY <1>1, <1>3, <1>4, <1>5, <1>6, <1>7 DEF Fits, NamesFit

-----------------------------------------------------------------------------
(* The invariant is inductive. *)
LEMMA InitFits == Init => ServiceInvariant
<1> SUFFICES ASSUME Init PROVE ServiceInvariant
  OBVIOUS
<1>1. \A j \in Jobs : ~IsStored(record[j]) /\ file[j] = "none"
  BY DEF Init, IsStored
<1>2. /\ RecordTypes /\ RecordsProper /\ FilesFit /\ CommitsFit /\ BytesNotLost
      /\ LeftoversFit
  BY <1>1 DEF Init, RecordTypes, RecordsProper, FilesFit, FileFits, CommitsFit,
     CommitFits, BytesNotLost, LeftoversFit
<1>3. OrderTypes
  BY <1>1 DEF Init, OrderTypes, Listed, Known
<1>4. OtherTypes
  <2>1. Idle("check") \in Places
    BY PlacesAreTyped DEF Pcs
  <2>2. 0 \in 0..MaxTrouble
    BY ServiceAssumption
  <2>3. remote \in [Assets -> Jobs \cup {Absent, Unmarked}]
    BY DEF Init
  <2>4. sealedRev \in [Jobs -> Nat] /\ shown \in [Jobs -> Nat]
    BY DEF Init
  <2> QED BY <2>1, <2>2, <2>3, <2>4 DEF Init, OtherTypes
<1>5. WorkerFit /\ CancelsFit
  BY <1>1 DEF Init, Idle, WorkerFit, WorkerFits, Sending, At, CancelsFit, CancelFits
<1> QED
  BY <1>2, <1>3, <1>4, <1>5 DEF ServiceInvariant

LEMMA StepFits ==
  ASSUME ServiceInvariant, [Next]_vars
  PROVE  ServiceInvariant'
<1>1. OtherTypes' /\ ServerGrows
  BY OtherTypesStay, ServerOnlyGrows DEF ServiceInvariant
<1> SUFFICES Fits'
  BY <1>1 DEF Fits, QueueFits, NamesFit, ServiceInvariant
<1> DEFINE still == /\ waiting' \subseteq waiting
                    /\ UNCHANGED worker \/ Resting'
                    /\ UNCHANGED <<disk, older, file, finishing, cancelled>>
<1>2. still => Fits'
  BY <1>1, QuietFits
<1>3. ASSUME NEW j \in Jobs,
             Tick(j) \/ Show(j) \/ AttemptRefused(j) \/ BlockRefused(j)
      PROVE  still
  BY <1>3 DEF Tick, Show, AttemptRefused, BlockRefused, queue, mount, process,
     control, history, Resting, Idle
<1>4. CASE GoOnline \/ Refresh \/ NextDue \/ Measure \/ Wake
  <2>1. still
    BY <1>4 DEF GoOnline, Refresh, NextDue, Measure, Wake, queue, mount, process,
       control, history, Resting, Idle
  <2> QED BY <1>2, <2>1
<1>5. ASSUME NEW a \in Assets, ForeignUpload(a) \/ ForeignTrash(a)
      PROVE  still
  BY <1>5 DEF ForeignUpload, ForeignTrash, queue, mount, process, control, history
<1>6. CASE UNCHANGED vars
  <2>1. still
    BY <1>6 DEF vars, queue, mount, process, control, history
  <2> QED BY <1>2, <2>1
<1> HIDE DEF still
<1>7. ASSUME NEW j \in Jobs,
             \/ Create(j) \/ WriteFails(j) \/ SealFile(j) \/ SealFails(j)
             \/ Mounting(j)
      PROVE  Fits'
  BY <1>1, <1>7, CreateFits, FileStepFits, SealFileFits, DeferJobFits, GiveUpFileFits
  DEF Mounting
<1>8. ASSUME NEW j \in Jobs,
             \/ RetryUpload(j) \/ RetryUploadFails(j) \/ CancelUpload(j)
             \/ CancelUploadFails(j) \/ FinishCancel(j)
      PROVE  Fits'
  BY <1>1, <1>8, RetryUploadFits, CancelUploadFits, FileStepFits
<1>9. ASSUME NEW j \in Jobs, Processing(j)
      PROVE  Fits'
  BY <1>1, <1>2, <1>3, <1>9, OpenAttemptFits, AdmissionFailsFits, AttemptStepFits,
     AcceptedFits, FailureFits, CommitJobFits, RemoveJobFits, RemoveFailsFits,
     FinishUploadFits
  DEF Processing
<1>10. CASE Restart
  BY <1>1, <1>10, RestartStepFits
<1> QED
  BY <1>2, <1>3, <1>4, <1>5, <1>6, <1>7, <1>8, <1>9, <1>10 DEF Next, WorkerStep

-----------------------------------------------------------------------------
(* Theorems. *)

(* The invariant holds throughout: the queue, the staged files, the worker and *)
(* the catalog agree about every job, through failed writes, lost and refused  *)
(* answers, user requests, foreign changes and restarts.                      *)
THEOREM InvariantHolds == Spec => []ServiceInvariant
<1>1. Init => ServiceInvariant
  BY InitFits
<1>2. ServiceInvariant /\ [Next]_vars => ServiceInvariant'
  BY StepFits
<1> QED
  BY <1>1, <1>2, PTL DEF Spec

(* The type invariant: every record passes _validate_manifest, and the list of  *)
(* the queue is in order and holds the sealed jobs (uploads.py:563-580).        *)
THEOREM ServiceIsTyped == Spec => []TypeOK
<1>1. ServiceInvariant => TypeOK
  BY DEF ServiceInvariant, RecordTypes, OrderTypes, OtherTypes, LeftoversFit,
     Places, Pcs, TypeOK
<1> QED
  BY <1>1, InvariantHolds, PTL

(* The private copy of a closed file goes only when its asset is published or   *)
(* the user has cancelled the job (service.py:558-569, uploads.py:849).         *)
THEOREM BytesAreNotLost == Spec => []BytesNotLost
<1>1. ServiceInvariant => BytesNotLost
  BY DEF ServiceInvariant
<1> QED
  BY <1>1, InvariantHolds, PTL

(* While the worker talks to the server nobody else may retry or cancel the     *)
(* job (uploads.py:633-673).                                                    *)
THEOREM AttemptsAreExclusive == Spec => []AttemptIsExclusive
<1>1. ServiceInvariant => AttemptIsExclusive
  BY DEF ServiceInvariant, WorkerFit, WorkerFits, Attempted, Sending, At,
     AttemptIsExclusive
<1> QED
  BY <1>1, InvariantHolds, PTL

(* A committed job has an asset with its own marker and bytes, in the catalog   *)
(* or in the trash (service.py:444-457, 748-762).                               *)
THEOREM CommitsAreServed == Spec => []CommittedIsServed
<1>1. ServiceInvariant => CommittedIsServed
  BY DEF ServiceInvariant, CommitsFit, CommitFits, Served, Marked,
     CommittedIsServed
<1> QED
  BY <1>1, InvariantHolds, PTL

(* The steps that can change what the server holds. *)
LEMMA RemoteStays ==
  ASSUME Next
  PROVE  \/ UNCHANGED remote
         \/ \E j \in Jobs : Post(j)
         \/ \E a \in Assets : ForeignUpload(a)
<1>1. ASSUME NEW i \in Jobs,
             \/ Create(i) \/ WriteFails(i) \/ SealFile(i) \/ SealFails(i)
             \/ Mounting(i) \/ Tick(i) \/ Show(i) \/ RetryUpload(i)
             \/ RetryUploadFails(i) \/ CancelUpload(i) \/ CancelUploadFails(i)
             \/ FinishCancel(i)
      PROVE  UNCHANGED remote
  BY <1>1 DEF Create, WriteFails, SealFile, SealFails, Mounting, DeferJob,
     DeferRefused, DeferFails, GiveUpFile, Tick, Show, RetryUpload,
     RetryUploadFails, CancelUpload, CancelUploadFails, FinishCancel, server
<1>2. ASSUME NEW b \in Assets,
             \/ NextDue \/ Measure \/ Wake \/ GoOnline \/ Refresh \/ Restart
             \/ ForeignTrash(b)
      PROVE  UNCHANGED remote
  BY <1>2 DEF NextDue, Measure, Wake, GoOnline, Refresh, Restart, ForeignTrash,
     server
<1>3. ASSUME NEW i \in Jobs, Processing(i)
      PROVE  Post(i) \/ UNCHANGED remote
  BY <1>3 DEF Processing, OpenAttempt, AttemptInvalid, AttemptRefused,
     AdmissionFails, Accepted, AcceptFails, Unavailable, Garbled, Rejected,
     LocalFailure, BlockAfterFailure, BlockRefused, Verify, Mismatch, Publish,
     CommitJob, CommitFails, RemoveJob, RemoveFails, FinishUpload, RetryLater,
     BlockJob, server
<1>4. CASE NextDue \/ Measure \/ Wake \/ GoOnline \/ Refresh \/ Restart
  BY <1>4 DEF NextDue, Measure, Wake, GoOnline, Refresh, Restart, server
<1> QED
  BY <1>1, <1>2, <1>3, <1>4 DEF Next, WorkerStep

(* Nothing is posted for a cancelled job: it has no record, or one that says    *)
(* cancelled, and never gets another (service.py:693-716).                     *)
THEOREM CancelsAreFinal == Spec => CancelStopsUpload
<1>1. ServiceInvariant /\ [Next]_vars =>
        [\A j \in Jobs, a \in Assets :
           j \in cancelled /\ remote[a] # j => remote'[a] # j]_vars
  <2> SUFFICES ASSUME ServiceInvariant, Next,
                      NEW j \in Jobs, NEW a \in Assets,
                      j \in cancelled, remote[a] # j
               PROVE  remote'[a] # j
    BY DEF vars, server
  <2>0. remote \in [Assets -> Jobs \cup {Absent, Unmarked}] /\ Unmarked # j
    BY ServiceAssumption DEF ServiceInvariant, OtherTypes
  <2>1. ASSUME NEW i \in Jobs, Post(i)
        PROVE  remote'[a] # j
    <3>1. i # j
      BY <2>1 DEF Post, ServiceInvariant, WorkerFit, WorkerFits, Sending, Attempted,
         CancelsFit, CancelFits, Known
    <3> QED BY <2>0, <2>1, <3>1 DEF Post
  <2>2. ASSUME NEW b \in Assets, ForeignUpload(b)
        PROVE  remote'[a] # j
    BY <2>0, <2>2 DEF ForeignUpload
  <2>3. CASE UNCHANGED remote
    BY <2>3
  <2> QED
    BY <2>1, <2>2, <2>3, RemoteStays
<1> QED
  BY <1>1, InvariantHolds, PTL DEF Spec, CancelStopsUpload

(* The name of a file that was closed well goes only when its asset is in the    *)
(* catalog, the user cancelled, or a restart set the job aside over a leftover   *)
(* (filesystem.py:688-709).                                                     *)
THEOREM ClosedNamesStay == Spec => ClosedNameStays
<1>1. ServiceInvariant /\ [Next]_vars =>
        [\A j \in Jobs :
           file[j] = "pending" /\ file'[j] # "pending" =>
             \/ j \in published' \cup cancelled'
             \/ j \in temp /\ j \in quarantined']_vars
  <2> SUFFICES ASSUME ServiceInvariant, Next, NEW j \in Jobs,
                      file[j] = "pending", file'[j] # "pending"
               PROVE  \/ j \in published' \cup cancelled'
                      \/ j \in temp /\ j \in quarantined'
    BY DEF vars, mount
  <2>1. ASSUME NEW i \in Jobs,
               \/ Create(i) \/ WriteFails(i) \/ SealFile(i) \/ SealFails(i)
               \/ Mounting(i)
        PROVE  FALSE
    BY <2>1 DEF ServiceInvariant, OtherTypes, Create, WriteFails, SealFile,
       SealFails, Mounting, DeferJob, DeferRefused, DeferFails, Deferrable,
       GiveUpFile
  <2>2. ASSUME NEW i \in Jobs, FinishCancel(i)
        PROVE  j \in cancelled'
    BY <2>2 DEF ServiceInvariant, OtherTypes, FinishCancel, UploadFinished,
       CancelsFit, history
  <2>3. ASSUME NEW i \in Jobs, FinishUpload(i)
        PROVE  j \in published'
    BY <2>3 DEF ServiceInvariant, OtherTypes, FinishUpload, UploadFinished,
       WorkerFit, WorkerFits, history
  <2>4. CASE Restart
    <3>1. UNCHANGED <<published, cancelled>>
      BY <2>4 DEF Restart, history
    <3>2. CASE ~IsStored(record[j])
      BY <3>1, <3>2 DEF ServiceInvariant, BytesNotLost
    <3>3. CASE IsStored(record[j]) /\ record[j].state = "committed"
      BY <3>1, <3>3 DEF ServiceInvariant, CommitsFit, CommitFits
    <3>4. CASE IsStored(record[j]) /\ record[j].state = "cancelled"
      BY <3>1, <3>4 DEF ServiceInvariant, CancelsFit, CancelFits
    <3>5. CASE IsStored(record[j]) /\ record[j].state \notin {"committed", "cancelled"}
      <4>1. Proper(record[j]) /\ IsSealed(record[j])
        BY <3>5 DEF ServiceInvariant, RecordsProper, FilesFit, FileFits
      <4>2. record[j].state \in {"pending", "attempting", "replacing", "blocked"}
        BY <3>5, <4>1
        DEF Proper, Sound, Manifest, UploadState, ValidManifest, ValidState
      <4>3. Recovered(record[j]) = record[j]
        BY <3>5, <4>2 DEF Recovered
      <4>4. record'[j] = record[j]
        BY <2>4, <4>3 DEF Restart
      <4>5. j \in quarantined'
        BY <2>4, <3>5, <4>1, <4>2, <4>4 DEF Restart, IsLocallyReadable, Listed, Known
      <4>6. j \in temp
        BY <2>4, <4>2, <4>5 DEF Restart, Unsettled
      <4> QED BY <4>5, <4>6
    <3> QED BY <3>2, <3>3, <3>4, <3>5
  <2>5. ASSUME \/ GoOnline \/ Refresh \/ NextDue \/ Measure \/ Wake
               \/ \E i \in Jobs :
                    \/ Tick(i) \/ Show(i) \/ RetryUpload(i) \/ RetryUploadFails(i)
                    \/ CancelUpload(i) \/ CancelUploadFails(i)
               \/ \E a \in Assets : ForeignUpload(a) \/ ForeignTrash(a)
        PROVE  FALSE
    BY <2>5 DEF Tick, Show, RetryUpload, RetryUploadFails, CancelUpload,
       CancelUploadFails, GoOnline, Refresh, NextDue, Measure, Wake, ForeignUpload,
       ForeignTrash, mount
  <2>6. ASSUME NEW i \in Jobs, Processing(i)
        PROVE  FinishUpload(i)
    BY <2>6 DEF Processing, OpenAttempt, AttemptInvalid, AttemptRefused,
       AdmissionFails, Post, Accepted, AcceptFails, Unavailable, Garbled, Rejected,
       LocalFailure, BlockAfterFailure, BlockRefused, Verify, Mismatch, Publish,
       CommitJob, CommitFails, RemoveJob, RemoveFails, RetryLater, BlockJob, mount
  <2> QED
    BY <2>1, <2>2, <2>3, <2>4, <2>5, <2>6 DEF Next, WorkerStep
<1> QED
  BY <1>1, InvariantHolds, PTL DEF Spec, ClosedNameStays

-----------------------------------------------------------------------------
(* The lifecycle.  A step changes the record of one job, in one of the ways   *)
(* JobLifecycle allows, or is a restart.                                      *)

(* n stands where m does, and names the same asset. *)
SamePlace(m, n) == PhaseOf(n) = PhaseOf(m) /\ n.candidate = m.candidate

(* Steps that write no record, and those that move none. *)
Reads(j) ==
  \/ WriteFails(j) \/ DeferRefused(j) \/ FinishCancel(j) \/ Tick(j) \/ Show(j)
  \/ AttemptRefused(j) \/ BlockRefused(j) \/ Post(j) \/ Verify(j) \/ Publish(j)
  \/ RemoveFails(j) \/ FinishUpload(j)

Outside(a) ==
  \/ GoOnline \/ Refresh \/ NextDue \/ Measure \/ Wake
  \/ ForeignUpload(a) \/ ForeignTrash(a)

Rewritten(j) ==
  \/ DeferJob(j) \/ DeferFails(j) \/ GiveUpFile(j)
  \/ RetryUpload(j) \/ RetryUploadFails(j)
  \/ OpenAttempt(j) \/ AttemptInvalid(j) \/ AdmissionFails(j)
  \/ Unavailable(j) \/ Garbled(j) \/ Rejected(j) \/ LocalFailure(j)
  \/ Mismatch(j)

(* The steps that move the job along, or try to. *)
Moved(j) ==
  \/ Create(j) \/ SealFile(j) \/ SealFails(j) \/ Accepted(j) \/ AcceptFails(j)
  \/ CommitJob(j) \/ CommitFails(j) \/ BlockAfterFailure(j) \/ RemoveJob(j)
  \/ CancelUpload(j) \/ CancelUploadFails(j)

LEMMA EveryStep ==
  ASSUME Next
  PROVE  \/ Restart \/ (\E a : Outside(a))
         \/ \E j \in Jobs : Reads(j) \/ Rewritten(j) \/ Moved(j)
  BY DEF Next, WorkerStep, Processing, Mounting, Outside, Reads, Rewritten, Moved

(* An update of the record of j that leaves the job where it is, or none. *)
Stands(j) ==
  \/ UNCHANGED record
  \/ \E m : Updates(j, m) /\ SamePlace(record[j], m)

LEMMA SealedStands ==
  ASSUME NEW m, NEW n, Replaces(m, n), n.candidate = m.candidate,
         m.state \notin {"committed", "cancelled"},
         n.state \notin {"committed", "cancelled"}
  PROVE  SamePlace(m, n)
  BY DEF SamePlace, Replaces, PhaseOf, IsSealed

LEMMA UnwrittenStands == ASSUME NEW j, Unwritten(j) PROVE Stands(j)
  BY DEF Unwritten, Stands

LEMMA RetryStands ==
  ASSUME ServiceInvariant, NEW j \in Jobs, NEW e \in ServiceErrors \cup {NoError},
         Known(j), CanRetry(record[j]), record[j].state # "committed",
         Save(j, Retry(record[j], e)), UNCHANGED older
  PROVE  Stands(j)
<1> DEFINE m == Retry(record[j], e)
<1>1. Proper(record[j]) /\ record[j].state \notin {"committed", "cancelled"}
  BY DEF ServiceInvariant, RecordsProper, CanRetry, Known
<1>2. Replaces(record[j], m) /\ m.state \notin {"committed", "cancelled"}
  BY <1>1, RetryIsProper
<1>3. m.candidate = record[j].candidate
  BY <1>1 DEF Retry, Proper, Sound, Manifest
<1>4. Updates(j, m)
  BY <1>2, SavePuts DEF Updates
<1> HIDE DEF m
<1>5. SamePlace(record[j], m)
  BY <1>1, <1>2, <1>3, SealedStands
<1> QED
  BY <1>4, <1>5 DEF Stands

(* What blocking does to a record. *)
LEMMA BlockUpdates ==
  ASSUME ServiceInvariant, NEW j \in Jobs, NEW e \in ServiceErrors,
         Known(j), CanBlock(record[j]),
         Save(j, Block(record[j], e)), UNCHANGED older
  PROVE  /\ Updates(j, Block(record[j], e))
         /\ Block(record[j], e).state = "blocked"
         /\ Block(record[j], e).candidate = record[j].candidate
         /\ Proper(record[j])
<1>1. Proper(record[j])
  BY DEF ServiceInvariant, RecordsProper, Known
<1>2. /\ Replaces(record[j], Block(record[j], e))
      /\ Block(record[j], e).state = "blocked"
  BY <1>1, BlockIsProper
<1>3. Block(record[j], e).candidate = record[j].candidate
  BY <1>1 DEF Block, Proper, Sound, Manifest
<1> QED
  BY <1>1, <1>2, <1>3, SavePuts DEF Updates

LEMMA BlockStands ==
  ASSUME ServiceInvariant, NEW j \in Jobs, NEW e \in ServiceErrors,
         Known(j), CanBlock(record[j]), record[j].state # "committed",
         Save(j, Block(record[j], e)), UNCHANGED older
  PROVE  Stands(j)
<1> DEFINE m == Block(record[j], e)
<1>1. /\ Updates(j, m) /\ m.state = "blocked" /\ m.candidate = record[j].candidate
      /\ record[j].state # "cancelled"
  BY BlockUpdates DEF CanBlock
<1> HIDE DEF m
<1>2. SamePlace(record[j], m)
  BY <1>1, SealedStands DEF Updates
<1> QED
  BY <1>1, <1>2 DEF Stands

LEMMA RewrittenStands ==
  ASSUME ServiceInvariant, NEW j \in Jobs, Rewritten(j)
  PROVE  Stands(j)
<1>1. ASSUME NEW r, Known(j), CanRetryAt(record[j], r),
             Unwritten(j) \/ (Save(j, Retry(record[j], NoError)) /\ UNCHANGED older)
      PROVE  Stands(j)
  BY <1>1, RetryStands, UnwrittenStands DEF CanRetryAt
<1>2. CASE DeferJob(j) \/ DeferFails(j)
  BY <1>1, <1>2 DEF DeferJob, DeferFails, Deferrable
<1>3. CASE RetryUpload(j) \/ RetryUploadFails(j)
  BY <1>1, <1>3 DEF RetryUpload, RetryUploadFails
<1>4. ASSUME Talking(j) \/ At("publish", j)
      PROVE  /\ Known(j) /\ record[j].state # "committed"
             /\ CanRetry(record[j]) /\ CanBlock(record[j])
  BY <1>4, TalkingHolds
<1>5. ASSUME Talking(j), NEW e \in ServiceErrors, RetryLater(j, e)
      PROVE  Stands(j)
  BY <1>4, <1>5, RetryStands, UnwrittenStands DEF RetryLater
<1>6. ASSUME Talking(j) \/ At("publish", j), NEW e \in ServiceErrors, BlockJob(j, e)
      PROVE  Stands(j)
  BY <1>4, <1>6, BlockStands, UnwrittenStands DEF BlockJob
<1>7. CASE Unavailable(j)
  BY <1>5, <1>7 DEF Unavailable, ServiceErrors
<1>8. CASE Garbled(j)
  BY <1>5, <1>6, <1>8 DEF Garbled, ServiceErrors
<1>9. CASE Rejected(j)
  BY <1>6, <1>9 DEF Rejected, ServiceErrors
<1>10. CASE LocalFailure(j)
  BY <1>6, <1>10 DEF LocalFailure, ServiceErrors
<1>11. CASE Mismatch(j)
  BY <1>6, <1>11 DEF Mismatch, ServiceErrors, Talking
<1>12. CASE GiveUpFile(j)
  <2> DEFINE m == BlockDraft(record[j], "local-write-failed")
  <2>1. UNCHANGED older
    BY <1>12 DEF GiveUpFile
  <2>2. CASE ~(Known(j) /\ IsDraft(record[j])) \/ Unwritten(j)
    BY <1>12, <2>2, UnwrittenStands DEF GiveUpFile, Stands, disk
  <2>3. CASE Known(j) /\ IsDraft(record[j]) /\ Save(j, m)
    <3>1. Proper(record[j]) /\ record[j].state = "writing"
      BY <2>3 DEF ServiceInvariant, RecordsProper, IsDraft, Known
    <3>2. Replaces(record[j], m) /\ m.state = "blocked"
      BY <3>1, BlockDraftIsProper DEF ServiceErrors
    <3>3. m.candidate = record[j].candidate
      BY <3>1 DEF BlockDraft, Proper, Sound, Manifest
    <3>4. Updates(j, m)
      BY <2>1, <2>3, <3>2, SavePuts DEF Updates
    <3> HIDE DEF m
    <3>5. SamePlace(record[j], m)
      BY <3>1, <3>2, <3>3, SealedStands
    <3> QED BY <3>4, <3>5 DEF Stands
  <2> QED
    BY <1>12, <2>2, <2>3 DEF GiveUpFile
<1>13. ASSUME Admissible(j), UNCHANGED older,
              NEW m \in {Provisional(record[j]), Admit(Provisional(record[j])),
                         Block(Provisional(record[j]), PayloadInvalid)},
              Put(j, m)
       PROVE  Stands(j)
  <2> DEFINE p == Provisional(record[j])
  <2>1. Updates(j, m) /\ m.state \in {"attempting", "blocked"}
    BY <1>13, AdmissionUpdates
  <2>2. /\ Proper(record[j]) /\ CanAttempt(record[j])
        /\ record[j].state \notin {"committed", "cancelled"}
    BY <1>13, AdmissibleHolds
  <2>3. Proper(p) /\ p.candidate = record[j].candidate
    BY <2>2, AttemptIsProper DEF Provisional, Proper, Sound, Manifest, Replaces
  <2>4. m \in {p, Admit(p), Block(p, PayloadInvalid)}
    BY <1>13
  <2> HIDE DEF p
  <2>5. m.candidate = record[j].candidate
    BY <2>3, <2>4 DEF Admit, Block, Proper, Sound, Manifest
  <2>6. SamePlace(record[j], m)
    BY <2>1, <2>2, <2>5, SealedStands DEF Updates
  <2> QED BY <2>1, <2>6 DEF Stands
<1>14. CASE OpenAttempt(j) \/ AttemptInvalid(j)
  BY <1>13, <1>14, SavePuts DEF OpenAttempt, AttemptInvalid
<1>15. CASE AdmissionFails(j)
  <2>1. CASE Unwritten(j)
    BY <2>1, UnwrittenStands
  <2>2. CASE \E m \in {Admit(Provisional(record[j])),
                       Block(Provisional(record[j]), PayloadInvalid)} : Save(j, m)
    BY <1>13, <1>15, <2>2, SavePuts DEF AdmissionFails
  <2>3. CASE /\ record' = [record EXCEPT ![j] = Provisional(@)]
             /\ temp' \in {temp, temp \cup {j}}
             /\ UNCHANGED quarantined
    <3>1. record' = [record EXCEPT ![j] = Provisional(record[j])]
      BY <2>3
    <3>2. Put(j, Provisional(record[j]))
      BY <2>3, <3>1 DEF Put
    <3> QED BY <1>13, <1>15, <3>2 DEF AdmissionFails
  <2> QED BY <1>15, <2>1, <2>2, <2>3 DEF AdmissionFails
<1> QED
  BY <1>2, <1>3, <1>7, <1>8, <1>9, <1>10, <1>11, <1>12, <1>14, <1>15 DEF Rewritten

(* What becomes of the record in the steps that move the job along. *)
LEMMA SealMoves ==
  ASSUME ServiceInvariant, NEW j \in Jobs, SealFile(j) \/ SealFails(j)
  PROVE  UNCHANGED record \/ Seals(j)
<1>1. Known(j) /\ IsDraft(record[j])
  BY DEF SealFile, SealFails, ServiceInvariant, FilesFit, FileFits
<1> QED
  BY <1>1, SavePuts DEF SealFile, SealFails, Unwritten, Seals

LEMMA AcceptMoves ==
  ASSUME ServiceInvariant, NEW j \in Jobs, Accepted(j) \/ AcceptFails(j)
  PROVE  \/ UNCHANGED record
         \/ \E m : /\ Updates(j, m) /\ PhaseOf(m) = "sealed"
                   /\ m.candidate \in Assets
                   /\ PhaseOf(record[j]) = "sealed" /\ record[j].candidate = NoAsset
<1> DEFINE m == RecordCandidate(record[j], record[j].bytes)
<1>1. /\ Proper(record[j]) /\ record[j].state = "attempting"
      /\ record[j].attempts >= 1 /\ record[j].bytes \in Assets
      /\ IsSealed(record[j]) /\ Known(j)
  BY TalkingHolds DEF Accepted, AcceptFails, Talking
<1>2. Replaces(record[j], m) /\ m.state = "attempting"
  BY <1>1, RecordIsProper
<1>3. m.candidate = record[j].bytes
  BY <1>1 DEF RecordCandidate, Proper, Sound, Manifest
<1>4. ~HasCandidate(record[j])
  BY DEF Accepted, AcceptFails, ServiceInvariant, WorkerFit, WorkerFits, Sending
<1>5. UNCHANGED record \/ Save(j, m)
  BY DEF Accepted, AcceptFails, SaveFails, Unwritten
<1>6. UNCHANGED older
  BY DEF Accepted, AcceptFails
<1> HIDE DEF m
<1>7. ASSUME Save(j, m) PROVE Updates(j, m)
  BY <1>1, <1>2, <1>6, <1>7, SavePuts DEF Updates
<1>8. PhaseOf(m) = "sealed" /\ PhaseOf(record[j]) = "sealed"
  BY <1>1, <1>2 DEF PhaseOf, Replaces, IsSealed
<1> QED
  BY <1>1, <1>3, <1>4, <1>5, <1>7, <1>8 DEF HasCandidate

LEMMA CommitMoves ==
  ASSUME ServiceInvariant, NEW j \in Jobs, CommitJob(j) \/ CommitFails(j)
  PROVE  \/ UNCHANGED record
         \/ \E m : /\ Updates(j, m) /\ PhaseOf(m) = "committed"
                   /\ m.candidate = record[j].candidate
                   /\ PhaseOf(record[j]) = "sealed" /\ record[j].candidate # NoAsset
<1> DEFINE m == Commit(record[j])
<1>1. /\ Proper(record[j]) /\ record[j].state = "attempting"
      /\ IsSealed(record[j]) /\ Known(j)
  BY TalkingHolds DEF CommitJob, CommitFails
<1>2. HasCandidate(record[j])
  BY DEF CommitJob, CommitFails, ServiceInvariant, WorkerFit, WorkerFits, Served,
     Marked
<1>3. /\ Replaces(record[j], m) /\ m.state = "committed"
      /\ m.candidate = record[j].candidate
  BY <1>1, <1>2, CommitIsProper
<1>4. UNCHANGED record \/ Save(j, m)
  BY DEF CommitJob, CommitFails, SaveFails, Unwritten
<1>5. UNCHANGED older
  BY DEF CommitJob, CommitFails
<1> HIDE DEF m
<1>6. ASSUME Save(j, m) PROVE Updates(j, m)
  BY <1>1, <1>3, <1>5, <1>6, SavePuts DEF Updates
<1>7. PhaseOf(m) = "committed" /\ PhaseOf(record[j]) = "sealed"
  BY <1>1, <1>3 DEF PhaseOf
<1> QED
  BY <1>2, <1>3, <1>4, <1>6, <1>7 DEF HasCandidate

(* A job blocked after its commit is sealed again, with its candidate. *)
LEMMA BlockMoves ==
  ASSUME ServiceInvariant, NEW j \in Jobs, BlockAfterFailure(j)
  PROVE  \/ Stands(j)
         \/ \E m : /\ Updates(j, m) /\ PhaseOf(m) = "sealed"
                   /\ m.candidate = record[j].candidate
                   /\ PhaseOf(record[j]) = "committed"
<1> DEFINE e == "local-state-failed"
           m == Block(record[j], e)
<1>1. Known(j) /\ CanBlock(record[j]) /\ UNCHANGED older /\ e \in ServiceErrors
  BY DEF BlockAfterFailure, BlockJob, ServiceErrors
<1>2. Unwritten(j) \/ Save(j, m)
  BY DEF BlockAfterFailure, BlockJob
<1>3. CASE Unwritten(j)
  BY <1>3, UnwrittenStands
<1>4. CASE Save(j, m) /\ record[j].state # "committed"
  BY <1>1, <1>4, BlockStands
<1>5. CASE Save(j, m) /\ record[j].state = "committed"
  <2>1. /\ Updates(j, m) /\ m.state = "blocked" /\ m.candidate = record[j].candidate
        /\ Proper(record[j])
    BY <1>1, <1>5, BlockUpdates
  <2>2. IsSealed(record[j])
    BY <1>5, <2>1 DEF Proper, Sound, ValidManifest, ValidState
  <2> HIDE DEF m
  <2>3. PhaseOf(m) = "sealed" /\ PhaseOf(record[j]) = "committed"
    BY <1>5, <2>1, <2>2 DEF PhaseOf, Updates, Replaces, IsSealed
  <2> QED BY <2>1, <2>3
<1> QED
  BY <1>2, <1>3, <1>4, <1>5

LEMMA CancelMoves ==
  ASSUME ServiceInvariant, NEW j \in Jobs, CancelUpload(j) \/ CancelUploadFails(j)
  PROVE  /\ IsStored(record[j]) /\ PhaseOf(record[j]) \in {"draft", "sealed"}
         /\ record[j].candidate = NoAsset
         /\ UNCHANGED file
         /\ \/ UNCHANGED <<record, cancelled>>
            \/ /\ cancelled' = cancelled \cup {j} /\ OthersStay(j)
               /\ ~IsStored(record'[j])
               /\ j \in finishing' \cup cutShort'
            \/ /\ cancelled' = cancelled \cup {j} /\ OthersStay(j)
               /\ IsStored(record'[j])
               /\ PhaseOf(record'[j]) = "cancelled" /\ record'[j].candidate = NoAsset
<1> DEFINE m == Cancel(record[j])
<1>1. /\ Known(j) /\ IsStored(record[j]) /\ Proper(record[j]) /\ j \notin temp
      /\ record[j].state \in {"pending", "blocked"} /\ ~HasCandidate(record[j])
      /\ UNCHANGED file
  BY DEF CancelUpload, CancelUploadFails, CanCancel, mount, ServiceInvariant,
     RecordsProper, Known
<1>2. /\ PhaseOf(record[j]) \in {"draft", "sealed"}
      /\ record[j].candidate = NoAsset
  BY <1>1 DEF PhaseOf, HasCandidate
<1>3. \/ UNCHANGED <<record, cancelled>>
      \/ /\ Drop(j) /\ cancelled' = cancelled \cup {j}
         /\ j \in finishing' \cup cutShort'
      \/ Save(j, m) /\ cancelled' = cancelled \cup {j} /\ UNCHANGED older
  BY DEF CancelUpload, CancelUploadFails, Unwritten
<1>4. CASE Drop(j) /\ cancelled' = cancelled \cup {j} /\ j \in finishing' \cup cutShort'
  <2>1. ~IsStored(record'[j]) /\ OthersStay(j)
    BY <1>1, <1>4, DropFits DEF ServiceInvariant, QueueFits
  <2> QED BY <1>1, <1>2, <1>4, <2>1
<1>5. CASE Save(j, m) /\ cancelled' = cancelled \cup {j} /\ UNCHANGED older
  <2>1. PICK r : CanCancel(record[j], r)
    BY DEF CancelUpload, CancelUploadFails
  <2>2. /\ Replaces(record[j], m) /\ m.state = "cancelled"
        /\ m.candidate = record[j].candidate
    BY <1>1, <2>1, CancelIsProper
  <2>3. Updates(j, m)
    BY <1>1, <1>5, <2>2, SavePuts DEF Updates
  <2> HIDE DEF m
  <2>4. record'[j] = m /\ IsStored(m) /\ OthersStay(j)
    BY <2>3, UpdatesFits DEF ServiceInvariant, QueueFits
  <2> QED BY <1>1, <1>2, <1>5, <2>2, <2>4 DEF PhaseOf
<1> QED
  BY <1>1, <1>2, <1>3, <1>4, <1>5

(* What a job without a record has been is told by the file and the cancels,  *)
(* and these change with Create and the cancels only.                         *)
SameFate(j) ==
  /\ j \in cancelled' <=> j \in cancelled
  /\ file'[j] = "none" <=> file[j] = "none"

LEMMA FateStays ==
  ASSUME ServiceInvariant, NEW j \in Jobs,
         \/ UNCHANGED <<file, cancelled>>
         \/ \E a : Outside(a)
         \/ Reads(j) \/ Rewritten(j) \/ SealFile(j) \/ SealFails(j)
         \/ Accepted(j) \/ AcceptFails(j) \/ CommitJob(j) \/ CommitFails(j)
         \/ BlockAfterFailure(j) \/ RemoveJob(j) \/ Restart
  PROVE  \A i \in Jobs : SameFate(i)
<1> USE DEF SameFate, ServiceInvariant, OtherTypes
<1>1. CASE UNCHANGED <<file, cancelled>> \/ \E a : Outside(a)
  BY <1>1 DEF Outside, GoOnline, Refresh, NextDue, Measure, Wake, ForeignUpload,
     ForeignTrash, mount, history
<1>2. CASE Reads(j)
  BY <1>2 DEF Reads, WriteFails, DeferRefused, FinishCancel, Tick, Show,
     AttemptRefused, BlockRefused, Post, Verify, Publish, RemoveFails, FinishUpload,
     UploadFinished, mount, history
<1>3. CASE Rewritten(j)
  BY <1>3 DEF Rewritten, DeferJob, DeferFails, Deferrable, GiveUpFile, RetryUpload,
     RetryUploadFails, OpenAttempt, AttemptInvalid, AdmissionFails, Unavailable,
     Garbled, Rejected, LocalFailure, Mismatch, RetryLater, BlockJob, mount, history
<1>4. CASE \/ SealFile(j) \/ SealFails(j) \/ Accepted(j) \/ AcceptFails(j)
           \/ CommitJob(j) \/ CommitFails(j) \/ BlockAfterFailure(j) \/ RemoveJob(j)
  BY <1>4 DEF SealFile, SealFails, Accepted, AcceptFails, CommitJob, CommitFails,
     BlockAfterFailure, BlockJob, RemoveJob, mount, history
<1>5. CASE Restart
  BY <1>5 DEF Restart, history
<1> QED
  BY <1>1, <1>2, <1>3, <1>4, <1>5

LEMMA RecordStays ==
  ASSUME NEW j, NEW a, Reads(j) \/ Outside(a)
  PROVE  UNCHANGED record
  BY DEF Reads, Outside, WriteFails, DeferRefused, FinishCancel, Tick, Show,
     AttemptRefused, BlockRefused, Post, Verify, Publish, RemoveFails, FinishUpload,
     GoOnline, Refresh, NextDue, Measure, Wake, ForeignUpload, ForeignTrash, queue,
     disk

-----------------------------------------------------------------------------
(* Every step is one of the lifecycle, or leaves every job where it is. *)
LEMMA LifecycleStep ==
  ASSUME ServiceInvariant, [Next]_vars
  PROVE  [Lifecycle!Next]_(Lifecycle!vars)
<1> DEFINE P == [j \in Jobs |-> JobPhase(j)]
           C == [j \in Jobs |-> JobCandidate(j)]
           kept(j) == JobPhase(j)' = JobPhase(j) /\ JobCandidate(j)' = JobCandidate(j)
<1>p. P' = [j \in Jobs |-> JobPhase(j)'] /\ C' = [j \in Jobs |-> JobCandidate(j)']
  OBVIOUS
<1>v. \A j \in Jobs :
        /\ JobPhase(j)' = IF IsStored(record'[j]) THEN PhaseOf(record'[j])
                          ELSE IF j \in cancelled' THEN "cancelled"
                          ELSE IF file'[j] = "none" THEN "new" ELSE "gone"
        /\ JobCandidate(j)' = IF IsStored(record'[j]) THEN record'[j].candidate
                              ELSE NoAsset
  BY DEF JobPhase, JobCandidate, IsStored, PhaseOf, IsSealed
<1>k. ASSUME NEW j \in Jobs, record'[j] = record[j], SameFate(j)
      PROVE  kept(j)
  BY <1>k, <1>v DEF SameFate, JobPhase, JobCandidate
<1>s. ASSUME NEW j \in Jobs, IsStored(record[j]), IsStored(record'[j]),
             SamePlace(record[j], record'[j])
      PROVE  kept(j)
  BY <1>s, <1>v DEF JobPhase, JobCandidate, SamePlace
<1>0. ASSUME \A j \in Jobs : kept(j)
      PROVE  UNCHANGED Lifecycle!vars
  BY <1>0, <1>p DEF Lifecycle!vars
<1>1. ASSUME NEW k \in Jobs, \A j \in Jobs \ {k} : kept(j)
      PROVE  /\ \A p : JobPhase(k)' = p => P' = [P EXCEPT ![k] = p]
             /\ \A c : JobCandidate(k)' = c => C' = [C EXCEPT ![k] = c]
             /\ JobPhase(k)' = JobPhase(k) => P' = P
             /\ JobCandidate(k)' = JobCandidate(k) => C' = C
             /\ P[k] = JobPhase(k) /\ C[k] = JobCandidate(k)
  BY <1>1, <1>p
<1>2. ASSUME NEW J \in SUBSET Jobs, \A j \in Jobs \ J : kept(j),
             \A j \in J : /\ JobPhase(j) = "committed" /\ JobPhase(j)' = "gone"
                          /\ JobCandidate(j)' = NoAsset
      PROVE  Lifecycle!Next
  <2>1. P' = [j \in Jobs |-> IF j \in J THEN "gone" ELSE P[j]]
    BY <1>2, <1>p
  <2>2. C' = [j \in Jobs |-> IF j \in J THEN NoAsset ELSE C[j]]
    BY <1>2, <1>p
  <2>3. \A j \in J : P[j] = "committed"
    BY <1>2
  <2>4. Lifecycle!Discard(J)
    BY <2>1, <2>2, <2>3 DEF Lifecycle!Discard
  <2> QED BY <2>4 DEF Lifecycle!Next
<1> HIDE DEF P, C, kept
<1>3. CASE UNCHANGED vars
  <2>1. ASSUME NEW j \in Jobs PROVE kept(j)
    BY <1>3, <1>k DEF vars, queue, disk, mount, history, SameFate
  <2> QED BY <1>0, <2>1
<1>4. ASSUME UNCHANGED record, \A i \in Jobs : SameFate(i)
      PROVE  UNCHANGED Lifecycle!vars
  BY <1>0, <1>k, <1>4
<1>5. ASSUME NEW j \in Jobs, NEW a, Reads(j) \/ Outside(a)
      PROVE  UNCHANGED Lifecycle!vars
  BY <1>4, <1>5, RecordStays, FateStays
<1>6. ASSUME NEW j \in Jobs, Stands(j), \A i \in Jobs : SameFate(i)
      PROVE  UNCHANGED Lifecycle!vars
  <2>1. ASSUME NEW m, Updates(j, m), SamePlace(record[j], m)
        PROVE  UNCHANGED Lifecycle!vars
    <3>1. /\ record'[j] = m /\ IsStored(m) /\ OthersStay(j)
          /\ IsStored(record[j])
      BY <2>1, UpdatesFits DEF ServiceInvariant, QueueFits, Updates, Known
    <3>2. kept(j)
      BY <1>s, <2>1, <3>1
    <3>3. \A i \in Jobs \ {j} : kept(i)
      BY <1>6, <1>k, <3>1 DEF OthersStay
    <3> QED BY <1>0, <3>2, <3>3
  <2> QED BY <1>4, <1>6, <2>1 DEF Stands
<1>7. ASSUME NEW j \in Jobs, Rewritten(j)
      PROVE  UNCHANGED Lifecycle!vars
  BY <1>6, <1>7, RewrittenStands, FateStays
<1>8. ASSUME NEW j \in Jobs, \A i \in Jobs \ {j} : SameFate(i), OthersStay(j)
      PROVE  \A i \in Jobs \ {j} : kept(i)
  BY <1>8, <1>k DEF OthersStay
<1>9. ASSUME NEW j \in Jobs, NEW m, Updates(j, m), \A i \in Jobs : SameFate(i)
      PROVE  /\ \A i \in Jobs \ {j} : kept(i)
             /\ JobPhase(j) = PhaseOf(record[j]) /\ JobPhase(j)' = PhaseOf(m)
             /\ JobCandidate(j) = record[j].candidate
             /\ JobCandidate(j)' = m.candidate
  <2>1. record'[j] = m /\ IsStored(m) /\ OthersStay(j) /\ IsStored(record[j])
    BY <1>9, UpdatesFits DEF ServiceInvariant, QueueFits, Updates, Known
  <2> QED BY <1>8, <1>9, <1>v, <2>1 DEF JobPhase, JobCandidate
<1>10. ASSUME NEW j \in Jobs, Create(j)
       PROVE  Lifecycle!Next
  <2>1. Begins(j) /\ file[j] = "none" /\ j \notin cancelled
    BY <1>10, SavePuts DEF Create, Begins, ServiceInvariant, FilesFit, FileFits,
       CancelsFit, CancelFits
  <2>2. record'[j] = NewManifest /\ OthersStay(j) /\ IsStored(NewManifest)
    BY <2>1, BeginsFits, NewIsManifest, ManifestIsStored
    DEF ServiceInvariant, QueueFits
  <2>3. \A i \in Jobs \ {j} : SameFate(i)
    BY <1>10 DEF Create, SameFate, history, ServiceInvariant, OtherTypes
  <2>4. \A i \in Jobs \ {j} : kept(i)
    BY <1>8, <2>2, <2>3
  <2>5. JobPhase(j) = "new" /\ JobCandidate(j) = NoAsset
    BY <2>1 DEF Begins, JobPhase, JobCandidate
  <2>6. JobPhase(j)' = "draft" /\ JobCandidate(j)' = NoAsset
    BY <1>v, <2>2 DEF NewManifest, PhaseOf, IsSealed
  <2>7. Lifecycle!Draft(j)
    BY <1>1, <2>4, <2>5, <2>6 DEF Lifecycle!Draft, Lifecycle!Become, P, C
  <2> QED BY <2>7 DEF Lifecycle!Next
<1>11. ASSUME NEW j \in Jobs, SealFile(j) \/ SealFails(j)
       PROVE  Lifecycle!Next \/ UNCHANGED Lifecycle!vars
  <2>1. \A i \in Jobs : SameFate(i)
    BY <1>11, FateStays
  <2>2. CASE UNCHANGED record
    BY <1>4, <2>1, <2>2
  <2>3. CASE Seals(j)
    <3>1. /\ IsStored(record'[j]) /\ IsSealed(record'[j]) /\ OthersStay(j)
          /\ record'[j].state = "pending" /\ ~HasCandidate(record'[j])
      BY <2>3, SealsFits DEF ServiceInvariant, QueueFits
    <3>2. /\ IsStored(record[j]) /\ record[j].state = "writing"
          /\ ~IsSealed(record[j]) /\ ~HasCandidate(record[j])
      BY <2>3 DEF Seals, IsDraft, ServiceInvariant, RecordsProper, Proper, Sound,
         ValidManifest, ValidState, Known
    <3>3. /\ PhaseOf(record[j]) = "draft" /\ PhaseOf(record'[j]) = "sealed"
          /\ record[j].candidate = NoAsset /\ record'[j].candidate = NoAsset
      BY <3>1, <3>2 DEF PhaseOf, HasCandidate
    <3>4. /\ JobPhase(j) = "draft" /\ JobPhase(j)' = "sealed"
          /\ JobCandidate(j)' = JobCandidate(j)
      BY <1>v, <3>1, <3>2, <3>3 DEF JobPhase, JobCandidate
    <3>5. \A i \in Jobs \ {j} : kept(i)
      BY <1>8, <2>1, <3>1
    <3>6. Lifecycle!SealJob(j)
      BY <1>1, <3>4, <3>5 DEF Lifecycle!SealJob, Lifecycle!Become, P, C
    <3> QED BY <3>6 DEF Lifecycle!Next
  <2> QED BY <1>11, <2>2, <2>3, SealMoves
<1>12. ASSUME NEW j \in Jobs, Accepted(j) \/ AcceptFails(j)
       PROVE  Lifecycle!Next \/ UNCHANGED Lifecycle!vars
  <2>1. \A i \in Jobs : SameFate(i)
    BY <1>12, FateStays
  <2>2. CASE UNCHANGED record
    BY <1>4, <2>1, <2>2
  <2>3. ASSUME NEW m, Updates(j, m), PhaseOf(m) = "sealed", m.candidate \in Assets,
               PhaseOf(record[j]) = "sealed", record[j].candidate = NoAsset
        PROVE  Lifecycle!Next
    <3>1. /\ \A i \in Jobs \ {j} : kept(i)
          /\ JobPhase(j) = "sealed" /\ JobPhase(j)' = JobPhase(j)
          /\ JobCandidate(j) = NoAsset /\ JobCandidate(j)' = m.candidate
      BY <1>9, <2>1, <2>3
    <3>2. Lifecycle!Record(j)
      BY <1>1, <2>3, <3>1 DEF Lifecycle!Record, P, C
    <3> QED BY <3>2 DEF Lifecycle!Next
  <2> QED BY <1>12, <2>2, <2>3, AcceptMoves
<1>13. ASSUME NEW j \in Jobs, CommitJob(j) \/ CommitFails(j)
       PROVE  Lifecycle!Next \/ UNCHANGED Lifecycle!vars
  <2>1. \A i \in Jobs : SameFate(i)
    BY <1>13, FateStays
  <2>2. CASE UNCHANGED record
    BY <1>4, <2>1, <2>2
  <2>3. ASSUME NEW m, Updates(j, m), PhaseOf(m) = "committed",
               m.candidate = record[j].candidate,
               PhaseOf(record[j]) = "sealed", record[j].candidate # NoAsset
        PROVE  Lifecycle!Next
    <3>1. /\ \A i \in Jobs \ {j} : kept(i)
          /\ JobPhase(j) = "sealed" /\ JobPhase(j)' = "committed"
          /\ JobCandidate(j) # NoAsset /\ JobCandidate(j)' = JobCandidate(j)
      BY <1>9, <2>1, <2>3
    <3>2. Lifecycle!CommitJob(j)
      BY <1>1, <3>1 DEF Lifecycle!CommitJob, Lifecycle!Become, P, C
    <3> QED BY <3>2 DEF Lifecycle!Next
  <2> QED BY <1>13, <2>2, <2>3, CommitMoves
<1>14. ASSUME NEW j \in Jobs, BlockAfterFailure(j)
       PROVE  Lifecycle!Next \/ UNCHANGED Lifecycle!vars
  <2>1. \A i \in Jobs : SameFate(i)
    BY <1>14, FateStays
  <2>2. CASE Stands(j)
    BY <1>6, <2>1, <2>2
  <2>3. ASSUME NEW m, Updates(j, m), PhaseOf(m) = "sealed",
               m.candidate = record[j].candidate, PhaseOf(record[j]) = "committed"
        PROVE  Lifecycle!Next
    <3>1. /\ \A i \in Jobs \ {j} : kept(i)
          /\ JobPhase(j) = "committed" /\ JobPhase(j)' = "sealed"
          /\ JobCandidate(j)' = JobCandidate(j)
      BY <1>9, <2>1, <2>3
    <3>2. Lifecycle!Reopen(j)
      BY <1>1, <3>1 DEF Lifecycle!Reopen, Lifecycle!Become, P, C
    <3> QED BY <3>2 DEF Lifecycle!Next
  <2> QED BY <1>14, <2>2, <2>3, BlockMoves
<1>15. ASSUME NEW k \in Jobs, IsStored(record[k]), record[k].state = "committed",
              ~IsStored(record'[k]), SameFate(k)
       PROVE  /\ JobPhase(k) = "committed" /\ JobPhase(k)' = "gone"
              /\ JobCandidate(k)' = NoAsset
  <2>1. file[k] # "none" /\ k \notin cancelled
    BY <1>15 DEF ServiceInvariant, FilesFit, FileFits, CancelsFit, CancelFits
  <2> QED BY <1>v, <1>15, <2>1 DEF SameFate, JobPhase, PhaseOf
<1>16. ASSUME NEW j \in Jobs, RemoveJob(j)
       PROVE  Lifecycle!Next
  <2>1. /\ Known(j) /\ j \notin temp /\ IsStored(record[j])
        /\ record[j].state = "committed"
    BY <1>16, RemovableHolds DEF RemoveJob
  <2>2. ~IsStored(record'[j]) /\ OthersStay(j)
    BY <1>16, <2>1, DropFits DEF RemoveJob, ServiceInvariant, QueueFits
  <2>3. \A i \in Jobs : SameFate(i)
    BY <1>16, FateStays
  <2>4. \A i \in Jobs \ {j} : kept(i)
    BY <1>8, <2>2, <2>3
  <2>5. \A i \in {j} : /\ JobPhase(i) = "committed" /\ JobPhase(i)' = "gone"
                       /\ JobCandidate(i)' = NoAsset
    BY <1>15, <2>1, <2>2, <2>3
  <2>6. {j} \in SUBSET Jobs
    OBVIOUS
  <2> QED BY <1>2, <2>4, <2>5, <2>6
<1>17. ASSUME NEW j \in Jobs, CancelUpload(j) \/ CancelUploadFails(j)
       PROVE  Lifecycle!Next \/ UNCHANGED Lifecycle!vars
  <2>1. /\ IsStored(record[j]) /\ PhaseOf(record[j]) \in {"draft", "sealed"}
        /\ record[j].candidate = NoAsset /\ UNCHANGED file
    BY <1>17, CancelMoves
  <2>2. CASE UNCHANGED <<record, cancelled>>
    BY <1>4, <2>1, <2>2 DEF SameFate
  <2>3. CASE /\ cancelled' = cancelled \cup {j} /\ OthersStay(j)
             /\ \/ ~IsStored(record'[j])
                \/ /\ PhaseOf(record'[j]) = "cancelled"
                   /\ record'[j].candidate = NoAsset
    <3>1. \A i \in Jobs \ {j} : SameFate(i)
      BY <2>1, <2>3 DEF SameFate
    <3>2. \A i \in Jobs \ {j} : kept(i)
      BY <1>8, <2>3, <3>1
    <3>3. /\ JobPhase(j) \in {"draft", "sealed"} /\ JobCandidate(j) = NoAsset
          /\ JobPhase(j)' = "cancelled" /\ JobCandidate(j)' = NoAsset
      BY <1>v, <2>1, <2>3 DEF JobPhase, JobCandidate
    <3>4. Lifecycle!CancelJob(j)
      BY <1>1, <3>2, <3>3 DEF Lifecycle!CancelJob, Lifecycle!Become, P, C
    <3> QED BY <3>4 DEF Lifecycle!Next
  <2> QED BY <1>17, <2>2, <2>3, CancelMoves
<1>18. CASE Restart
  <2> DEFINE J == {i \in Jobs : /\ IsStored(record[i])
                                /\ record[i].state = "committed"
                                /\ ~IsStored(record'[i])}
  <2>1. \A i \in Jobs : SameFate(i)
    BY <1>18, FateStays
  <2>2. ASSUME NEW i \in Jobs \ J PROVE kept(i)
    <3>1. CASE record'[i] = record[i]
      BY <1>k, <2>1, <3>1
    <3>2. CASE /\ IsStored(record[i]) /\ ~Finished(i)
               /\ record'[i] = Recovered(record[i])
               /\ record[i].state = "writing"
      <4> DEFINE m == BlockDraft(record[i], InterruptedWrite)
      <4>1. Proper(record[i])
        BY <3>2 DEF ServiceInvariant, RecordsProper
      <4>2. Replaces(record[i], m) /\ m.state = "blocked"
        BY <3>2, <4>1, BlockDraftIsProper DEF ServiceErrors
      <4>3. m.candidate = record[i].candidate
        BY <4>1 DEF BlockDraft, Proper, Sound, Manifest
      <4>4. record'[i] = m
        BY <3>2 DEF Recovered
      <4> HIDE DEF m
      <4>5. SamePlace(record[i], m) /\ IsStored(m)
        BY <3>2, <4>2, <4>3, SealedStands, ProperIsStored DEF Replaces
      <4> QED BY <1>s, <3>2, <4>4, <4>5
    <3>3. CASE /\ IsStored(record[i]) /\ ~Finished(i)
               /\ record'[i] = Recovered(record[i])
               /\ record[i].state # "writing"
      BY <3>1, <3>3 DEF Recovered, Finished
    <3>4. CASE ~IsStored(record[i]) /\ record'[i] = NoManifest
      <4>1. ~IsStored(record'[i])
        BY <3>4 DEF IsStored
      <4> QED BY <1>v, <2>1, <3>4, <4>1 DEF SameFate, kept, JobPhase, JobCandidate
    <3>5. CASE Finished(i) /\ record'[i] = NoManifest
      <4>1. ~IsStored(record'[i])
        BY <3>5 DEF IsStored
      <4>2. IsStored(record[i]) /\ record[i].state = "cancelled"
        BY <2>2, <3>5, <4>1 DEF Finished
      <4>3. i \in cancelled /\ record[i].candidate = NoAsset
        BY <4>2 DEF ServiceInvariant, CancelsFit, CancelFits, RecordsProper, Proper,
           Sound, ValidManifest, ValidState, HasCandidate
      <4> QED
        BY <1>v, <2>1, <4>1, <4>2, <4>3
        DEF SameFate, kept, JobPhase, JobCandidate, PhaseOf
    <3> QED
      BY <1>18, <3>1, <3>2, <3>3, <3>4, <3>5, RestartRecords
      DEF ServiceInvariant, QueueFits
  <2>3. \A i \in J : /\ JobPhase(i) = "committed" /\ JobPhase(i)' = "gone"
                     /\ JobCandidate(i)' = NoAsset
    BY <1>15, <2>1
  <2>4. J \in SUBSET Jobs
    OBVIOUS
  <2> HIDE DEF J
  <2> QED BY <1>2, <2>2, <2>3, <2>4
<1>19. CASE \E a : Outside(a)
  <2>1. PICK a : Outside(a)
    BY <1>19
  <2>2. ASSUME NEW j \in Jobs PROVE UNCHANGED Lifecycle!vars
    BY <1>5, <2>1
  <2>3. CASE Jobs = {}
    BY <1>0, <2>3
  <2> QED BY <2>2, <2>3
<1>20. CASE \E j \in Jobs : Moved(j)
  BY <1>10, <1>11, <1>12, <1>13, <1>14, <1>16, <1>17, <1>20 DEF Moved
<1>21. CASE Next
  BY <1>5, <1>7, <1>18, <1>19, <1>20, <1>21, EveryStep
<1> QED
  BY <1>3, <1>21

(* The service implements the lifecycle of JobLifecycle (docs/research/        *)
(* queued-upload-recovery.md, "Smallest correct state machine"): lost answers, *)
(* failed writes, failed removals, user requests, foreign changes and restarts *)
(* move a job along it, and no other way.  However many finished jobs failed   *)
(* removals have left behind, the next start clears away only those, at once   *)
(* (service.py:558-569, 712-876, uploads.py:1381-1452).                        *)
THEOREM ServiceFollowsLifecycle == Spec => FollowsLifecycle
<1>1. Init => Lifecycle!Init
  <2> SUFFICES ASSUME Init PROVE Lifecycle!Init
    OBVIOUS
  <2>1. \A j \in Jobs : JobPhase(j) = "new" /\ JobCandidate(j) = NoAsset
    BY DEF Init, JobPhase, JobCandidate, IsStored
  <2> QED
    BY <2>1 DEF Lifecycle!Init
<1> QED
  BY <1>1, LifecycleStep, InvariantHolds, PTL
  DEF Spec, FollowsLifecycle, Lifecycle!Spec

-----------------------------------------------------------------------------
(* Names.  A record goes only when the worker removes the job, a cancel ends  *)
(* it, or the service restarts.                                               *)
LEMMA RecordsLast ==
  ASSUME ServiceInvariant, Next, NEW j \in Jobs,
         IsStored(record[j]), ~IsStored(record'[j])
  PROVE  RemoveJob(j) \/ CancelUpload(j) \/ CancelUploadFails(j) \/ Restart
<1>0. ASSUME UNCHANGED record PROVE FALSE
  BY <1>0
<1>1. ASSUME NEW i \in Jobs, OthersStay(i), i # j \/ IsStored(record'[i])
      PROVE  FALSE
  BY <1>1 DEF OthersStay
<1>2. ASSUME NEW i \in Jobs, NEW m, Updates(i, m) PROVE FALSE
  BY <1>1, <1>2, UpdatesFits DEF ServiceInvariant, QueueFits
<1>3. ASSUME NEW i \in Jobs, Reads(i) \/ \E a : Outside(a) PROVE FALSE
  BY <1>0, <1>3, RecordStays
<1>4. ASSUME NEW i \in Jobs, Rewritten(i) PROVE FALSE
  BY <1>0, <1>2, <1>4, RewrittenStands DEF Stands
<1>5. ASSUME NEW i \in Jobs, Create(i) PROVE FALSE
  <2>1. Begins(i)
    BY <1>5, SavePuts DEF Create, Begins, ServiceInvariant, FilesFit, FileFits
  <2> QED
    BY <1>1, <2>1, BeginsFits, NewIsManifest, ManifestIsStored
    DEF ServiceInvariant, QueueFits
<1>6. ASSUME NEW i \in Jobs, SealFile(i) \/ SealFails(i) PROVE FALSE
  <2>1. Seals(i)
    BY <1>0, <1>6, SealMoves
  <2> QED BY <1>1, <2>1, SealsFits DEF ServiceInvariant, QueueFits
<1>7. ASSUME NEW i \in Jobs,
             \/ Accepted(i) \/ AcceptFails(i) \/ CommitJob(i) \/ CommitFails(i)
             \/ BlockAfterFailure(i)
      PROVE  FALSE
  BY <1>0, <1>2, <1>7, AcceptMoves, CommitMoves, BlockMoves DEF Stands
<1>8. ASSUME NEW i \in Jobs, RemoveJob(i) PROVE i = j
  <2>1. OthersStay(i)
    BY <1>8, DropFits, RemovableHolds DEF RemoveJob, ServiceInvariant, QueueFits
  <2> QED BY <1>1, <2>1
<1>9. ASSUME NEW i \in Jobs, CancelUpload(i) \/ CancelUploadFails(i) PROVE i = j
  BY <1>0, <1>1, <1>9, CancelMoves
<1> QED
  BY <1>3, <1>4, <1>5, <1>6, <1>7, <1>8, <1>9, EveryStep DEF Moved

(* Release or a start gives a job its name. *)
LEMMA NamesArise ==
  ASSUME ServiceInvariant, Next, NEW j \in Jobs,
         file[j] # "pending", file'[j] = "pending"
  PROVE  DeferJob(j) \/ Restart
<1> USE DEF ServiceInvariant, OtherTypes
<1>1. ASSUME NEW i \in Jobs, Reads(i) \/ \E a : Outside(a) PROVE FALSE
  BY <1>1 DEF Reads, Outside, WriteFails, DeferRefused, FinishCancel, Tick, Show,
     AttemptRefused, BlockRefused, Post, Verify, Publish, RemoveFails, FinishUpload,
     UploadFinished, GoOnline, Refresh, NextDue, Measure, Wake, ForeignUpload,
     ForeignTrash, mount
<1>2. ASSUME NEW i \in Jobs, Rewritten(i), ~DeferJob(i) PROVE FALSE
  BY <1>2 DEF Rewritten, DeferFails, Deferrable, GiveUpFile, RetryUpload,
     RetryUploadFails, OpenAttempt, AttemptInvalid, AdmissionFails, Unavailable,
     Garbled, Rejected, LocalFailure, Mismatch, RetryLater, BlockJob, mount
<1>3. ASSUME NEW i \in Jobs, DeferJob(i) PROVE i = j
  BY <1>3 DEF DeferJob
<1>4. ASSUME NEW i \in Jobs, Moved(i) PROVE FALSE
  BY <1>4 DEF Moved, Create, SealFile, SealFails, Accepted, AcceptFails, CommitJob,
     CommitFails, BlockAfterFailure, BlockJob, RemoveJob, CancelUpload,
     CancelUploadFails, mount
<1> QED
  BY <1>1, <1>2, <1>3, <1>4, EveryStep DEF Rewritten

(* Who ends a job drops its name, or never does. *)
Ends(j) == At("finish", j) \/ j \in finishing \/ j \in cutShort

LEMMA EndsLast ==
  ASSUME Next, NEW j \in Jobs, Ends(j)
  PROVE  Ends(j)' \/ FinishUpload(j) \/ FinishCancel(j) \/ Restart
<1> USE DEF Ends, At
<1>1. ASSUME NEW i \in Jobs, Reads(i), ~FinishUpload(i), ~FinishCancel(i)
      PROVE  Ends(j)'
  BY <1>1 DEF Reads, WriteFails, DeferRefused, Tick, Show, AttemptRefused,
     BlockRefused, Post, Verify, Publish, RemoveFails, process, control, history
<1>2. ASSUME NEW i \in Jobs, FinishUpload(i) \/ FinishCancel(i), i # j
      PROVE  Ends(j)'
  BY <1>2 DEF FinishUpload, FinishCancel, process, control, history
<1>3. ASSUME NEW i \in Jobs, Rewritten(i)
      PROVE  Ends(j)'
  BY <1>3 DEF Rewritten, DeferJob, DeferFails, GiveUpFile, RetryUpload,
     RetryUploadFails, OpenAttempt, AttemptInvalid, AdmissionFails, Unavailable,
     Garbled, Rejected, LocalFailure, Mismatch, RetryLater, BlockJob, Talking,
     process, control, history
<1>4. ASSUME NEW i \in Jobs, Moved(i)
      PROVE  Ends(j)'
  BY <1>4 DEF Moved, Create, SealFile, SealFails, Accepted, AcceptFails, CommitJob,
     CommitFails, BlockAfterFailure, BlockJob, RemoveJob, CancelUpload,
     CancelUploadFails, process, control, history
<1>5. ASSUME NEW a, Outside(a)
      PROVE  Ends(j)'
  BY <1>5 DEF Outside, GoOnline, Refresh, NextDue, Measure, Wake, ForeignUpload,
     ForeignTrash, process, control, history
<1> QED
  BY <1>1, <1>2, <1>3, <1>4, <1>5, EveryStep

(* A staged name whose job has gone is about to be dropped: the worker or the  *)
(* control command that ended the job has still to call upload_finished, and   *)
(* that finds the file registered; or the cancel raised after the job had gone *)
(* (filesystem.py:688-709, service.py:1468-1474).                              *)
THEOREM NoGhostNames == Spec => []NoGhostName
<1>1. Init => NoGhostName
  BY DEF Init, NoGhostName
<1>2. ASSUME ServiceInvariant, NoGhostName, Next
      PROVE  NoGhostName'
  <2> SUFFICES ASSUME NEW j \in Jobs, file'[j] = "pending", ~IsStored(record'[j])
               PROVE  Ends(j)'
    BY DEF NoGhostName, Ends
  <2>1. ~Restart
    BY DEF Restart, Listed, Known
  <2>2. file[j] = "pending"
    <3>1. ASSUME DeferJob(j) PROVE IsStored(record'[j])
      <4>1. Rewritten(j) /\ IsStored(record[j])
        BY <3>1 DEF Rewritten, DeferJob, Deferrable, Known
      <4> QED
        BY <1>2, <4>1, RewrittenStands, UpdatesFits
        DEF Stands, ServiceInvariant, QueueFits
    <3> QED BY <1>2, <2>1, <3>1, NamesArise
  <2>3. CASE IsStored(record[j])
    <3>1. RemoveJob(j) \/ CancelUpload(j) \/ CancelUploadFails(j)
      BY <1>2, <2>1, <2>3, RecordsLast
    <3>2. CASE RemoveJob(j)
      BY <3>2 DEF RemoveJob, Busy, Ends, At
    <3>3. CASE CancelUpload(j) \/ CancelUploadFails(j)
      BY <1>2, <2>3, <3>3, CancelMoves DEF Ends
    <3> QED BY <3>1, <3>2, <3>3
  <2>4. CASE ~IsStored(record[j])
    <3>1. Ends(j)
      BY <1>2, <2>2, <2>4 DEF NoGhostName, Ends
    <3>2. ~FinishUpload(j) /\ ~FinishCancel(j)
      BY <1>2, <2>2 DEF FinishUpload, FinishCancel, UploadFinished, ServiceInvariant,
         OtherTypes
    <3> QED BY <1>2, <2>1, <3>1, <3>2, EndsLast
  <2> QED BY <2>3, <2>4
<1>3. ASSUME NoGhostName, UNCHANGED vars
      PROVE  NoGhostName'
  BY <1>3 DEF NoGhostName, vars, queue, disk, mount, process, control, history, At
<1> QED
  BY <1>1, <1>2, <1>3, InvariantHolds, PTL DEF Spec

=============================================================================
