-------------------------- MODULE AssetReplacement --------------------------
(***************************************************************************)
(* How a file saved over an existing asset replaces it: rename over a      *)
(* mounted name (filesystem.py), the replacement half of _process_upload   *)
(* (service.py), publish_replacement (catalog.py), and everything they     *)
(* race with: incremental and complete refreshes whose list of jobs was    *)
(* read before the catalog lock was free, restore and trash from the       *)
(* desktop, other clients of the server, and a crash and restart of the    *)
(* service at any point.                                                   *)
(*                                                                         *)
(* There is one job and the two assets it is about, named as in            *)
(* UploadService by the contents they were created from: Old holds the     *)
(* bytes the mounted name had when the module starts, New other bytes.  A  *)
(* job may be sealed with either.  Of an asset's record only what the      *)
(* checks compare is kept: updated_at is the counter at, and created_ns,   *)
(* favorite, visibility and the like are the one field look.  The upload   *)
(* marker says whether the asset was created by this job.                  *)
(*                                                                         *)
(* The worker holds the catalog lock from its first look at the catalog to *)
(* the commit, so the catalog changes under it only through pins.  A call  *)
(* of the queue is one step here, on a record of UploadManifest, and it    *)
(* may fail as in UploadService: before the record is replaced, after it,  *)
(* or in between, which leaves a manifest.json.tmp that every later write  *)
(* of the job fails over, until a restart sets the job aside.  Only the    *)
(* calls for a sealed replacement fail here; a draft's are UploadService's.*)
(* The setting remote_delete is on.                                        *)
(***************************************************************************)
EXTENDS UploadManifest, Sequences, FiniteSets

CONSTANTS
  Albums,     \* albums of the server
  NoManifest, \* the queue holds no record of the job
  NoRow,      \* no such asset, on the server or in the catalog
  MaxTrouble  \* bound: faults, crashes, user requests and foreign changes

Old == 0
New == 1

Row ==
  [name: {"target", "other"}, trashed: BOOLEAN, at: Nat, look: BOOLEAN]
Asset ==
  [trashed: BOOLEAN, at: Nat, look: BOOLEAN, ours: BOOLEAN]

ASSUME ReplacementAssumption ==
  /\ Assets = {Old, New}
  /\ NoManifest \notin Manifest
  /\ NoRow \notin Row \cup Asset
  /\ MaxTrouble \in Nat
  /\ {"upload-unavailable", "ambiguous-response", "candidate-mismatch",
      "local-state-failed"} \subseteq OtherErrors

VARIABLES
  record,    \* the manifest the queue keeps for the job
  temp,      \* a failed write has left a manifest.json.tmp with it
  quarantined, \* the record the last start has set aside instead
  waiting,   \* its next_attempt_ns has not come
  source,    \* what rename copied of the asset it replaces
  file,      \* the staged file of the mount
  catalog,   \* the row of each asset in the local catalog
  relations, \* the albums the catalog shows Old in
  pins,      \* the pins table
  remote,    \* the asset the server keeps
  albums,    \* the albums the server shows each asset in
  service,   \* "up", "down", or "refused": it could not start
  lock,      \* the catalog lock: its holder, then who waits, in order
  worker,    \* the upload worker, with its copy of the job
  refresher, \* the refresh worker, with the jobs it listed
  published, \* history: publish_replacement has committed
  late,      \* history: something the worker has read changed since
  touched,   \* history: what somebody else did to an asset
  wanted,    \* history: the user wants what the target name shows pinned
  trouble    \* what the environment did so far, bounded by MaxTrouble

disk == <<record, temp>>
queue == <<disk, quarantined, waiting, source>>
local == <<catalog, relations, pins>>
server == <<remote, albums>>
processes == <<service, lock, worker, refresher>>
history == <<published, late, touched, wanted>>
vars == <<queue, file, local, server, processes, history, trouble>>

IsStored(m) == m # NoManifest
IsReplacement(m) == IsStored(m) /\ m.op = "replacement"
Exists(row) == row # NoRow

(* A catalog row is visible in the mount under its name. *)
Shows(a) == Exists(catalog[a]) /\ ~catalog[a].trashed
Named(a, n) == Exists(catalog[a]) /\ catalog[a].name = n

Unsuppressed == [keep |-> {}, hide |-> {}, sign |-> {}]
Resting == [pc |-> "idle", job |-> NoManifest, policy |-> Unsuppressed]
Checking == [pc |-> "check", job |-> NoManifest]

Trouble == trouble < MaxTrouble /\ trouble' = trouble + 1

(* _write_manifest succeeds: the temporary file must not exist yet. *)
Save(m) == ~temp /\ record' = m /\ UNCHANGED temp

(* It raises before the record is replaced. *)
Unwritten == temp' \in {temp, TRUE} /\ UNCHANGED record

(* A write that fails over a leftover is no new trouble. *)
Fault == IF temp THEN UNCHANGED trouble ELSE Trouble

(* The service is up, Old has the target name, is pinned and is in albums,    *)
(* and a file has been created next to it.                                    *)
Init ==
  /\ record = NewManifest /\ temp = FALSE /\ quarantined = NoManifest
  /\ waiting = FALSE /\ source = NoRow
  /\ file = "open"
  /\ catalog = [a \in Assets |->
       IF a = Old
         THEN [name |-> "target", trashed |-> FALSE, at |-> 0, look |-> FALSE]
         ELSE NoRow]
  /\ relations = Albums
  /\ wanted = TRUE /\ pins = {Old}
  /\ remote = [a \in Assets |->
       IF a = Old
         THEN [trashed |-> FALSE, at |-> 0, look |-> FALSE, ours |-> FALSE]
         ELSE NoRow]
  /\ albums = [a \in Assets |-> IF a = Old THEN Albums ELSE {}]
  /\ service = "up" /\ lock = <<>> /\ worker = Checking /\ refresher = Resting
  /\ published = FALSE /\ late = FALSE /\ touched = {}
  /\ trouble = 0

-----------------------------------------------------------------------------
(* The mount. *)

(* rename looks the target up and copies it, then waits for the file's lock. *)
RenameLook ==
  /\ service = "up" /\ file \in {"open", "sealed"}
  /\ source = NoRow /\ Named(Old, "target") /\ Shows(Old)
  /\ source' = [at |-> catalog[Old].at, look |-> catalog[Old].look,
                albums |-> relations]
  /\ UNCHANGED <<disk, quarantined, waiting, file, local, server, processes,
                 history, trouble>>

RenameMark ==
  /\ service = "up" /\ file \in {"open", "sealed"}
  /\ source # NoRow /\ IsStored(record) /\ CanMarkReplacement(record)
  /\ Save(MarkReplacement(record))
  /\ UNCHANGED <<quarantined, waiting, source, file, local, server, processes,
                 history, trouble>>

(* The last handle is released: the file is sealed.  An ordinary one is put   *)
(* off by a second, in a call of its own that UploadService separates, so that*)
(* a rename can still make it a replacement; a replacement is due at once.    *)
SealFile ==
  /\ service = "up" /\ file = "open"
  /\ \E b \in Assets :
       Save(IF record.op = "ordinary" THEN Retry(Seal(record, b), NoError)
            ELSE Seal(record, b))
  /\ waiting' = (record.op = "ordinary")
  /\ file' = "sealed"
  /\ UNCHANGED <<quarantined, source, local, server, processes, history, trouble>>

(* Time passes.  What is not renamed within the second is an ordinary upload. *)
Tick ==
  /\ waiting /\ IsReplacement(record)
  /\ waiting' = FALSE
  /\ UNCHANGED <<disk, quarantined, source, file, local, server, processes,
                 history, trouble>>

-----------------------------------------------------------------------------
(* The catalog lock is fair. *)

QueueFor(w) == lock' = Append(lock, w)
Holds(w) == lock # <<>> /\ Head(lock) = w
Release == lock' = Tail(lock)

-----------------------------------------------------------------------------
(* What the worker compares. *)

(* _replacement_source_matches *)
SourceMatches(x, allowTrashed) ==
  /\ x.look = source.look
  /\ x.at = source.at \/ (allowTrashed /\ x.trashed)
  /\ allowTrashed \/ ~x.trashed

(* _upload_matches, for an asset read with its marker. *)
UploadMatches(m, a) == remote[a].ours /\ ~remote[a].trashed /\ a = m.bytes

(* _replacement_candidate_matches *)
CandidateMatches(row, x) == row.look = x.look

VerifiedReplacing(m) == m.state = "replacing" /\ m.verified

(* The catalog transaction of an earlier attempt has committed. *)
AlreadyPublished(m) ==
  LET c == m.candidate IN
  /\ VerifiedReplacing(m)
  /\ Exists(catalog[Old]) /\ catalog[Old].trashed
  /\ SourceMatches(catalog[Old], TRUE)
  /\ Named(c, "target") /\ Shows(c) /\ c = m.bytes
  /\ CandidateMatches(catalog[Old], catalog[c])

(* The catalog still shows the asset that rename copied. *)
SourceInCatalog ==
  /\ Named(Old, "target")
  /\ SourceMatches(catalog[Old], FALSE)
  /\ relations = source.albums

-----------------------------------------------------------------------------
(* _process_upload, for a replacement.                                        *)

At(pc) == worker.pc = pc
Goto(pc) == worker' = [worker EXCEPT !.pc = pc]
With(pc, m) == worker' = [pc |-> pc, job |-> m]

(* The steps below change neither the mount nor the history. *)
Quiet == UNCHANGED <<quarantined, source, file, service, refresher, published,
                     touched, wanted>>

(* next_due: the job as it is now. *)
Pick ==
  /\ service = "up" /\ At("check")
  /\ IsReplacement(record) /\ IsWorkable(record) /\ ~waiting
  /\ With("begin", record)
  /\ QueueFor("worker")
  /\ late' = FALSE
  /\ Quiet /\ UNCHANGED <<disk, waiting, local, server, trouble>>

(* _block_upload: a job that cannot be blocked, because it has meanwhile gone *)
(* or cannot be written, is only logged, and stays as it is.                  *)
BlockRecord(e) ==
  IF IsStored(record) /\ CanBlock(record)
    THEN \/ Save(Block(record, e)) /\ UNCHANGED trouble
         \/ Unwritten /\ Fault
    ELSE UNCHANGED <<disk, trouble>>

(* A check fails: the job is blocked under the lock, and that is all. *)
Mismatch ==
  /\ BlockRecord("candidate-mismatch")
  /\ worker' = Checking /\ Release
  /\ UNCHANGED <<waiting, local, server, late>>

(* Mutation: an exception leaves the lock behind. *)
RaiseLocked(why) ==
  /\ Goto(why)
  /\ UNCHANGED <<disk, waiting, local, server, lock, late, trouble>>

(* An exception leaves the lock, and only then is told to the queue. *)
Raise(why) ==
  /\ Goto(why) /\ Release
  /\ UNCHANGED <<disk, waiting, local, server, late, trouble>>

(* A step that only moves on. *)
Continue(pc) ==
  /\ Goto(pc)
  /\ UNCHANGED <<disk, waiting, local, server, lock, late, trouble>>

(* Reading an asset that is gone is refused. *)
Read(a, ok, pc) ==
  /\ Quiet
  /\ IF ~Exists(remote[a]) THEN Raise("refused")
     ELSE IF ok THEN Continue(pc) ELSE Mismatch

(* The first look at the catalog. *)
Begin ==
  /\ At("begin") /\ Holds("worker")
  /\ Quiet
  /\ IF AlreadyPublished(worker.job) THEN Continue("notify")
     ELSE IF SourceInCatalog THEN Continue("source") ELSE Mismatch

ReadSource ==
  /\ At("source")
  /\ Read(Old,
          SourceMatches(remote[Old], VerifiedReplacing(worker.job)),
          IF worker.job.state = "replacing" THEN "candidate"
          ELSE IF /\ worker.job.state = "pending" /\ worker.job.attempts = 0
                  /\ worker.job.bytes = Old
            THEN "cancel" ELSE "open")

(* Nothing was changed: the job is cancelled if it is still the one read.     *)
(* Another revision is a ValueError, and no job one of the queue's errors.    *)
CancelUnchanged ==
  /\ At("cancel")
  /\ UNCHANGED <<quarantined, source, service, refresher, published, touched,
                 wanted>>
  /\ IF ~IsStored(record)
       THEN /\ worker' = Checking /\ Release
            /\ UNCHANGED <<disk, waiting, file, local, server, late, trouble>>
       ELSE IF record.revision # worker.job.revision
         THEN Raise("local") /\ UNCHANGED file
         ELSE /\ Save(NoManifest) /\ waiting' = FALSE /\ file' = "gone"
              /\ worker' = Checking /\ Release
              /\ UNCHANGED <<local, server, late, trouble>>

Admissible ==
  /\ IsStored(record) /\ record.revision = worker.job.revision
  /\ CanAttempt(record)

(* open_attempt; what it finds in the payload is UploadQueue's. *)
OpenAttempt ==
  /\ At("open")
  /\ Quiet
  /\ IF Admissible
       THEN /\ Save(Admit(Provisional(record)))
            /\ waiting' = FALSE
            /\ With(IF HasCandidate(record) THEN "candidate" ELSE "send",
                    record')
            /\ UNCHANGED <<local, server, lock, late, trouble>>
       ELSE /\ worker' = Checking /\ Release
            /\ UNCHANGED <<disk, waiting, local, server, late, trouble>>

(* The server keeps the asset it has for these bytes, and a new one gets the  *)
(* source's dates and flags.  Its marker is stored after it, and may not be.  *)
Post ==
  LET a == worker.job.bytes IN
  /\ At("send")
  /\ IF Exists(remote[a]) THEN UNCHANGED remote
     ELSE \E m \in BOOLEAN :
            remote' = [remote EXCEPT ![a] =
              [trashed |-> FALSE, at |-> 0, look |-> catalog[Old].look,
               ours |-> m]]
  /\ Goto("reply")
  /\ Quiet /\ UNCHANGED <<disk, waiting, local, albums, lock, late, trouble>>

(* created or duplicate: record_candidate. *)
Accepted ==
  /\ At("reply")
  /\ Save(RecordCandidate(record, record.bytes))
  /\ With("candidate", record')
  /\ Quiet /\ UNCHANGED <<waiting, local, server, lock, late, trouble>>

CandidateIsGood ==
  LET c == worker.job.candidate IN
  /\ Exists(remote[c]) /\ UploadMatches(worker.job, c)
  /\ CandidateMatches(catalog[Old], remote[c])

(* The candidate is read, and found good: begin_replacing, which leaves a job *)
(* that is replacing already as it is.                                        *)
ReadCandidate ==
  /\ At("candidate")
  /\ Quiet
  /\ IF CandidateIsGood
       THEN /\ IF record.state = "replacing" THEN UNCHANGED disk
               ELSE Save(BeginReplacing(record))
            /\ waiting' = FALSE
            /\ With("reread", record')
            /\ UNCHANGED <<local, server, lock, late, trouble>>
     ELSE IF Exists(remote[worker.job.candidate]) THEN Mismatch
     ELSE Raise("refused")

RereadSource ==
  /\ At("reread")
  /\ Read(Old, SourceMatches(remote[Old], TRUE),
          IF remote[Old].trashed THEN "recheck" ELSE "albums")

(* _stable_album_ids, against the albums that rename copied. *)
HasExpectedAlbums(a) == albums[a] = source.albums

(* The source is in the trash: only the candidate's albums are left to check. *)
RecheckAlbums ==
  /\ At("recheck")
  /\ Quiet
  /\ IF HasExpectedAlbums(worker.job.candidate) THEN Continue("final")
     ELSE Mismatch

ReadAlbums ==
  /\ At("albums")
  /\ Quiet
  /\ IF HasExpectedAlbums(Old) THEN Continue("copy") ELSE Mismatch

CopyAlbums ==
  LET c == worker.job.candidate IN
  /\ At("copy")
  /\ Quiet
  /\ IF Exists(remote[Old]) /\ Exists(remote[c])
       THEN /\ albums' = [albums EXCEPT ![c] = @ \cup albums[Old]]
            /\ Goto("verify")
            /\ UNCHANGED <<disk, waiting, local, remote, lock, late, trouble>>
       ELSE Raise("refused")

(* Mutation: only the candidate's albums are read again. *)
VerifyCandidateOnly ==
  /\ At("verify")
  /\ Read(Old, HasExpectedAlbums(worker.job.candidate), "trash")

(* Both album lists and the source are read again, right before the trash. *)
VerifyCopy ==
  /\ At("verify")
  /\ Read(Old,
          /\ HasExpectedAlbums(Old) /\ HasExpectedAlbums(worker.job.candidate)
          /\ SourceMatches(remote[Old], FALSE),
          "trash")

InTrash(x) == [x EXCEPT !.trashed = TRUE, !.at = @ + 1]
OutOfTrash(x) == [x EXCEPT !.trashed = FALSE, !.at = @ + 1]

(* DELETE with force false.  Whether it was answered is not asked here. *)
TrashSource ==
  /\ At("trash")
  /\ IF Exists(remote[Old]) /\ ~remote[Old].trashed
       THEN remote' = [remote EXCEPT ![Old] = InTrash(@)]
       ELSE UNCHANGED remote
  /\ Goto("confirm")
  /\ Quiet /\ UNCHANGED <<disk, waiting, local, albums, lock, late, trouble>>

(* The request is lost, and the worker goes and looks. *)
TrashLost ==
  /\ At("trash")
  /\ Trouble
  /\ Goto("confirm")
  /\ Quiet /\ UNCHANGED <<disk, waiting, local, server, lock, late>>

(* A source that is still live is the error of the lost request, or one that  *)
(* asks to come back.                                                         *)
ConfirmTrash ==
  /\ At("confirm")
  /\ Read(Old, SourceMatches(remote[Old], TRUE),
          IF remote[Old].trashed THEN "final" ELSE "unconfirmed")

Unconfirmed ==
  /\ At("unconfirmed")
  /\ Quiet
  /\ Raise("unavailable") \/ Raise("garbled")

(* publish_replacement, one transaction: the candidate takes the name and the *)
(* pin, and the source is kept as a trashed row under another name.           *)
CanPublish(c) == Shows(Old) /\ ~Exists(catalog[c]) /\ c # Old

PublishRows(c) ==
  /\ catalog' = [catalog EXCEPT
       ![Old].name = "other", ![Old].trashed = TRUE,
       ![c] = [name |-> "target", trashed |-> FALSE, at |-> remote[c].at,
               look |-> remote[c].look]]
  /\ pins' = (pins \ {Old, c}) \cup (IF Old \in pins THEN {c} ELSE {})

(* The last look at the candidate, and the publication. *)
Publish ==
  LET c == worker.job.candidate IN
  /\ At("final")
  /\ UNCHANGED <<quarantined, source, file, service, refresher, touched, wanted>>
  /\ IF CandidateIsGood /\ CanPublish(c)
       THEN /\ PublishRows(c)
            /\ published' = TRUE
            /\ Goto("notify")
            /\ UNCHANGED <<disk, waiting, relations, server, lock, late, trouble>>
       ELSE /\ UNCHANGED published
            /\ IF ~Exists(remote[c]) THEN Raise("refused")
               ELSE IF CandidateIsGood THEN Raise("local") ELSE Mismatch

(* on_uploaded and the cache's transfer of the pin have succeeded: commit. *)
CommitJob ==
  /\ At("notify")
  /\ Save(Commit(record))
  /\ With("remove", record') /\ Release
  /\ Quiet /\ UNCHANGED <<waiting, local, server, late, trouble>>

(* The job goes, and upload_finished takes the staged file off its name. *)
RemoveJob ==
  /\ At("remove")
  /\ Save(NoManifest) /\ file' = "gone"
  /\ worker' = Checking
  /\ UNCHANGED <<quarantined, waiting, source, local, server, service, lock,
                 refresher, history, trouble>>

(* A removal that fails before the job has left its directory is only logged: *)
(* the committed record waits for a restart, and the mount drops the name.    *)
RemoveFails ==
  /\ At("remove")
  /\ Trouble
  /\ file' = "gone"
  /\ worker' = Checking
  /\ UNCHANGED <<queue, local, server, service, lock, refresher, history>>

(* Another call of the queue raises: the record is as it was, or as the call  *)
(* would have left it.  An attempt writes twice, and a cancel writes and then *)
(* removes.                                                                   *)
QueueFails ==
  /\ Fault
  /\ \/ /\ At("cancel") /\ IsStored(record)
        /\ record.revision = worker.job.revision
        /\ Unwritten \/ Save(Cancel(record)) \/ Save(NoManifest)
     \/ /\ At("open") /\ Admissible
        /\ \/ Unwritten \/ Save(Admit(Provisional(record)))
           \/ ~temp /\ record' = Provisional(record) /\ temp' \in BOOLEAN
     \/ /\ At("reply")
        /\ Unwritten \/ Save(RecordCandidate(record, record.bytes))
     \/ /\ At("candidate") /\ CandidateIsGood /\ record.state # "replacing"
        /\ Unwritten \/ Save(BeginReplacing(record))
     \/ At("notify") /\ (Unwritten \/ Save(Commit(record)))
  /\ Goto("local") /\ Release
  /\ Quiet /\ UNCHANGED <<waiting, local, server, late>>

(* A request fails: no answer or one that asks to come back, an answer that   *)
(* cannot be understood, a refusal, or an error of this machine.              *)
Talking ==
  worker.pc \in {"source", "send", "reply", "candidate", "reread", "recheck",
                 "albums", "copy", "verify", "trash", "confirm", "final",
                 "notify"}

Fail ==
  /\ Talking
  /\ Trouble
  /\ \E why \in {"unavailable", "garbled", "refused", "local"} :
       /\ At("trash") => why \in {"refused", "local"}
       /\ Goto(why)
  /\ Release
  /\ Quiet /\ UNCHANGED <<disk, waiting, local, server, late>>

(* _retry_upload: as with _block_upload, a failure is only logged. *)
RetryRecord(e) ==
  IF IsStored(record) /\ CanRetry(record)
    THEN \/ Save(Retry(record, e)) /\ waiting' = TRUE /\ UNCHANGED trouble
         \/ Unwritten /\ Fault /\ UNCHANGED waiting
    ELSE UNCHANGED <<disk, waiting, trouble>>

(* The except clauses, outside the lock. *)
Handle ==
  /\ CASE At("unavailable") -> RetryRecord("upload-unavailable")
       [] At("garbled") ->
            IF ~HasCandidate(worker.job) \/ worker.job.state = "replacing"
              THEN RetryRecord("ambiguous-response")
              ELSE BlockRecord("candidate-mismatch") /\ UNCHANGED waiting
       [] At("refused") -> BlockRecord(UploadRejected) /\ UNCHANGED waiting
       [] At("local") -> BlockRecord("local-state-failed") /\ UNCHANGED waiting
       [] OTHER -> FALSE
  /\ worker' = Checking
  /\ Quiet /\ UNCHANGED <<local, server, lock, late>>

-----------------------------------------------------------------------------
(* The refresh worker, and what it leaves alone because of a replacement. *)

Relevant(m) == IsReplacement(m) /\ IsSealed(m)

(* _replacement_refresh_policy for the jobs m, against the catalog as it is.  *)
(* It raises when the source's row has gone.                                  *)
PolicyFails(m) == Relevant(m) /\ ~Exists(catalog[Old])

CandidateStays(m) ==
  /\ HasCandidate(m) /\ Exists(catalog[m.candidate])
  /\ \/ catalog[Old].trashed /\ Named(m.candidate, "target")
     \/ /\ m.state = "blocked"
        /\ m.error \in {"candidate-mismatch", UploadRejected}

(* Mutation: a candidate is hidden even when it has been published. *)
PolicyHiding(m) ==
  IF ~Relevant(m) THEN Unsuppressed
  ELSE [keep |-> {Old},
        hide |-> IF HasCandidate(m) THEN {m.candidate} ELSE {},
        sign |-> IF HasCandidate(m) THEN {} ELSE {m.bytes}]

Policy(m) ==
  IF ~Relevant(m) THEN Unsuppressed
  ELSE LET stays == IF CandidateStays(m) THEN {m.candidate} ELSE {} IN
       [keep |-> {Old} \cup stays,
        hide |-> IF HasCandidate(m) THEN {m.candidate} \ stays ELSE {},
        sign |-> IF HasCandidate(m) THEN {} ELSE {m.bytes}]

(* _finish_staged over the rows that were not deleted: a known asset keeps    *)
(* its name, and a new one gets the name it was uploaded with if it is free.  *)
Staged(a, rows) ==
  LET free == \A b \in Assets : Exists(rows[b]) => rows[b].name # "target"
  IN  [name |-> IF Exists(rows[a]) THEN rows[a].name
                ELSE IF remote[a].ours /\ free THEN "target" ELSE "other",
       trashed |-> remote[a].trashed, at |-> remote[a].at,
       look |-> remote[a].look]

Merged(rows, listed) ==
  [a \in Assets |-> IF a \in listed THEN Staged(a, rows) ELSE rows[a]]

Listed == {a \in Assets : Exists(remote[a])}

(* A complete sweep deletes what the server does not list, or must not show. *)
FullyMerged(p) ==
  Merged([a \in Assets |->
            IF a \in p.keep \/ (a \in Listed /\ a \notin p.hide)
              THEN catalog[a] ELSE NoRow],
         Listed \ (p.keep \cup p.hide \cup p.sign))

Loud == UNCHANGED <<queue, file, server, service, worker, history, trouble>>

(* The loop lists the jobs.  An incremental refresh decides at once what it   *)
(* will leave alone, and both then wait for the catalog lock.                 *)
List ==
  /\ service = "up" /\ refresher.pc = "idle"
  /\ \/ /\ ~PolicyFails(record)
        /\ refresher' = [pc |-> "incremental", job |-> record,
                         policy |-> Policy(record)]
     \/ refresher' = [pc |-> "full", job |-> record, policy |-> Unsuppressed]
  /\ QueueFor("refresher")
  /\ Loud /\ UNCHANGED local

(* An incremental refresh sees some of the assets, and deletes none. *)
RefreshIncremental ==
  LET p == refresher.policy IN
  /\ refresher.pc = "incremental" /\ Holds("refresher")
  /\ \E seen \in SUBSET (Listed \ (p.keep \cup p.hide \cup p.sign)) :
       catalog' = Merged(catalog, seen)
  /\ refresher' = Resting /\ Release
  /\ Loud /\ UNCHANGED <<relations, pins>>

(* Too many pages, or an answer that cannot be understood: a complete refresh *)
(* with the list of jobs that is at hand.                                     *)
FallBack ==
  /\ refresher.pc = "incremental" /\ Holds("refresher")
  /\ Trouble
  /\ refresher' = [refresher EXCEPT !.pc = "full"]
  /\ lock' = Append(Tail(lock), "refresher")
  /\ UNCHANGED <<queue, file, local, server, service, worker, history>>

(* A complete refresh decides under the lock, for the jobs it listed.         *)
(* Relations are only reconciled when none of these was being worked on.      *)
RefreshFull ==
  LET m == refresher.job IN
  /\ refresher.pc = "full" /\ Holds("refresher")
  /\ IF PolicyFails(m)
       THEN /\ refresher' = Resting /\ Release
            /\ UNCHANGED catalog
       ELSE /\ catalog' = FullyMerged(Policy(m))
            /\ IF Relevant(m) /\ IsWorkable(m)
                 THEN refresher' = Resting /\ Release
                 ELSE /\ refresher' = [refresher EXCEPT !.pc = "reconcile"]
                      /\ lock' = Append(Tail(lock), "refresher")
  /\ Loud /\ UNCHANGED <<relations, pins>>

(* reconcile_album_people *)
Reconcile ==
  /\ refresher.pc = "reconcile" /\ Holds("refresher")
  /\ relations' = albums[Old]
  /\ refresher' = Resting /\ Release
  /\ Loud /\ UNCHANGED <<catalog, pins>>

-----------------------------------------------------------------------------
(* The desktop. *)

Elsewhere == UNCHANGED <<queue, file, server, processes, published>>

(* Pin and unpin what the target name shows. *)
TogglePin(a) ==
  /\ service = "up" /\ Named(a, "target") /\ Shows(a)
  /\ Trouble
  /\ pins' = IF wanted THEN pins \ {a} ELSE pins \cup {a}
  /\ wanted' = ~wanted
  /\ Elsewhere /\ UNCHANGED <<catalog, relations, late, touched>>

(* remote_restore of an asset the catalog shows as trashed. *)
RestoreHere(a) ==
  /\ service = "up" /\ lock = <<>>
  /\ Exists(catalog[a]) /\ catalog[a].trashed /\ Exists(remote[a])
  /\ Trouble
  /\ remote' = [remote EXCEPT ![a] = OutOfTrash(@)]
  /\ catalog' = [catalog EXCEPT ![a].trashed = FALSE]
  /\ touched' = touched \cup {"restored"}
  /\ UNCHANGED <<queue, file, relations, pins, albums, processes, published,
                 late, wanted>>

(* unlink of a name that no staged file covers: remote_trash. *)
TrashHere(a) ==
  /\ service = "up" /\ lock = <<>>
  /\ Shows(a) /\ Exists(remote[a])
  /\ Named(a, "target") =>
       file = "gone" \/ (IsStored(record) /\ record.op = "ordinary")
  /\ Trouble
  /\ remote' = [remote EXCEPT ![a] = InTrash(@)]
  /\ catalog' = [catalog EXCEPT ![a].trashed = TRUE]
  /\ touched' = touched \cup {"removed"}
  /\ UNCHANGED <<queue, file, relations, pins, albums, processes, published,
                 late, wanted>>

(* retry-upload and cancel-upload, confirmed at the revision that is shown. *)
RetryUpload ==
  /\ service = "up" /\ IsReplacement(record)
  /\ CanRetryAt(record, record.revision)
  /\ Trouble
  /\ Save(Retry(record, NoError)) /\ waiting' = FALSE
  /\ UNCHANGED <<quarantined, source, file, local, server, processes, history>>

CancelUpload ==
  /\ service = "up" /\ IsReplacement(record)
  /\ CanCancel(record, record.revision)
  /\ Save(NoManifest) /\ waiting' = FALSE /\ file' = "gone"
  /\ UNCHANGED <<quarantined, source, local, server, processes, history, trouble>>

(* Either raises: a write leaves its temporary file, or a cancel gets no      *)
(* further than to its record, or to the end but not to upload_finished.      *)
RetryUploadFails ==
  /\ service = "up" /\ IsReplacement(record)
  /\ CanRetryAt(record, record.revision)
  /\ ~temp /\ Trouble
  /\ temp' = TRUE
  /\ UNCHANGED <<record, quarantined, waiting, source, file, local, server,
                 processes, history>>

CancelUploadFails ==
  /\ service = "up" /\ IsReplacement(record)
  /\ CanCancel(record, record.revision)
  /\ ~temp /\ Trouble
  /\ \/ temp' = TRUE /\ UNCHANGED <<record, waiting>>
     \/ (Save(Cancel(record)) \/ Save(NoManifest)) /\ waiting' = FALSE
  /\ UNCHANGED <<quarantined, source, file, local, server, processes, history>>

-----------------------------------------------------------------------------
(* Other clients of the server. *)

(* What the worker has read of an asset, and relies on until it trashes. *)
ReliedOn(a) ==
  IF a = Old THEN At("trash")
  ELSE worker.pc \in {"reread", "albums", "copy", "verify", "trash"}

Foreign(a) ==
  /\ Trouble
  /\ late' = (late \/ ReliedOn(a))
  /\ UNCHANGED <<queue, file, local, processes, published, wanted>>

ForeignUpload ==
  /\ ~Exists(remote[New])
  /\ remote' = [remote EXCEPT ![New] =
       [trashed |-> FALSE, at |-> 0, look |-> FALSE, ours |-> FALSE]]
  /\ Foreign(New) /\ UNCHANGED <<albums, touched>>

ForeignEdit(a) ==
  /\ Exists(remote[a])
  /\ \E look \in BOOLEAN :
       remote' = [remote EXCEPT ![a].look = look, ![a].at = @ + 1]
  /\ Foreign(a) /\ UNCHANGED <<albums, touched>>

ForeignTrash(a) ==
  /\ Exists(remote[a]) /\ ~remote[a].trashed
  /\ remote' = [remote EXCEPT ![a] = InTrash(@)]
  /\ touched' = touched \cup {"removed"}
  /\ Foreign(a) /\ UNCHANGED albums

ForeignRestore(a) ==
  /\ Exists(remote[a]) /\ remote[a].trashed
  /\ remote' = [remote EXCEPT ![a] = OutOfTrash(@)]
  /\ touched' = touched \cup {"restored"}
  /\ Foreign(a) /\ UNCHANGED albums

ForeignDelete(a) ==
  /\ Exists(remote[a])
  /\ remote' = [remote EXCEPT ![a] = NoRow]
  /\ albums' = [albums EXCEPT ![a] = {}]
  /\ touched' = touched \cup {"removed"}
  /\ Foreign(a)

ForeignAlbum(a) ==
  /\ Exists(remote[a])
  /\ \E b \in Albums :
       albums' = [albums EXCEPT ![a] = IF b \in @ THEN @ \ {b} ELSE @ \cup {b}]
  /\ Foreign(a) /\ UNCHANGED <<remote, touched>>

-----------------------------------------------------------------------------
(* The service dies, and a later one starts. *)

Crash ==
  /\ service = "up"
  /\ Trouble
  /\ service' = "down" /\ lock' = <<>>
  /\ worker' = Checking /\ refresher' = Resting
  /\ UNCHANGED <<queue, file, local, server, history>>

(* Mutation: startup takes a verified candidate for a finished replacement. *)
RecoveredVerified(m) ==
  IF ~IsStored(m) \/ m.verified THEN NoManifest
  ELSE IF m.state = "writing" THEN BlockDraft(m, InterruptedWrite) ELSE m

(* The recovery of UploadQueue: a committed or cancelled job is finished and  *)
(* a draft is given up.                                                       *)
Recovered(m) ==
  IF ~IsStored(m) \/ m.state \in {"committed", "cancelled"} THEN NoManifest
  ELSE IF m.state = "writing" THEN BlockDraft(m, InterruptedWrite) ELSE m

(* What is in the queue's directory. *)
OnDisk == IF IsStored(quarantined) THEN quarantined ELSE record

(* A job is set aside for its leftover, or when its recovery fails. *)
MayQuarantine ==
  \/ temp
  \/ /\ IsStored(OnDisk)
     /\ OnDisk.state \in {"writing", "committed", "cancelled"}

(* Startup ends with a complete refresh, and with the service if that fails.  *)
(* The mount then covers the names of what is still queued.                   *)
Start ==
  \E aside \in BOOLEAN :
    LET m == IF aside THEN NoManifest ELSE Recovered(OnDisk) IN
    /\ service = "down"
    /\ temp => aside
    /\ aside => MayQuarantine
    /\ record' = m /\ waiting' = (waiting /\ IsStored(m))
    /\ quarantined' = IF aside THEN OnDisk ELSE NoManifest
    /\ IF PolicyFails(m)
         THEN service' = "refused" /\ UNCHANGED <<file, catalog, relations>>
         ELSE /\ service' = "up"
              /\ catalog' = FullyMerged(Policy(m))
              /\ relations' = IF Relevant(m) /\ IsWorkable(m) THEN relations
                              ELSE albums[Old]
              /\ file' = IF IsStored(m) /\ IsSealed(m) /\ IsLocallyReadable(m)
                           THEN "sealed" ELSE "gone"
    /\ UNCHANGED <<temp, source, pins, server, lock, worker, refresher, history,
                   trouble>>

-----------------------------------------------------------------------------
WorkerStep ==
  \/ Pick \/ Begin \/ ReadSource \/ CancelUnchanged \/ OpenAttempt \/ Post
  \/ Accepted \/ ReadCandidate \/ RereadSource \/ RecheckAlbums \/ ReadAlbums
  \/ CopyAlbums \/ VerifyCopy \/ TrashSource \/ TrashLost \/ ConfirmTrash
  \/ Unconfirmed \/ Publish \/ CommitJob \/ RemoveJob \/ RemoveFails
  \/ QueueFails \/ Fail \/ Handle

RefresherStep ==
  RefreshIncremental \/ FallBack \/ RefreshFull \/ Reconcile

Next ==
  \/ RenameLook \/ RenameMark \/ SealFile \/ Tick
  \/ WorkerStep \/ List \/ RefresherStep
  \/ RetryUpload \/ RetryUploadFails \/ CancelUpload \/ CancelUploadFails
  \/ ForeignUpload
  \/ \E a \in Assets :
       \/ TogglePin(a) \/ RestoreHere(a) \/ TrashHere(a)
       \/ ForeignEdit(a) \/ ForeignTrash(a) \/ ForeignRestore(a)
       \/ ForeignDelete(a) \/ ForeignAlbum(a)
  \/ Crash \/ Start

Spec == Init /\ [][Next]_vars

(* Both workers are coroutines that run on when they are waited for, requests *)
(* end at the latest with their timeout, time passes, and the service manager *)
(* starts the service again.  The refresher need never be asked.              *)
Fairness ==
  /\ WF_vars(WorkerStep) /\ WF_vars(RefresherStep)
  /\ WF_vars(Tick) /\ WF_vars(Start)

LiveSpec == Spec /\ Fairness
-----------------------------------------------------------------------------
(* The type invariant. *)
TypeOK ==
  /\ {record, quarantined} \subseteq Manifest \cup {NoManifest}
  /\ \A m \in {record, quarantined} : IsStored(m) => ValidManifest(m)
  /\ temp \in BOOLEAN
  /\ temp => IsStored(OnDisk) /\ OnDisk.state # "writing"
  /\ waiting \in BOOLEAN /\ service \in {"up", "down", "refused"}
  /\ source # NoRow =>
       source \in [at: Nat, look: BOOLEAN, albums: SUBSET Albums]
  /\ IsReplacement(record) => source # NoRow
  /\ file \in {"open", "sealed", "gone"}
  /\ \A a \in Assets :
       /\ Exists(catalog[a]) => catalog[a] \in Row
       /\ Exists(remote[a]) => remote[a] \in Asset
       /\ albums[a] \subseteq Albums
  /\ relations \subseteq Albums /\ pins \subseteq Assets
  /\ lock \in {<<>>, <<"worker">>, <<"refresher">>,
               <<"worker", "refresher">>, <<"refresher", "worker">>}
  /\ worker.job \in Manifest \cup {NoManifest}
  /\ refresher.job \in Manifest \cup {NoManifest}
  /\ published \in BOOLEAN /\ late \in BOOLEAN /\ wanted \in BOOLEAN
  /\ touched \subseteq {"removed", "restored"}
  /\ trouble \in 0..MaxTrouble

(* Whatever is committed, refreshed or restarted in between, a lookup of the  *)
(* target name finds the staged file or a live row, unless somebody trashed   *)
(* or restored an asset on purpose, or a start has set a job aside whose      *)
(* source may be in the trash already.                                        *)
Covered == file # "gone" /\ IsReplacement(record)

HalfDone == IsStored(quarantined) /\ quarantined.verified

NameServed ==
  service = "up" /\ touched = {} /\ ~HalfDone =>
    Covered \/ \E a \in Assets : Named(a, "target") /\ Shows(a)

(* Once the replacement is published, no refresh, whenever its list of jobs   *)
(* was read, and no restart gives the name back or takes the new row away.    *)
PublishedStays ==
  published /\ touched = {} =>
    Named(New, "target") /\ Shows(New) /\ Named(Old, "other")

(* The name moves only after the server has confirmed the trash.              *)
PublishedOnceRetired ==
  published /\ touched = {} => Exists(remote[Old]) /\ remote[Old].trashed

(* Pinning the name of a file pins what replaces it.                          *)
PinFollows ==
  published => \A a \in Assets :
    Named(a, "target") => (a \in pins <=> wanted)

(* The worker trashes the source only while it is the asset that was renamed  *)
(* over, and behind a verified copy in the same albums: nothing it has read   *)
(* is out of date, except what changed after its last look.                   *)
CopyStands(c) ==
  /\ Exists(remote[c]) /\ remote[c].ours /\ ~remote[c].trashed
  /\ c = record.bytes /\ c # Old
  /\ remote[Old].at = source.at /\ remote[Old].look = source.look
  /\ albums[Old] = source.albums /\ albums[c] = source.albums

RetiresBehindCopy ==
  [][At("trash") /\ worker' # worker /\ remote' # remote =>
       late \/ CopyStands(worker.job.candidate)]_vars

(* Once the server may have the new bytes as a candidate, the staged file is  *)
(* given up only when the catalog serves them under the name.  A job that is  *)
(* set aside keeps them on the disk.                                          *)
BytesLeaveWhenServed ==
  [][IsReplacement(record) /\ HasCandidate(record) /\ record' = NoManifest =>
       Named(New, "target") \/ touched # {} \/ quarantined' = record]_vars

(* A sealed replacement is finished, cancelled or blocked in the end, however *)
(* often the refresher is asked for the lock, and whichever of its writes     *)
(* fail.  Only a failure that leaves a manifest.json.tmp is excepted: no      *)
(* write of such a job succeeds, and it stays due until a restart sets it     *)
(* aside.                                                                     *)
Active == Relevant(record) /\ IsWorkable(record)


(* The README says that a complete job resumes on restart.                    *)
CompleteJobResumes == Relevant(record) => service # "refused"
=============================================================================
