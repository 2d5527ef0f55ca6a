----------------------- MODULE AssetReplacementProofs -----------------------
(***************************************************************************)
(* Theorems about AssetReplacement, for every set of albums and error      *)
(* codes and any number of troubles: the safety the replacement of an      *)
(* asset promises.  ReplacementInvariant carries all of them.              *)
(***************************************************************************)
EXTENDS AssetReplacement, UploadManifestProofs

-----------------------------------------------------------------------------
(* The invariant.                                                             *)

(* A record that the model can keep: it passes _validate_manifest, what is    *)
(* attempted is a replacement by other bytes, and the candidate has them.     *)
Fine(m) ==
  /\ Sound(m)
  /\ IsSealed(m) => m.bytes \in Assets
  /\ m.attempts >= 1 => m.bytes = New /\ m.op = "replacement"
  /\ m.state = "attempting" => m.bytes = New /\ m.op = "replacement"
  /\ HasCandidate(m) => m.candidate = New

(* A leftover of a write is with a sealed job, in the queue or set aside.     *)
HasLeftover(m) == IsStored(m) /\ m.state # "writing"

RecordFits ==
  /\ IsStored(record) => Fine(record) /\ ~IsStored(quarantined)
  /\ IsStored(quarantined) => Fine(quarantined)
  /\ IsReplacement(record) => source # NoRow
  /\ IsReplacement(quarantined) => source # NoRow
  /\ temp \in BOOLEAN
  /\ temp => HasLeftover(record) \/ HasLeftover(quarantined)

SourceType == [at : Nat, look : BOOLEAN, albums : SUBSET Albums]

OtherTypes ==
  /\ waiting \in BOOLEAN /\ service \in {"up", "down", "refused"}
  /\ source # NoRow => source \in SourceType
  /\ file \in {"open", "sealed", "gone"}
  /\ catalog \in [Assets -> Row \cup {NoRow}]
  /\ remote \in [Assets -> Asset \cup {NoRow}]
  /\ albums \in [Assets -> SUBSET Albums]
  /\ relations \subseteq Albums /\ pins \subseteq Assets
  /\ published \in BOOLEAN /\ late \in BOOLEAN /\ wanted \in BOOLEAN
  /\ touched \subseteq {"removed", "restored"}
  /\ trouble \in 0..MaxTrouble

(* An open file is a draft, and a file that is off its name had its job       *)
(* finished, even if its removal failed, or given up.                         *)
Finished == IsStored(record) /\ record.state = "committed"

FileFits ==
  /\ file = "open" => IsStored(record) /\ record.state = "writing"
  /\ service = "up" /\ file = "gone" /\ IsStored(record) =>
       ~IsSealed(record) \/ (Finished /\ worker.pc = "check")

(* Where the worker holds the lock, and where it has begun to replace.        *)
Copying == {"reread", "recheck", "albums", "copy", "verify", "trash", "confirm",
            "unconfirmed", "final", "notify"}
Reading == {"begin", "source", "cancel", "open"}
Held == {"source", "cancel", "open", "send", "reply", "candidate"} \cup Copying
Errors == {"unavailable", "garbled", "refused", "local"}
Pcs == {"check", "begin", "remove"} \cup Held \cup Errors

(* The worker's copy of a job that it has not admitted is the record, or an   *)
(* earlier revision of it; only a pending one changes behind its back.        *)
JobFits(m) ==
  /\ Fine(m) /\ m.op = "replacement" /\ IsWorkable(m)
  /\ IsStored(record) => record.revision > m.revision \/ record = m
  /\ m.state # "pending" => record = m

PlaceFits(pc, m) ==
  /\ pc \in Reading => JobFits(m)
  /\ pc = "cancel" => m.state = "pending"
  /\ pc = "open" => m.bytes = New
  /\ pc \in {"send", "reply", "candidate"} \cup Copying => record = m /\ IsStored(m)
  /\ pc \in {"send", "reply"} =>
       m.state = "attempting" /\ ~HasCandidate(m) /\ m.attempts >= 1
  /\ pc = "candidate" => m.state \in {"attempting", "replacing"} /\ HasCandidate(m)
  /\ pc \in Copying => m.state = "replacing"
  /\ pc = "remove" => IsStored(record) /\ record.state = "committed"

(* What the worker has seen at each place.  While it holds the lock, Old has  *)
(* the target name until the publication; a source it goes on to publish is   *)
(* in the trash unless somebody has restored it; and what it has read of the  *)
(* copy, and at the end of the source, holds unless something has changed.    *)
PlaceSaw(pc) ==
  /\ pc \in Held \ {"notify"} => Named(Old, "target")
  /\ touched = {} /\ pc = "notify" => published
  /\ touched = {} /\ pc \in {"recheck", "final"} => remote[Old].trashed
  /\ ~late /\ pc \in {"reread", "albums", "copy", "verify", "trash"} =>
       Exists(remote[New]) /\ remote[New].ours /\ ~remote[New].trashed
  /\ ~late /\ pc = "trash" =>
       /\ remote[Old].at = source.at /\ remote[Old].look = source.look
       /\ albums[Old] = source.albums /\ albums[New] = source.albums

WorkerType == [pc : Pcs, job : Manifest \cup {NoManifest}]

WorkerFits ==
  /\ worker \in WorkerType
  /\ service # "up" => worker = Checking
  /\ PlaceFits(worker.pc, worker.job)
  /\ PlaceSaw(worker.pc)

Policies == [keep : SUBSET Assets, hide : SUBSET Assets, sign : SUBSET Nat]

RefresherFits ==
  /\ refresher \in [pc : {"idle", "incremental", "full", "reconcile"},
                    job : Manifest \cup {NoManifest}, policy : Policies]
  /\ service # "up" => refresher = Resting
  /\ IsStored(refresher.job) => Fine(refresher.job)

Locks == {<<>>, <<"worker">>, <<"refresher">>, <<"worker", "refresher">>,
          <<"refresher", "worker">>}
In(w, l) == \E i \in DOMAIN l : l[i] = w

LockFits ==
  /\ lock \in Locks
  /\ In("worker", lock) <=> worker.pc \in Held \cup {"begin"}
  /\ worker.pc \in Held => Holds("worker")
  /\ In("refresher", lock) <=> refresher.pc # "idle"
  /\ service # "up" => lock = <<>>

(* Old has the target name until the publication, and its row stays while the *)
(* server has it; the pin is on the asset that has, or had, the name.         *)
NamesFit ==
  /\ Exists(remote[Old]) => Exists(catalog[Old])
  /\ Exists(catalog[Old]) =>
       catalog[Old].name = IF published THEN "other" ELSE "target"
  /\ ~published /\ Exists(catalog[Old]) /\ Exists(catalog[New]) =>
       catalog[New].name = "other"
  /\ ~published /\ Exists(catalog[Old]) => (Old \in pins <=> wanted)
  /\ published => (New \in pins <=> wanted)

(* While nobody else trashes, restores or deletes, the rows are what the      *)
(* server has, and the published ones stay.                                   *)
RowsFit ==
  touched = {} =>
    /\ Exists(remote[Old])
    /\ Exists(remote[New]) => ~remote[New].trashed
    /\ catalog[Old].trashed => remote[Old].trashed
    /\ published => /\ Named(New, "target") /\ Shows(New)
                    /\ Exists(remote[New]) /\ catalog[Old].trashed

(* Old is in the trash only behind a record that says so, in the queue or set *)
(* aside, or behind the publication.                                          *)
RecordSays ==
  touched = {} =>
    /\ remote[Old].trashed =>
         published \/ (IsStored(record) /\ record.verified) \/ HalfDone
    /\ Finished => published
    /\ IsStored(quarantined) /\ quarantined.state = "committed" => published

ReplacementInvariant ==
  /\ RecordFits /\ OtherTypes /\ FileFits /\ WorkerFits /\ RefresherFits
  /\ LockFits /\ NamesFit /\ RowsFit /\ RecordSays

-----------------------------------------------------------------------------
(* Constants and records.                                                     *)

LEMMA TheAssets ==
  /\ Assets = {Old, New} /\ Old # New /\ {Old, New} \subseteq Nat
  /\ Old # Unsealed /\ New # Unsealed /\ NoAsset \notin {Old, New}
  BY ReplacementAssumption, NoAssetAssumption DEF Old, New, Unsealed

LEMMA Codes ==
  /\ {"upload-unavailable", "ambiguous-response", "candidate-mismatch",
      "local-state-failed", UploadRejected, InterruptedWrite}
       \subseteq UploadErrorCode \ {NoError}
  BY ReplacementAssumption
  DEF UploadErrorCode, NoError, UploadRejected, InterruptedWrite, PayloadInvalid

LEMMA StoredIs ==
  /\ \A m \in Manifest : IsStored(m)
  /\ \A m : Fine(m) => m \in Manifest /\ IsStored(m) /\ m.revision \in Nat
  /\ ~IsStored(NoManifest)
  BY ReplacementAssumption DEF IsStored, Fine, Sound, Manifest

LEMMA RowIs ==
  /\ \A r \in Row \cup Asset : Exists(r)
  /\ ~Exists(NoRow)
  BY ReplacementAssumption DEF Exists

(* What a fine record is in each state.                                       *)
LEMMA FineIs ==
  ASSUME NEW m, Fine(m)
  PROVE  /\ m.state = "writing" =>
              ~IsSealed(m) /\ m.attempts = 0 /\ ~HasCandidate(m) /\ ~m.verified
         /\ m.state = "pending" => IsSealed(m) /\ ~HasCandidate(m) /\ ~m.verified
         /\ m.state = "attempting" =>
              IsSealed(m) /\ ~m.verified /\ m.bytes = New /\ m.op = "replacement"
         /\ m.state = "cancelled" => ~HasCandidate(m) /\ ~m.verified
         /\ m.state \in {"replacing", "committed"} =>
              IsSealed(m) /\ HasCandidate(m)
              /\ m.bytes = New /\ m.op = "replacement" /\ m.verified
         /\ HasCandidate(m) =>
              /\ m.candidate = New /\ m.attempts >= 1 /\ m.bytes = New
              /\ m.op = "replacement" /\ IsSealed(m)
         /\ m.verified => m.op = "replacement" /\ HasCandidate(m)
         /\ m.revision \in Nat /\ m.attempts \in Nat
         /\ m.state \in UploadState /\ m.op \in UploadOperation
         /\ m.verified \in BOOLEAN /\ m.bytes \in {Unsealed, Old, New}
         /\ m.candidate \in {NoAsset, New}
<1>1. /\ m \in Manifest /\ ValidFields(m) /\ ValidState(m) /\ Counted(m)
  BY DEF Fine, Sound, ValidManifest
<1>2. /\ m.revision \in Nat /\ m.attempts \in Nat /\ m.state \in UploadState
      /\ m.op \in UploadOperation /\ m.verified \in BOOLEAN
  BY <1>1 DEF Manifest
<1>3. HasCandidate(m) => m.bytes = New /\ m.op = "replacement" /\ m.attempts >= 1
  BY <1>1 DEF Counted, Fine
<1>4. m.bytes = New => IsSealed(m)
  BY TheAssets DEF IsSealed
<1>5. m.state \in {"replacing", "committed"} => HasCandidate(m) /\ m.verified
  BY <1>1, <1>3 DEF ValidState
<1>6. m.verified => m.op = "replacement" /\ HasCandidate(m)
  BY <1>1 DEF ValidFields
<1>7. m.bytes \in {Unsealed, Old, New}
  BY TheAssets DEF Fine, IsSealed
<1>8. m.candidate \in {NoAsset, New}
  BY DEF Fine, HasCandidate
<1> QED
  BY <1>1, <1>2, <1>3, <1>4, <1>5, <1>6, <1>7, <1>8 DEF ValidState, Fine

(* What the updates make of a fine record.                                    *)
Same(m, n) ==
  /\ n.bytes = m.bytes /\ n.candidate = m.candidate
  /\ n.verified = m.verified /\ n.op = m.op

Later(m, n) == Fine(n) /\ n.revision > m.revision

LEMMA SealIsFine ==
  ASSUME NEW m, Fine(m), m.state = "writing", NEW b \in Assets
  PROVE  /\ Later(m, Seal(m, b)) /\ Seal(m, b).state = "pending"
         /\ Seal(m, b).op = m.op /\ IsSealed(Seal(m, b))
<1> DEFINE n == Seal(m, b)
<1>1. Sound(n) /\ m \in Manifest
  BY SealIsSound, TheAssets DEF Fine, Sound
<1>2. /\ n.state = "pending" /\ n.revision = m.revision + 1 /\ n.bytes = b
      /\ n.attempts = m.attempts /\ n.candidate = m.candidate /\ n.op = m.op
      /\ m.revision \in Nat
  BY <1>1 DEF Seal, Manifest
<1>3. m.attempts = 0 /\ ~HasCandidate(m)
  BY FineIs
<1> HIDE DEF n
<1>4. Fine(n) /\ IsSealed(n)
  BY <1>1, <1>2, <1>3, TheAssets DEF Fine, HasCandidate, IsSealed
<1> QED
  BY <1>2, <1>4 DEF n, Later

LEMMA MarkIsFine ==
  ASSUME NEW m, Fine(m), CanMarkReplacement(m)
  PROVE  /\ Fine(MarkReplacement(m)) /\ MarkReplacement(m).state = m.state
         /\ MarkReplacement(m).bytes = m.bytes /\ ~m.verified
         /\ MarkReplacement(m).revision >= m.revision
         /\ m.state # "writing" => MarkReplacement(m).revision > m.revision
<1> DEFINE n == MarkReplacement(m)
<1>1. Sound(n) /\ m \in Manifest
  BY MarkIsSound DEF Fine, Sound
<1>2. /\ n.state = m.state /\ n.bytes = m.bytes /\ n.attempts = m.attempts
      /\ n.candidate = m.candidate /\ n.op = "replacement" /\ m.revision \in Nat
      /\ n.revision = IF m.state = "writing" THEN m.revision ELSE m.revision + 1
  BY <1>1 DEF MarkReplacement, Manifest
<1>3. ~m.verified
  BY FineIs DEF CanMarkReplacement
<1> HIDE DEF n
<1>4. Fine(n)
  BY <1>1, <1>2 DEF Fine, HasCandidate, IsSealed
<1> QED
  BY <1>2, <1>3, <1>4 DEF n

LEMMA BlockDraftIsFine ==
  ASSUME NEW m, Fine(m), m.state = "writing"
  PROVE  LET n == BlockDraft(m, InterruptedWrite) IN
         /\ Later(m, n) /\ Same(m, n) /\ n.state = "blocked" /\ ~IsSealed(n)
<1> DEFINE n == BlockDraft(m, InterruptedWrite)
<1>1. Sound(n) /\ m \in Manifest
  BY BlockDraftIsSound, Codes DEF Fine, Sound
<1>2. /\ n.state = "blocked" /\ n.revision = m.revision + 1 /\ n.bytes = m.bytes
      /\ n.attempts = m.attempts /\ n.candidate = m.candidate /\ n.op = m.op
      /\ n.verified = m.verified /\ m.revision \in Nat
  BY <1>1 DEF BlockDraft, Manifest
<1>3. ~IsSealed(m)
  BY FineIs
<1> HIDE DEF n
<1>4. Fine(n) /\ ~IsSealed(n)
  BY <1>1, <1>2, <1>3 DEF Fine, HasCandidate, IsSealed
<1> QED
  BY <1>2, <1>4 DEF n, Later, Same

LEMMA BlockIsFine ==
  ASSUME NEW m, Fine(m), CanBlock(m), NEW e \in UploadErrorCode \ {NoError}
  PROVE  LET n == Block(m, e) IN
         Later(m, n) /\ Same(m, n) /\ n.state = "blocked"
<1> DEFINE n == Block(m, e)
<1>1. Sound(n) /\ m \in Manifest
  BY BlockIsSound DEF Fine, Sound
<1>2. /\ n.state = "blocked" /\ n.revision = m.revision + 1 /\ n.bytes = m.bytes
      /\ n.attempts = m.attempts /\ n.candidate = m.candidate /\ n.op = m.op
      /\ n.verified = m.verified /\ m.revision \in Nat
  BY <1>1 DEF Block, Manifest
<1> HIDE DEF n
<1>3. Fine(n)
  BY <1>1, <1>2 DEF Fine, HasCandidate, IsSealed
<1> QED
  BY <1>2, <1>3 DEF n, Later, Same

LEMMA RetryIsFine ==
  ASSUME NEW m, Fine(m), CanRetry(m), NEW e \in UploadErrorCode \cup {NoError}
  PROVE  LET n == Retry(m, e) IN
         /\ Later(m, n) /\ Same(m, n) /\ IsWorkable(n)
         /\ n.state = ResumeState(m)
<1> DEFINE n == Retry(m, e)
<1>1. Sound(n) /\ m \in Manifest
  BY RetryIsSound DEF Fine, Sound
<1>2. /\ n.state = ResumeState(m) /\ n.revision = m.revision + 1
      /\ n.bytes = m.bytes /\ n.attempts = m.attempts
      /\ n.candidate = m.candidate /\ n.op = m.op /\ n.verified = m.verified
      /\ m.revision \in Nat /\ m.attempts \in Nat
  BY <1>1 DEF Retry, Manifest
<1>3. /\ ResumeState(m) \in {"replacing", "attempting", "pending"}
      /\ ResumeState(m) = "attempting" => HasCandidate(m)
  BY DEF ResumeState
<1>4. HasCandidate(m) => m.bytes = New /\ m.op = "replacement"
  BY FineIs
<1> HIDE DEF n
<1>5. Fine(n) /\ IsWorkable(n)
  BY <1>1, <1>2, <1>3, <1>4 DEF Fine, HasCandidate, IsSealed, IsWorkable
<1> QED
  BY <1>2, <1>5 DEF n, Later, Same

LEMMA AttemptIsFine ==
  ASSUME NEW m, Fine(m), CanAttempt(m), m.bytes = New, m.op = "replacement"
  PROVE  LET p == Provisional(m)
             n == Admit(p) IN
         /\ Later(m, p) /\ Same(m, p) /\ p.state = "attempting"
         /\ Later(m, n) /\ Same(m, n) /\ n.state = "attempting"
         /\ n.attempts >= 1
<1> DEFINE p == Provisional(m)
           n == Admit(p)
<1>1. Sound(n) /\ Sound(p) /\ m \in Manifest /\ p \in Manifest
  BY AttemptIsSound DEF Fine, Sound
<1>2. /\ p.state = "attempting" /\ p.revision = m.revision + 1
      /\ p.bytes = m.bytes /\ p.attempts = m.attempts
      /\ p.candidate = m.candidate /\ p.op = m.op /\ p.verified = m.verified
      /\ m.revision \in Nat /\ m.attempts \in Nat
  BY <1>1 DEF Provisional, Manifest
<1>3. /\ n.state = "attempting" /\ n.revision = m.revision + 2
      /\ n.bytes = m.bytes /\ n.attempts = m.attempts + 1
      /\ n.candidate = m.candidate /\ n.op = m.op /\ n.verified = m.verified
  BY <1>1, <1>2 DEF Admit, Manifest
<1> HIDE DEF n, p
<1>4. Fine(n)
  BY <1>1, <1>2, <1>3, TheAssets DEF Fine, HasCandidate, IsSealed
<1>5. Fine(p)
  BY <1>1, <1>2, TheAssets DEF Fine, HasCandidate, IsSealed
<1> QED
  BY <1>2, <1>3, <1>4, <1>5 DEF n, p, Later, Same

LEMMA CandidateIsFine ==
  ASSUME NEW m, Fine(m), m.state = "attempting", m.attempts >= 1
  PROVE  LET n == RecordCandidate(m, m.bytes) IN
         /\ Later(m, n) /\ n.state = "attempting" /\ HasCandidate(n)
         /\ n.op = m.op
<1> DEFINE n == RecordCandidate(m, m.bytes)
<1>1. m.bytes = New
  BY FineIs
<1>2. Sound(n) /\ m \in Manifest
  BY <1>1, TheAssets, RecordIsSound DEF Fine, Sound
<1>3. /\ n.state = m.state /\ n.revision = m.revision + 1 /\ n.bytes = m.bytes
      /\ n.attempts = m.attempts /\ n.candidate = New /\ n.op = m.op
      /\ m.revision \in Nat
  BY <1>1, <1>2 DEF RecordCandidate, Manifest
<1> HIDE DEF n
<1>4. Fine(n) /\ HasCandidate(n)
  BY <1>2, <1>3, TheAssets DEF Fine, HasCandidate, IsSealed
<1> QED
  BY <1>3, <1>4 DEF n, Later

LEMMA BeginReplacingIsFine ==
  ASSUME NEW m, Fine(m), m.state = "attempting", HasCandidate(m)
  PROVE  LET n == BeginReplacing(m) IN
         Later(m, n) /\ n.state = "replacing" /\ n.op = m.op
<1> DEFINE n == BeginReplacing(m)
<1>1. Sound(n) /\ m \in Manifest
  BY FineIs, BeginReplacingIsSound DEF Fine, Sound, CanBeginReplacing
<1>2. /\ n.state = "replacing" /\ n.revision = m.revision + 1
      /\ n.bytes = m.bytes /\ n.attempts = m.attempts
      /\ n.candidate = m.candidate /\ n.op = m.op /\ m.revision \in Nat
  BY <1>1 DEF BeginReplacing, Manifest
<1> HIDE DEF n
<1>3. Fine(n)
  BY <1>1, <1>2 DEF Fine, HasCandidate, IsSealed
<1> QED
  BY <1>2, <1>3 DEF n, Later

LEMMA CommitIsFine ==
  ASSUME NEW m, Fine(m), m.state = "replacing"
  PROVE  LET n == Commit(m) IN
         Later(m, n) /\ Same(m, n) /\ n.state = "committed"
<1> DEFINE n == Commit(m)
<1>1. Sound(n) /\ m \in Manifest
  BY FineIs, CommitIsSound DEF Fine, Sound, CanCommit
<1>2. /\ n.state = "committed" /\ n.revision = m.revision + 1
      /\ n.bytes = m.bytes /\ n.attempts = m.attempts
      /\ n.candidate = m.candidate /\ n.op = m.op /\ n.verified = m.verified
      /\ m.revision \in Nat
  BY <1>1 DEF Commit, Manifest
<1> HIDE DEF n
<1>3. Fine(n)
  BY <1>1, <1>2 DEF Fine, HasCandidate, IsSealed
<1> QED
  BY <1>2, <1>3 DEF n, Later, Same

LEMMA CancelIsFine ==
  ASSUME NEW m, Fine(m), ~HasCandidate(m)
  PROVE  LET n == Cancel(m) IN
         Later(m, n) /\ Same(m, n) /\ n.state = "cancelled"
<1> DEFINE n == Cancel(m)
<1>1. Sound(n) /\ m \in Manifest
  BY CancelIsSound DEF Fine, Sound
<1>2. /\ n.state = "cancelled" /\ n.revision = m.revision + 1
      /\ n.bytes = m.bytes /\ n.attempts = m.attempts
      /\ n.candidate = m.candidate /\ n.op = m.op /\ n.verified = m.verified
      /\ m.revision \in Nat
  BY <1>1 DEF Cancel, Manifest
<1> HIDE DEF n
<1>3. Fine(n)
  BY <1>1, <1>2 DEF Fine, HasCandidate, IsSealed
<1> QED
  BY <1>2, <1>3 DEF n, Later, Same

(* What the service finds after a restart.                                    *)
LEMMA RecoveredIsFine ==
  ASSUME NEW m, IsStored(m) => Fine(m)
  PROVE  LET n == Recovered(m) IN
         /\ IsStored(n) => Fine(n) /\ IsStored(m) /\ n.op = m.op
         /\ ~IsStored(n) => ~IsStored(m) \/ m.state \in {"committed", "cancelled"}
         /\ IsStored(n) => n = m \/ (m.state = "writing" /\ ~IsSealed(n) /\ n.state = "blocked")
         /\ IsStored(n) => n.state \notin {"writing", "committed", "cancelled"}
<1>1. CASE ~IsStored(m) \/ m.state \in {"committed", "cancelled"}
  BY <1>1, StoredIs DEF Recovered
<1>2. CASE IsStored(m) /\ m.state = "writing"
  <2>1. Recovered(m) = BlockDraft(m, InterruptedWrite)
    BY <1>2 DEF Recovered
  <2> QED
    BY <1>2, <2>1, BlockDraftIsFine, StoredIs DEF Later, Same
<1>3. CASE IsStored(m) /\ m.state \notin {"writing", "committed", "cancelled"}
  BY <1>3, StoredIs DEF Recovered
<1> QED
  BY <1>1, <1>2, <1>3

-----------------------------------------------------------------------------
(* The catalog lock.                                                          *)

Who == {"worker", "refresher"}

LEMMA PairIs ==
  ASSUME NEW S, NEW s \in Seq(S), Len(s) = 2
  PROVE  s = <<s[1], s[2]>>
  OBVIOUS

LEMMA AppendIs ==
  ASSUME NEW v \in Who, NEW w \in Who
  PROVE  Append(<<v>>, w) = <<v, w>>
<1>1. /\ Append(<<v>>, w) \in Seq(Who) /\ Len(Append(<<v>>, w)) = 2
      /\ Append(<<v>>, w)[1] = v /\ Append(<<v>>, w)[2] = w
  OBVIOUS
<1> QED
  BY <1>1, PairIs

LEMMA Joins ==
  ASSUME NEW l \in Locks, NEW w \in Who, ~In(w, l)
  PROVE  /\ Append(l, w) \in Locks
         /\ \A v \in Who : In(v, Append(l, w)) <=> In(v, l) \/ v = w
         /\ l # <<>> => Append(l, w) # <<>> /\ Head(Append(l, w)) = Head(l)
<1>1. CASE l = <<>>
  <2>1. Append(l, w) = <<w>>
    BY <1>1
  <2> QED
    BY <1>1, <2>1 DEF Locks, Who, In
<1>2. ASSUME NEW v \in Who, l = <<v>>
      PROVE  /\ Append(l, w) \in Locks
             /\ \A u \in Who : In(u, Append(l, w)) <=> In(u, l) \/ u = w
             /\ Append(l, w) # <<>> /\ Head(Append(l, w)) = Head(l)
  <2>2. DOMAIN <<v, w>> = 1..2 /\ <<v, w>>[1] = v /\ <<v, w>>[2] = w /\ Head(<<v, w>>) = v
    OBVIOUS
  <2>3. DOMAIN l = 1..1 /\ l[1] = v /\ Head(l) = v
    BY <1>2
  <2>4. v # w
    BY <2>3 DEF In
  <2>1. Append(l, w) = <<v, w>>
    BY <1>2, AppendIs
  <2> QED
    BY <2>1, <2>2, <2>3, <2>4 DEF Locks, Who, In
<1>3. CASE l = <<"worker", "refresher">> \/ l = <<"refresher", "worker">>
  <2>1. In("worker", l) /\ In("refresher", l)
    <3>1. DOMAIN l = 1..2 /\ l[1] \in Who /\ l[2] \in Who /\ l[1] # l[2]
      BY <1>3 DEF Who
    <3> QED
      BY <3>1 DEF In, Who
  <2> QED
    BY <2>1 DEF Who
<1> QED
  BY <1>1, <1>2, <1>3 DEF Locks, Who

LEMMA Leaves ==
  ASSUME NEW l \in Locks, NEW w \in Who, l # <<>>, Head(l) = w
  PROVE  /\ Tail(l) \in Locks /\ In(w, l)
         /\ \A v \in Who : In(v, Tail(l)) <=> In(v, l) /\ v # w
<1>1. ASSUME NEW v \in Who, l = <<v>>
      PROVE  Tail(l) = <<>> /\ v = w /\ DOMAIN l = 1..1 /\ l[1] = v
  BY <1>1
<1>2. ASSUME NEW v \in Who, NEW u \in Who, l = <<v, u>>
      PROVE  Tail(l) = <<u>> /\ v = w /\ DOMAIN l = 1..2 /\ l[1] = v /\ l[2] = u
  BY <1>2
<1>3. CASE l = <<"worker">> \/ l = <<"refresher">>
  <2>1. PICK v \in Who : l = <<v>>
    BY <1>3 DEF Who
  <2> QED
    BY <1>1, <2>1 DEF Locks, Who, In
<1>4. CASE l = <<"worker", "refresher">> \/ l = <<"refresher", "worker">>
  <2>1. PICK v \in Who, u \in Who : l = <<v, u>> /\ v # u
    BY <1>4 DEF Who
  <2>2. Tail(l) = <<u>> /\ v = w /\ DOMAIN l = 1..2 /\ l[1] = v /\ l[2] = u
    BY <1>2, <2>1
  <2>3. DOMAIN <<u>> = 1..1 /\ <<u>>[1] = u
    OBVIOUS
  <2> QED
    BY <2>1, <2>2, <2>3 DEF Locks, Who, In
<1> QED
  BY <1>3, <1>4 DEF Locks

LEMMA Empty == \A w : ~In(w, <<>>)
  BY DEF In

(* The worker goes on under the lock, leaves it, or asks for it.              *)
LEMMA WorkerStays ==
  ASSUME LockFits, UNCHANGED <<lock, refresher, service>>,
         worker.pc \in Held \cup {"begin"}, worker'.pc \in Held, Holds("worker")
  PROVE  LockFits'
  BY DEF LockFits, Holds

LEMMA WorkerLeaves ==
  ASSUME LockFits, Release, UNCHANGED <<refresher, service>>, service = "up",
         Holds("worker"), worker'.pc \notin Held \cup {"begin"}
  PROVE  LockFits'
<1>1. /\ Tail(lock) \in Locks
      /\ \A v \in Who : In(v, Tail(lock)) <=> In(v, lock) /\ v # "worker"
  BY Leaves DEF LockFits, Holds, Who
<1> QED
  BY <1>1 DEF LockFits, Release, Who

LEMMA WorkerJoins ==
  ASSUME LockFits, QueueFor("worker"), UNCHANGED <<refresher, service>>,
         service = "up", worker.pc \notin Held \cup {"begin"}, worker'.pc = "begin"
  PROVE  LockFits'
<1>1. /\ Append(lock, "worker") \in Locks
      /\ \A v \in Who : In(v, Append(lock, "worker")) <=> In(v, lock) \/ v = "worker"
  BY Joins DEF LockFits, Who
<1>2. "begin" \notin Held
  BY DEF Held, Copying
<1> QED
  BY <1>1, <1>2 DEF LockFits, QueueFor, Who

LEMMA WorkerElsewhere ==
  ASSUME LockFits, UNCHANGED <<lock, refresher, service>>,
         worker.pc \notin Held \cup {"begin"}, worker'.pc \notin Held \cup {"begin"}
  PROVE  LockFits'
  BY DEF LockFits, Holds

(* The refresher asks for the lock, leaves it, or stands in line again.       *)
LEMMA RefresherJoins ==
  ASSUME LockFits, QueueFor("refresher"), UNCHANGED <<worker, service>>,
         service = "up", refresher.pc = "idle", refresher'.pc # "idle"
  PROVE  LockFits'
<1>1. /\ Append(lock, "refresher") \in Locks
      /\ \A v \in Who : In(v, Append(lock, "refresher")) <=> In(v, lock) \/ v = "refresher"
      /\ lock # <<>> => /\ Append(lock, "refresher") # <<>>
                        /\ Head(Append(lock, "refresher")) = Head(lock)
  BY Joins DEF LockFits, Who
<1> QED
  BY <1>1 DEF LockFits, QueueFor, Who, Holds

LEMMA RefresherHolds ==
  ASSUME LockFits, Holds("refresher")
  PROVE  worker.pc \notin Held /\ refresher.pc # "idle"
<1>1. In("refresher", lock)
  BY Leaves DEF LockFits, Holds, Who
<1> QED
  BY <1>1 DEF LockFits, Holds

LEMMA RefresherLeaves ==
  ASSUME LockFits, Release, UNCHANGED <<worker, service>>, service = "up",
         Holds("refresher"), refresher'.pc = "idle"
  PROVE  LockFits'
<1>1. /\ Tail(lock) \in Locks
      /\ \A v \in Who : In(v, Tail(lock)) <=> In(v, lock) /\ v # "refresher"
  BY Leaves DEF LockFits, Holds, Who
<1> QED
  BY <1>1, RefresherHolds DEF LockFits, Release, Who

LEMMA RefresherAgain ==
  ASSUME LockFits, lock' = Append(Tail(lock), "refresher"),
         UNCHANGED <<worker, service>>, service = "up",
         Holds("refresher"), refresher'.pc # "idle"
  PROVE  LockFits'
<1>1. /\ Tail(lock) \in Locks /\ In("refresher", lock)
      /\ \A v \in Who : In(v, Tail(lock)) <=> In(v, lock) /\ v # "refresher"
  BY Leaves DEF LockFits, Holds, Who
<1>2. /\ lock' \in Locks
      /\ \A v \in Who : In(v, lock') <=> In(v, Tail(lock)) \/ v = "refresher"
  BY <1>1, Joins DEF Who
<1> QED
  BY <1>1, <1>2, RefresherHolds DEF LockFits, Who

-----------------------------------------------------------------------------
(* What a step leaves alone.                                                  *)

LEMMA TroubleIs ==
  ASSUME OtherTypes, Trouble
  PROVE  trouble' \in 0..MaxTrouble
  BY ReplacementAssumption DEF OtherTypes, Trouble

LEMMA FaultIs ==
  ASSUME OtherTypes, Fault
  PROVE  trouble' \in 0..MaxTrouble
  BY TroubleIs DEF Fault, OtherTypes

LEMMA OtherStay ==
  ASSUME OtherTypes,
         UNCHANGED <<source, file, service, local, server, published, touched, wanted>>,
         waiting' \in BOOLEAN, late' \in BOOLEAN, trouble' \in 0..MaxTrouble
  PROVE  OtherTypes'
  BY DEF OtherTypes, local, server

LEMMA RowsStay ==
  ASSUME NamesFit, RowsFit,
         UNCHANGED <<local, remote, published, touched, wanted>>
  PROVE  NamesFit' /\ RowsFit'
<1>1. catalog' = catalog /\ pins' = pins /\ remote' = remote
  BY DEF local
<1>2. NamesFit'
  BY <1>1 DEF NamesFit, Exists
<1>3. RowsFit'
  BY <1>1 DEF RowsFit, Exists, Named, Shows
<1> QED
  BY <1>2, <1>3

(* What the worker may do to a record, and what a failing write leaves of it. *)
Changes ==
  \/ UNCHANGED disk
  \/ /\ IsStored(record) /\ IsStored(record') /\ Fine(record')
     /\ record'.op = record.op /\ (IsSealed(record') <=> IsSealed(record))
     /\ record.state # "writing" /\ record'.state # "writing"
     /\ record.verified => record'.verified
     /\ record'.state = "committed" /\ touched = {} => published
     /\ temp' \in BOOLEAN

LEMMA UnwrittenChanges ==
  ASSUME RecordFits, RecordSays, IsStored(record), record.state # "writing", Unwritten
  PROVE  Changes
  BY DEF RecordFits, RecordSays, Finished, Unwritten, Changes

LEMMA RecordFollows ==
  ASSUME RecordFits, FileFits, RecordSays, Changes,
         UNCHANGED <<quarantined, source, file, service>>,
         worker.pc = "check" => ~Finished,
         published => published',
         touched' = {} => touched = {},
         touched' = {} /\ remote'[Old].trashed =>
           remote[Old].trashed \/ (IsStored(record) /\ record.verified)
  PROVE  RecordFits' /\ FileFits' /\ RecordSays'
<1>1. CASE UNCHANGED disk
  <2>1. record' = record /\ temp' = temp
    BY <1>1 DEF disk
  <2> QED
    BY <2>1 DEF RecordFits, FileFits, RecordSays, IsReplacement, HasLeftover,
       Finished, HalfDone
<1>2. CASE ~UNCHANGED disk
  <2>1. RecordFits'
    BY <1>2 DEF RecordFits, Changes, IsReplacement, HasLeftover
  <2>2. FileFits'
    BY <1>2 DEF FileFits, Changes, Finished
  <2>3. RecordSays'
    BY <1>2 DEF RecordSays, Changes, Finished, HalfDone
  <2> QED
    BY <2>1, <2>2, <2>3
<1> QED
  BY <1>1, <1>2

LEMMA SameRefresher ==
  ASSUME RefresherFits, UNCHANGED <<service, refresher>>
  PROVE  RefresherFits'
  BY DEF RefresherFits

LEMMA WorkerIsUp ==
  ASSUME WorkerFits, worker.pc # "check"
  PROVE  service = "up"
  BY DEF WorkerFits, Checking

(* A step of the worker that changes nothing but its place, the record and    *)
(* the lock.                                                                  *)
LEMMA WorkerMoves ==
  ASSUME ReplacementInvariant, Quiet, Changes, service = "up",
         worker.pc = "check" => ~Finished,
         UNCHANGED <<local, server>>,
         waiting' \in BOOLEAN, late' \in BOOLEAN, trouble' \in 0..MaxTrouble,
         LockFits', worker' \in WorkerType,
         PlaceFits(worker.pc, worker.job)', PlaceSaw(worker.pc)'
  PROVE  ReplacementInvariant'
<1>1. UNCHANGED <<quarantined, source, file, service, refresher, published, touched,
                  wanted>>
  BY DEF Quiet
<1>2. UNCHANGED <<catalog, pins, remote, albums>>
  BY DEF local, server
<1>3. OtherTypes'
  BY <1>1, OtherStay DEF ReplacementInvariant
<1>4. NamesFit' /\ RowsFit'
  BY <1>1, <1>2, RowsStay DEF ReplacementInvariant
<1>5. RecordFits' /\ FileFits' /\ RecordSays'
  BY <1>1, <1>2, RecordFollows DEF ReplacementInvariant
<1>6. RefresherFits'
  BY <1>1, SameRefresher DEF ReplacementInvariant
<1>7. WorkerFits'
  BY <1>1 DEF WorkerFits
<1> QED
  BY <1>3, <1>4, <1>5, <1>6, <1>7 DEF ReplacementInvariant

(* Away from the lock and the job there is nothing to know.                   *)
LEMMA NowhereFits ==
  ASSUME NEW pc \in Errors \cup {"check"}, NEW m
  PROVE  /\ PlaceFits(pc, m) /\ PlaceSaw(pc) /\ pc \notin Held \cup {"begin"}
  BY DEF PlaceFits, PlaceSaw, Errors, Reading, Copying, Held

LEMMA CheckingIs == Checking \in WorkerType /\ Checking.pc = "check"
  BY DEF Checking, WorkerType, Pcs

LEMMA GoesTo ==
  ASSUME WorkerFits, NEW pc \in Pcs, Goto(pc)
  PROVE  worker' \in WorkerType /\ worker'.pc = pc /\ worker'.job = worker.job
  BY DEF WorkerFits, WorkerType, Goto

(* The worker goes on under the lock.                                         *)
LEMMA ContinueFits ==
  ASSUME ReplacementInvariant, Quiet, NEW q \in Held, Goto(q),
         UNCHANGED <<disk, waiting, local, server, lock, late>>,
         trouble' \in 0..MaxTrouble,
         worker.pc \in Held \cup {"begin"}, Holds("worker"),
         PlaceFits(q, worker.job), PlaceSaw(q)
  PROVE  ReplacementInvariant'
<1>1. q \in Pcs /\ worker.pc # "check"
  BY DEF Pcs, Held, Copying
<1>2. worker' \in WorkerType /\ worker'.pc = q /\ worker'.job = worker.job
  BY <1>1, GoesTo DEF ReplacementInvariant
<1>3. service = "up" /\ UNCHANGED <<source, service, refresher, published, touched>>
  BY <1>1, WorkerIsUp DEF ReplacementInvariant, Quiet
<1>4. LockFits'
  BY <1>2, <1>3, WorkerStays DEF ReplacementInvariant
<1>5. PlaceFits(worker.pc, worker.job)'
  BY <1>2 DEF PlaceFits, JobFits, disk
<1>6. UNCHANGED <<catalog, remote, albums>>
  BY DEF local, server
<1>7. PlaceSaw(worker.pc)'
  BY <1>2, <1>3, <1>6 DEF PlaceSaw, Named, Exists
<1>8. waiting' \in BOOLEAN /\ late' \in BOOLEAN
  BY DEF ReplacementInvariant, OtherTypes
<1> QED
  BY <1>1, <1>2, <1>3, <1>4, <1>5, <1>7, <1>8, WorkerMoves DEF Changes

(* The worker leaves the lock, for an exception, for another job, or blocking *)
(* this one.                                                                  *)
LEMMA LeaveFits ==
  ASSUME ReplacementInvariant, Quiet, Release, Changes,
         worker' \in WorkerType, worker'.pc \in Errors \cup {"check"},
         UNCHANGED <<local, server, late>>,
         waiting' \in BOOLEAN, trouble' \in 0..MaxTrouble,
         worker.pc \in Held \cup {"begin"}, Holds("worker")
  PROVE  ReplacementInvariant'
<1>1. worker.pc # "check"
  BY DEF Held, Copying
<1>2. service = "up" /\ UNCHANGED <<service, refresher>>
  BY <1>1, WorkerIsUp DEF ReplacementInvariant, Quiet
<1>3. worker'.pc \notin Held \cup {"begin"}
  BY NowhereFits
<1>4. LockFits'
  BY <1>2, <1>3, WorkerLeaves DEF ReplacementInvariant
<1>5. PlaceFits(worker.pc, worker.job)' /\ PlaceSaw(worker.pc)'
  BY DEF PlaceFits, PlaceSaw, Errors, Reading, Copying, Held
<1>6. late' \in BOOLEAN
  BY DEF ReplacementInvariant, OtherTypes
<1> QED
  BY <1>1, <1>2, <1>4, <1>5, <1>6, WorkerMoves

LEMMA BlockChanges ==
  ASSUME RecordFits, RecordSays, OtherTypes,
         NEW e \in UploadErrorCode \ {NoError}, BlockRecord(e)
  PROVE  Changes /\ trouble' \in 0..MaxTrouble
<1>1. CASE IsStored(record) /\ CanBlock(record)
  <2>1. record.state # "writing" /\ Fine(record)
    BY <1>1 DEF CanBlock, RecordFits
  <2>2. CASE Unwritten /\ Fault
    BY <1>1, <2>1, <2>2, UnwrittenChanges, FaultIs
  <2>3. CASE Save(Block(record, e)) /\ UNCHANGED trouble
    <3>1. record' = Block(record, e) /\ temp' = temp
      BY <2>3 DEF Save
    <3>2. /\ Later(record, record') /\ Same(record, record')
          /\ record'.state = "blocked"
      BY <1>1, <2>1, <3>1, BlockIsFine
    <3>3. Changes
      BY <1>1, <2>1, <3>1, <3>2, StoredIs
      DEF Changes, Later, Same, IsSealed, RecordFits
    <3> QED
      BY <2>3, <3>3 DEF OtherTypes
  <2> QED
    BY <1>1, <2>2, <2>3 DEF BlockRecord
<1>2. CASE ~(IsStored(record) /\ CanBlock(record))
  BY <1>2 DEF BlockRecord, Changes, OtherTypes
<1> QED
  BY <1>1, <1>2

LEMMA RetryChanges ==
  ASSUME RecordFits, RecordSays, OtherTypes,
         NEW e \in UploadErrorCode \ {NoError}, RetryRecord(e)
  PROVE  Changes /\ waiting' \in BOOLEAN /\ trouble' \in 0..MaxTrouble
<1>1. CASE IsStored(record) /\ CanRetry(record)
  <2>1. record.state # "writing" /\ Fine(record)
    BY <1>1 DEF CanRetry, RecordFits
  <2>2. CASE Unwritten /\ Fault /\ UNCHANGED waiting
    BY <1>1, <2>1, <2>2, UnwrittenChanges, FaultIs DEF OtherTypes
  <2>3. CASE Save(Retry(record, e)) /\ waiting' = TRUE /\ UNCHANGED trouble
    <3>1. record' = Retry(record, e) /\ temp' = temp
      BY <2>3 DEF Save
    <3>2. /\ Later(record, record') /\ Same(record, record')
          /\ IsWorkable(record')
      BY <1>1, <2>1, <3>1, RetryIsFine
    <3>3. Changes
      BY <1>1, <2>1, <3>1, <3>2, StoredIs
      DEF Changes, Later, Same, IsSealed, IsWorkable, RecordFits
    <3> QED
      BY <2>3, <3>3 DEF OtherTypes
  <2> QED
    BY <1>1, <2>2, <2>3 DEF RetryRecord
<1>2. CASE ~(IsStored(record) /\ CanRetry(record))
  BY <1>2 DEF RetryRecord, Changes, OtherTypes
<1> QED
  BY <1>1, <1>2

LEMMA MismatchFits ==
  ASSUME ReplacementInvariant, Quiet, Mismatch,
         worker.pc \in Held \cup {"begin"}, Holds("worker")
  PROVE  ReplacementInvariant'
<1>1. Changes /\ trouble' \in 0..MaxTrouble
  BY BlockChanges, Codes DEF ReplacementInvariant, Mismatch
<1>2. /\ worker' \in WorkerType /\ worker'.pc = "check"
  BY CheckingIs DEF Mismatch
<1>3. waiting' \in BOOLEAN
  BY DEF ReplacementInvariant, OtherTypes, Mismatch
<1> QED
  BY <1>1, <1>2, <1>3, LeaveFits DEF Mismatch

LEMMA RaiseFits ==
  ASSUME ReplacementInvariant, Quiet, NEW why \in Errors, Raise(why),
         worker.pc \in Held \cup {"begin"}, Holds("worker")
  PROVE  ReplacementInvariant'
<1>1. why \in Pcs
  BY DEF Pcs
<1>2. worker' \in WorkerType /\ worker'.pc = why
  BY <1>1, GoesTo DEF ReplacementInvariant, Raise
<1>3. waiting' \in BOOLEAN /\ trouble' \in 0..MaxTrouble
  BY DEF ReplacementInvariant, OtherTypes, Raise
<1> QED
  BY <1>2, <1>3, LeaveFits DEF Raise, Changes

(* What is known while the worker holds the lock.                             *)
LEMMA Holding ==
  ASSUME ReplacementInvariant, worker.pc \in Held
  PROVE  /\ Holds("worker") /\ service = "up"
         /\ worker.pc # "notify" => Named(Old, "target")
<1>1. worker.pc # "check"
  BY DEF Held, Copying
<1> QED
  BY <1>1, WorkerIsUp DEF ReplacementInvariant, LockFits, WorkerFits, PlaceSaw

-----------------------------------------------------------------------------
(* The steps of the worker.                                                   *)

LEMMA PickFits == ASSUME ReplacementInvariant, Pick PROVE ReplacementInvariant'
<1>1. /\ Fine(record) /\ IsStored(record) /\ record.op = "replacement" /\ IsWorkable(record)
  BY DEF Pick, ReplacementInvariant, RecordFits, IsReplacement
<1>2. worker' = [pc |-> "begin", job |-> record] /\ worker.pc = "check"
  BY DEF Pick, With, At
<1>3. worker' \in WorkerType /\ worker'.pc = "begin" /\ worker'.job = record
  BY <1>1, <1>2, StoredIs DEF WorkerType, Pcs
<1>4. /\ UNCHANGED disk /\ record' = record /\ service = "up" /\ Quiet
      /\ QueueFor("worker")
      /\ UNCHANGED <<waiting, local, server, trouble>> /\ late' = FALSE
  BY DEF Pick, disk
<1>5. "check" \notin Held \cup {"begin"} /\ "begin" \notin Held
  BY DEF Held, Copying
<1>6. LockFits'
  BY <1>2, <1>3, <1>4, <1>5, WorkerJoins DEF ReplacementInvariant, Quiet
<1>7. PlaceFits("begin", record)
  BY <1>1 DEF PlaceFits, JobFits, Copying, Reading
<1>8. PlaceFits(worker.pc, worker.job)'
  BY <1>3, <1>4, <1>7 DEF PlaceFits, JobFits
<1>9. PlaceSaw(worker.pc)'
  BY <1>3, <1>5 DEF PlaceSaw
<1>10. waiting' \in BOOLEAN /\ late' \in BOOLEAN /\ trouble' \in 0..MaxTrouble
  BY <1>4 DEF ReplacementInvariant, OtherTypes
<1>11. ~Finished
  BY <1>1 DEF Finished, IsWorkable
<1> QED
  BY <1>3, <1>4, <1>6, <1>8, <1>9, <1>10, <1>11, WorkerMoves DEF Changes

(* What the worker knows of its job at each place.                            *)
LEMMA JobIs ==
  ASSUME ReplacementInvariant
  PROVE  LET m == worker.job IN
         /\ worker.pc \in Reading => JobFits(m) /\ Fine(m)
         /\ worker.pc \in {"send", "reply", "candidate"} \cup Copying =>
              record = m /\ Fine(m) /\ m.op = "replacement" /\ m.bytes = New
         /\ worker.pc = "candidate" =>
              m.state \in {"attempting", "replacing"} /\ m.candidate = New
              /\ HasCandidate(m)
         /\ worker.pc \in Copying =>
              m.state = "replacing" /\ m.candidate = New /\ m.verified
<1> DEFINE m == worker.job
<1>1. PlaceFits(worker.pc, m) /\ (IsStored(record) => Fine(record))
  BY DEF ReplacementInvariant, WorkerFits, RecordFits
<1>2. worker.pc \in Reading => JobFits(m) /\ Fine(m)
  BY <1>1 DEF PlaceFits, JobFits
<1>3. CASE worker.pc \in {"send", "reply", "candidate"} \cup Copying
  <2>1. record = m /\ Fine(m)
    BY <1>1, <1>3 DEF PlaceFits
  <2>2. m.state \in {"attempting", "replacing"}
    BY <1>1, <1>3 DEF PlaceFits
  <2>3. "candidate" \notin Copying
    BY DEF Copying
  <2>4. worker.pc = "candidate" => HasCandidate(m)
    BY <1>1 DEF PlaceFits
  <2>5. worker.pc \in Copying => m.state = "replacing"
    BY <1>1 DEF PlaceFits
  <2>6. worker.pc \notin Reading
    BY <1>3 DEF Reading, Copying
  <2> HIDE DEF m
  <2>7. /\ m.op = "replacement" /\ m.bytes = New
        /\ HasCandidate(m) => m.candidate = New
        /\ m.state = "replacing" => HasCandidate(m) /\ m.verified
    BY <2>1, <2>2, FineIs
  <2>8. /\ worker.pc = "candidate" =>
             m.state \in {"attempting", "replacing"} /\ m.candidate = New /\ HasCandidate(m)
        /\ worker.pc \in Copying => m.state = "replacing" /\ m.candidate = New /\ m.verified
    BY <2>2, <2>4, <2>5, <2>7
  <2> QED
    BY <2>1, <2>6, <2>7, <2>8 DEF m
<1>4. CASE worker.pc \notin {"send", "reply", "candidate"} \cup Copying
  BY <1>2, <1>4
<1> QED
  BY <1>3, <1>4

LEMMA BeginFits == ASSUME ReplacementInvariant, Begin PROVE ReplacementInvariant'
<1> DEFINE m == worker.job
<1>1. /\ worker.pc = "begin" /\ Holds("worker") /\ Quiet
      /\ "begin" \in Reading /\ {"source", "notify"} \subseteq Held
  BY DEF Begin, At, Reading, Held, Copying
<1>2. JobFits(m) /\ Fine(m)
  BY <1>1, JobIs
<1>3. trouble \in 0..MaxTrouble
  BY DEF ReplacementInvariant, OtherTypes
<1>4. CASE AlreadyPublished(m) /\ Continue("notify")
  <2>1. m.state = "replacing" /\ record = m /\ IsStored(m)
    BY <1>2, <1>4, StoredIs DEF AlreadyPublished, VerifiedReplacing, JobFits
  <2>2. m.candidate = New
    BY <1>2, <2>1, FineIs
  <2>3. Exists(catalog[Old]) /\ Named(New, "target") /\ Exists(catalog[New])
    BY <1>4, <2>2 DEF AlreadyPublished, Shows
  <2>4. published
    BY <2>3 DEF ReplacementInvariant, NamesFit, Named
  <2>5. PlaceFits("notify", m)
    BY <2>1 DEF PlaceFits, Reading, Copying
  <2>6. PlaceSaw("notify")
    BY <2>4 DEF PlaceSaw
  <2> QED
    BY <1>1, <1>3, <1>4, <2>5, <2>6, ContinueFits DEF Continue
<1>5. CASE SourceInCatalog /\ Continue("source")
  <2>1. PlaceFits("source", m)
    BY <1>2 DEF PlaceFits, Reading, Copying
  <2>2. PlaceSaw("source")
    BY <1>5 DEF PlaceSaw, SourceInCatalog
  <2> QED
    BY <1>1, <1>3, <1>5, <2>1, <2>2, ContinueFits DEF Continue
<1>6. CASE Mismatch
  BY <1>1, <1>6, MismatchFits
<1> QED
  BY <1>4, <1>5, <1>6 DEF Begin

LEMMA ReadSourceFits ==
  ASSUME ReplacementInvariant, ReadSource PROVE ReplacementInvariant'
<1> DEFINE m == worker.job
<1>1. /\ worker.pc = "source" /\ Quiet
      /\ "source" \in Reading \cap Held
      /\ {"source", "candidate", "cancel", "open"} \subseteq Held
  BY DEF ReadSource, Read, At, Reading, Held
<1>2. JobFits(m) /\ Fine(m) /\ Holds("worker") /\ Named(Old, "target")
  BY <1>1, JobIs, Holding
<1>3. trouble \in 0..MaxTrouble
  BY DEF ReplacementInvariant, OtherTypes
<1>4. CASE Raise("refused")
  BY <1>1, <1>2, <1>4, RaiseFits DEF Errors
<1>5. CASE m.state = "replacing" /\ Continue("candidate")
  <2>1. record = m /\ IsStored(m) /\ HasCandidate(m)
    BY <1>2, <1>5, StoredIs, FineIs DEF JobFits
  <2>2. PlaceFits("candidate", m) /\ PlaceSaw("candidate")
    BY <1>2, <1>5, <2>1 DEF PlaceFits, PlaceSaw, Reading, Copying
  <2> QED
    BY <1>1, <1>2, <1>3, <1>5, <2>2, ContinueFits DEF Continue
<1>6. CASE m.state = "pending" /\ Continue("cancel")
  <2>1. PlaceFits("cancel", m) /\ PlaceSaw("cancel")
    BY <1>2, <1>6 DEF PlaceFits, PlaceSaw, Reading, Copying
  <2> QED
    BY <1>1, <1>2, <1>3, <1>6, <2>1, ContinueFits DEF Continue
<1>7. CASE /\ m.state # "replacing"
           /\ ~(m.state = "pending" /\ m.attempts = 0 /\ m.bytes = Old)
           /\ Continue("open")
  <2>1. m.bytes = New
    <3>1. m.state \in {"pending", "attempting"}
      BY <1>2, <1>7 DEF JobFits, IsWorkable
    <3>2. /\ m.state = "attempting" => m.bytes = New
          /\ m.state = "pending" => IsSealed(m)
          /\ m.bytes \in {Unsealed, Old, New} /\ m.attempts \in Nat
      BY <1>2, FineIs
    <3>3. m.attempts >= 1 => m.bytes = New
      BY <1>2 DEF Fine
    <3> QED
      BY <1>7, <3>1, <3>2, <3>3 DEF IsSealed
  <2>2. PlaceFits("open", m) /\ PlaceSaw("open")
    BY <1>2, <2>1 DEF PlaceFits, PlaceSaw, Reading, Copying
  <2> QED
    BY <1>1, <1>2, <1>3, <1>7, <2>2, ContinueFits DEF Continue
<1>8. CASE Mismatch
  BY <1>1, <1>2, <1>8, MismatchFits
<1> QED
  BY <1>4, <1>5, <1>6, <1>7, <1>8 DEF ReadSource, Read

(* The job goes, with or without its file, and nothing is lost of what was    *)
(* sent.                                                                      *)
LEMMA RemovedFits ==
  ASSUME ReplacementInvariant, record' = NoManifest, ~temp,
         file' \in {"sealed", "gone"},
         worker' \in WorkerType, worker'.pc \in Errors \cup {"check"},
         LockFits', service = "up",
         UNCHANGED <<temp, quarantined, source, service, refresher, published,
                     touched, wanted, local, server, late>>,
         waiting' \in BOOLEAN, trouble' \in 0..MaxTrouble,
         touched = {} /\ remote[Old].trashed => published
  PROVE  ReplacementInvariant'
<1>1. ~IsStored(record')
  BY StoredIs
<1>2. RecordFits' /\ FileFits'
  BY <1>1 DEF ReplacementInvariant, RecordFits, FileFits, IsReplacement
<1>3. UNCHANGED <<catalog, remote, albums, pins, relations>>
  BY DEF local, server
<1>4. RecordSays'
  BY <1>1, <1>3 DEF ReplacementInvariant, RecordSays, Finished
<1>5. NamesFit' /\ RowsFit'
  BY <1>3, RowsStay DEF ReplacementInvariant
<1>6. WorkerFits'
  BY DEF WorkerFits, PlaceFits, PlaceSaw, Reading, Copying, Held, Errors
<1>7. OtherTypes'
  BY <1>3 DEF ReplacementInvariant, OtherTypes
<1>8. RefresherFits'
  BY SameRefresher DEF ReplacementInvariant
<1> QED
  BY <1>2, <1>4, <1>5, <1>6, <1>7, <1>8 DEF ReplacementInvariant

(* The job that the worker may cancel is the pending one that it has read.    *)
LEMMA Cancelled ==
  ASSUME ReplacementInvariant, worker.pc = "cancel", IsStored(record),
         record.revision = worker.job.revision
  PROVE  /\ record = worker.job /\ Fine(record) /\ record.state = "pending"
         /\ ~HasCandidate(record) /\ ~record.verified
         /\ touched = {} /\ remote[Old].trashed => published
         /\ file # "open"
<1>1. worker.pc \in Reading
  BY DEF Reading
<1>2. JobFits(worker.job) /\ Fine(worker.job)
  BY <1>1, JobIs
<1>3. worker.job.state = "pending"
  BY DEF ReplacementInvariant, WorkerFits, PlaceFits
<1>4. record = worker.job
  BY <1>2, FineIs DEF JobFits
<1>5. ~record.verified /\ ~HasCandidate(record)
  BY <1>2, <1>3, <1>4, FineIs
<1>6. touched = {} /\ remote[Old].trashed => published
  BY <1>5 DEF ReplacementInvariant, RecordSays, RecordFits, HalfDone
<1>7. file # "open"
  BY <1>3, <1>4 DEF ReplacementInvariant, FileFits
<1> QED
  BY <1>2, <1>3, <1>4, <1>5, <1>6, <1>7

LEMMA CancelUnchangedFits ==
  ASSUME ReplacementInvariant, CancelUnchanged PROVE ReplacementInvariant'
<1> DEFINE m == worker.job
<1>1. /\ worker.pc = "cancel" /\ "cancel" \in Held
      /\ UNCHANGED <<quarantined, source, service, refresher, published, touched,
                     wanted>>
  BY DEF CancelUnchanged, At, Held
<1>2. Holds("worker") /\ service = "up"
  BY <1>1, Holding
<1>3. CASE Raise("local") /\ UNCHANGED file
  BY <1>1, <1>2, <1>3, RaiseFits DEF Errors, Quiet
<1>4. CASE /\ IsStored(record) /\ record.revision = m.revision
           /\ Save(NoManifest) /\ waiting' = FALSE /\ file' = "gone"
           /\ worker' = Checking /\ Release
           /\ UNCHANGED <<local, server, late, trouble>>
  <2>1. touched = {} /\ remote[Old].trashed => published
    BY <1>1, <1>4, Cancelled
  <2>2. record' = NoManifest /\ ~temp /\ temp' = temp
    BY <1>4 DEF Save
  <2>3. worker' \in WorkerType /\ worker'.pc = "check"
    BY <1>4, CheckingIs
  <2>4. LockFits'
    <3>1. worker'.pc \notin Held \cup {"begin"}
      BY <2>3, NowhereFits
    <3> QED
      BY <1>1, <1>2, <1>4, <3>1, WorkerLeaves DEF ReplacementInvariant
  <2>5. waiting' \in BOOLEAN /\ trouble' \in 0..MaxTrouble
    BY <1>4 DEF ReplacementInvariant, OtherTypes
  <2> QED
    BY <1>1, <1>2, <1>4, <2>1, <2>2, <2>3, <2>4, <2>5, RemovedFits
<1>5. CASE /\ worker' = Checking /\ Release
           /\ UNCHANGED <<disk, waiting, file, local, server, late, trouble>>
  <2>1. waiting' \in BOOLEAN /\ trouble' \in 0..MaxTrouble
    BY <1>5 DEF ReplacementInvariant, OtherTypes
  <2>2. worker' \in WorkerType /\ worker'.pc = "check" /\ Quiet
    BY <1>1, <1>5, CheckingIs DEF Quiet
  <2> QED
    BY <1>1, <1>2, <1>5, <2>1, <2>2, LeaveFits DEF Changes
<1> QED
  BY <1>3, <1>4, <1>5 DEF CancelUnchanged

LEMMA RemoveJobFits == ASSUME ReplacementInvariant, RemoveJob PROVE ReplacementInvariant'
<1>1. /\ worker.pc = "remove" /\ record' = NoManifest /\ file' = "gone"
      /\ worker' = Checking /\ ~temp
      /\ UNCHANGED <<temp, quarantined, waiting, source, service, refresher,
                     published, touched, wanted, local, server, late, lock, trouble>>
  BY DEF RemoveJob, At, history, Save
<1>2. Finished
  BY <1>1 DEF ReplacementInvariant, WorkerFits, PlaceFits, Finished
<1>3. touched = {} => published
  BY <1>2 DEF ReplacementInvariant, RecordSays
<1>4. service = "up"
  BY <1>1, WorkerIsUp DEF ReplacementInvariant
<1>5. worker' \in WorkerType /\ worker'.pc = "check"
  BY <1>1, CheckingIs
<1>6. LockFits'
  <2>1. worker'.pc \notin Held \cup {"begin"} /\ worker.pc \notin Held \cup {"begin"}
    BY <1>1, <1>5, NowhereFits DEF Held, Copying
  <2> QED
    BY <1>1, <2>1, WorkerElsewhere DEF ReplacementInvariant
<1>7. waiting' \in BOOLEAN /\ trouble' \in 0..MaxTrouble
  BY <1>1 DEF ReplacementInvariant, OtherTypes
<1> QED
  BY <1>1, <1>3, <1>4, <1>5, <1>6, <1>7, RemovedFits

LEMMA RemoveFailsFits ==
  ASSUME ReplacementInvariant, RemoveFails PROVE ReplacementInvariant'
<1>1. /\ worker.pc = "remove" /\ file' = "gone" /\ worker' = Checking /\ Trouble
      /\ UNCHANGED <<record, temp, quarantined, waiting, source, local, server,
                     service, lock, refresher, published, late, touched, wanted>>
  BY DEF RemoveFails, At, queue, disk, history
<1>2. Finished
  BY <1>1 DEF ReplacementInvariant, WorkerFits, PlaceFits, Finished
<1>3. worker' \in WorkerType /\ worker'.pc = "check"
  BY <1>1, CheckingIs
<1>4. LockFits'
  <2>1. worker'.pc \notin Held \cup {"begin"} /\ worker.pc \notin Held \cup {"begin"}
    BY <1>1, <1>3, NowhereFits DEF Held, Copying
  <2> QED
    BY <1>1, <2>1, WorkerElsewhere DEF ReplacementInvariant
<1>5. UNCHANGED <<catalog, remote, albums, pins, relations>>
  BY <1>1 DEF local, server
<1>6. OtherTypes'
  <2>1. trouble' \in 0..MaxTrouble
    BY <1>1, TroubleIs DEF ReplacementInvariant
  <2> QED
    BY <1>1, <1>5, <2>1 DEF ReplacementInvariant, OtherTypes
<1>7. RecordFits'
  BY <1>1 DEF ReplacementInvariant, RecordFits, IsReplacement, HasLeftover
<1>8. FileFits'
  BY <1>1, <1>2, <1>3 DEF FileFits, Finished
<1>9. RecordSays'
  BY <1>1, <1>5 DEF ReplacementInvariant, RecordSays, Finished, HalfDone
<1>10. NamesFit' /\ RowsFit'
  BY <1>1, <1>5, RowsStay DEF ReplacementInvariant
<1>11. WorkerFits'
  <2>1. service = "up"
    BY <1>1, WorkerIsUp DEF ReplacementInvariant
  <2> QED
    BY <1>1, <1>3, <2>1
    DEF WorkerFits, PlaceFits, PlaceSaw, Reading, Copying, Held
<1>12. RefresherFits'
  BY <1>1, SameRefresher DEF ReplacementInvariant
<1> QED
  BY <1>4, <1>6, <1>7, <1>8, <1>9, <1>10, <1>11, <1>12 DEF ReplacementInvariant

(* The worker goes on with a record that it has changed.                      *)
LEMMA RecordsFits ==
  ASSUME ReplacementInvariant, Quiet, NEW q \in {"send", "candidate", "reread"},
         Fine(record'), record'.op = record.op, IsSealed(record'),
         IsStored(record), IsSealed(record), record.state # "writing",
         record'.state \in {"attempting", "replacing"},
         record.verified => record'.verified,
         worker' = [pc |-> q, job |-> record'],
         PlaceFits(q, record)', PlaceSaw(q),
         UNCHANGED <<local, server, lock, late, trouble>>, temp' \in BOOLEAN,
         waiting' \in BOOLEAN, worker.pc \in Held
  PROVE  ReplacementInvariant'
<1>1. q \in Held /\ q \in Pcs /\ worker.pc # "check"
  BY DEF Held, Pcs, Copying
<1>2. worker' \in WorkerType /\ worker'.pc = q /\ worker'.job = record'
  BY <1>1, StoredIs DEF WorkerType
<1>3. Holds("worker") /\ service = "up"
  BY Holding
<1>4. UNCHANGED <<source, service, refresher, published, touched>>
  BY DEF Quiet
<1>5. LockFits'
  BY <1>1, <1>2, <1>3, <1>4, WorkerStays DEF ReplacementInvariant
<1>6. Changes
  BY StoredIs DEF Changes
<1>7. PlaceFits(worker.pc, worker.job)'
  BY <1>2
<1>8. UNCHANGED <<catalog, remote, albums>>
  BY DEF local, server
<1>9. PlaceSaw(worker.pc)'
  BY <1>2, <1>4, <1>8 DEF PlaceSaw, Named, Exists
<1>10. late' \in BOOLEAN /\ trouble' \in 0..MaxTrouble
  BY DEF ReplacementInvariant, OtherTypes
<1> QED
  BY <1>1, <1>2, <1>3, <1>5, <1>6, <1>7, <1>9, <1>10, WorkerMoves

(* The job that the worker may attempt is the one that it has read.           *)
LEMMA Attempted ==
  ASSUME ReplacementInvariant, worker.pc = "open", Admissible
  PROVE  /\ record = worker.job /\ Fine(record) /\ CanAttempt(record)
         /\ record.bytes = New /\ record.op = "replacement"
         /\ IsStored(record) /\ IsSealed(record) /\ ~record.verified
         /\ record.state \in {"pending", "attempting"}
<1>1. worker.pc \in Reading
  BY DEF Reading
<1>2. JobFits(worker.job) /\ Fine(worker.job)
  BY <1>1, JobIs
<1>3. worker.job.bytes = New /\ worker.job.op = "replacement"
  BY <1>2 DEF ReplacementInvariant, WorkerFits, PlaceFits, JobFits
<1>4. /\ IsStored(record) /\ CanAttempt(record)
      /\ record.revision = worker.job.revision
      /\ record.state \in {"pending", "attempting"}
  BY DEF Admissible, CanAttempt
<1>5. record = worker.job
  BY <1>2, <1>4, FineIs DEF JobFits
<1> QED
  BY <1>2, <1>3, <1>4, <1>5, FineIs

LEMMA OpenAttemptFits ==
  ASSUME ReplacementInvariant, OpenAttempt PROVE ReplacementInvariant'
<1>1. /\ worker.pc = "open" /\ Quiet /\ "open" \in Held
  BY DEF OpenAttempt, At, Held
<1>2. Holds("worker") /\ Named(Old, "target") /\ temp \in BOOLEAN
  BY <1>1, Holding DEF ReplacementInvariant, RecordFits
<1>3. CASE /\ Admissible
           /\ Save(Admit(Provisional(record))) /\ waiting' = FALSE
           /\ With(IF HasCandidate(record) THEN "candidate" ELSE "send", record')
           /\ UNCHANGED <<local, server, lock, late, trouble>>
  <2>1. /\ record = worker.job /\ Fine(record) /\ CanAttempt(record)
        /\ record.bytes = New /\ record.op = "replacement"
        /\ IsStored(record) /\ IsSealed(record) /\ ~record.verified
        /\ record.state # "writing"
    BY <1>1, <1>3, Attempted
  <2>2. record' = Admit(Provisional(record)) /\ temp' \in BOOLEAN
    BY <1>2, <1>3 DEF Save
  <2>3. /\ Later(record, record') /\ Same(record, record')
        /\ record'.state = "attempting" /\ record'.attempts >= 1
    BY <2>1, <2>2, AttemptIsFine
  <2>4. /\ Fine(record') /\ record'.op = record.op /\ IsStored(record')
        /\ HasCandidate(record') <=> HasCandidate(record)
        /\ IsSealed(record')
    BY <2>1, <2>3, StoredIs DEF Later, Same, HasCandidate, IsSealed
  <2>5. PlaceSaw("candidate") /\ PlaceSaw("send")
    BY <1>2 DEF PlaceSaw
  <2>6. CASE HasCandidate(record)
    <3>1. PlaceFits("candidate", record)'
      BY <2>3, <2>4, <2>6 DEF PlaceFits, Reading, Copying
    <3> QED
      BY <1>1, <1>3, <2>1, <2>2, <2>3, <2>4, <2>5, <2>6, <3>1, RecordsFits DEF With
  <2>7. CASE ~HasCandidate(record)
    <3>1. PlaceFits("send", record)'
      BY <2>3, <2>4, <2>7 DEF PlaceFits, Reading, Copying
    <3> QED
      BY <1>1, <1>3, <2>1, <2>2, <2>3, <2>4, <2>5, <2>7, <3>1, RecordsFits DEF With
  <2> QED
    BY <2>6, <2>7
<1>4. CASE worker' = Checking /\ Release
           /\ UNCHANGED <<disk, waiting, local, server, late, trouble>>
  <2>1. waiting' \in BOOLEAN /\ trouble' \in 0..MaxTrouble
    BY <1>4 DEF ReplacementInvariant, OtherTypes
  <2> QED
    BY <1>1, <1>2, <1>4, <2>1, CheckingIs, LeaveFits DEF Changes
<1> QED
  BY <1>3, <1>4 DEF OpenAttempt, With, Save, Admissible

LEMMA AcceptedFits == ASSUME ReplacementInvariant, Accepted PROVE ReplacementInvariant'
<1>1. /\ worker.pc = "reply" /\ Quiet /\ "reply" \in Held
      /\ record' = RecordCandidate(record, record.bytes) /\ temp' = temp
      /\ worker' = [pc |-> "candidate", job |-> record']
      /\ UNCHANGED <<waiting, local, server, lock, late, trouble>>
  BY DEF Accepted, At, Held, With, Save
<1>2. record = worker.job /\ Fine(record)
  BY <1>1, JobIs
<1>3. record.state = "attempting" /\ record.attempts >= 1 /\ Named(Old, "target")
  BY <1>1, Holding DEF ReplacementInvariant, WorkerFits, PlaceFits
<1>4. /\ Fine(record') /\ record'.state = "attempting" /\ HasCandidate(record')
      /\ record'.op = record.op /\ IsStored(record')
  BY <1>1, <1>2, <1>3, CandidateIsFine, StoredIs DEF Later
<1>5. IsSealed(record) /\ ~record.verified /\ IsSealed(record')
  BY <1>2, <1>3, <1>4, FineIs
<1>6. PlaceFits("candidate", record)'
  BY <1>4 DEF PlaceFits, Reading, Copying
<1>7. PlaceSaw("candidate")
  BY <1>3 DEF PlaceSaw
<1>8. waiting' \in BOOLEAN /\ temp' \in BOOLEAN
  BY <1>1 DEF ReplacementInvariant, OtherTypes, RecordFits
<1> QED
  BY <1>1, <1>2, <1>3, <1>4, <1>5, <1>6, <1>7, <1>8, RecordsFits, StoredIs

LEMMA ReadCandidateFits ==
  ASSUME ReplacementInvariant, ReadCandidate PROVE ReplacementInvariant'
<1> DEFINE c == worker.job.candidate
           m == IF record.state = "replacing" THEN record ELSE BeginReplacing(record)
<1>1. /\ worker.pc = "candidate" /\ Quiet /\ "candidate" \in Held
  BY DEF ReadCandidate, At, Held
<1>2. /\ record = worker.job /\ Fine(record) /\ c = New /\ HasCandidate(record)
      /\ record.state \in {"attempting", "replacing"} /\ worker.job.bytes = New
  BY <1>1, JobIs
<1>3. Holds("worker") /\ Named(Old, "target")
  BY <1>1, Holding
<1>4. CASE Raise("refused")
  BY <1>1, <1>3, <1>4, RaiseFits DEF Errors
<1>5. CASE Mismatch
  BY <1>1, <1>3, <1>5, MismatchFits
<1>6. CASE /\ CandidateIsGood
           /\ IF record.state = "replacing" THEN UNCHANGED disk
              ELSE Save(BeginReplacing(record))
           /\ waiting' = FALSE /\ With("reread", record')
           /\ UNCHANGED <<local, server, lock, late, trouble>>
  <2>0. record' = m /\ temp' \in BOOLEAN
    BY <1>6 DEF Save, disk, ReplacementInvariant, RecordFits
  <2>1. /\ Fine(record') /\ record'.state = "replacing" /\ record'.op = record.op
    BY <1>2, <2>0, BeginReplacingIsFine DEF Later
  <2>2. /\ IsSealed(record) /\ IsSealed(record') /\ record'.verified
        /\ IsStored(record) /\ IsStored(record')
    BY <1>2, <2>1, FineIs, StoredIs
  <2>3. PlaceFits("reread", record)'
    BY <2>1, <2>2 DEF PlaceFits, Reading, Copying
  <2>4. PlaceSaw("reread")
    BY <1>2, <1>3, <1>6 DEF PlaceSaw, CandidateIsGood, UploadMatches
  <2>5. worker' = [pc |-> "reread", job |-> record']
    BY <1>6 DEF With
  <2> QED
    BY <1>1, <1>2, <1>6, <2>0, <2>1, <2>2, <2>3, <2>4, <2>5, RecordsFits
<1> QED
  BY <1>4, <1>5, <1>6 DEF ReadCandidate

(* From the copy to the publication the record is the worker's.               *)
LEMMA CopyingOn ==
  ASSUME ReplacementInvariant, Quiet, NEW q \in Copying, Goto(q),
         UNCHANGED <<disk, waiting, local, server, lock, late>>,
         trouble' \in 0..MaxTrouble,
         worker.pc \in Copying \ {"notify"}, PlaceSaw(q)
  PROVE  ReplacementInvariant'
<1>1. worker.pc \in Held /\ q \in Held
  BY DEF Held
<1>2. record = worker.job /\ worker.job.state = "replacing" /\ Fine(record)
  BY JobIs
<1>3. PlaceFits(q, worker.job)
  BY <1>2, StoredIs DEF PlaceFits, Reading, Copying
<1> QED
  BY <1>1, <1>3, Holding, ContinueFits

LEMMA CopyingTo ==
  ASSUME ReplacementInvariant, Quiet, NEW q \in Copying, Continue(q),
         worker.pc \in Copying \ {"notify"}, PlaceSaw(q)
  PROVE  ReplacementInvariant'
<1>1. trouble' \in 0..MaxTrouble
  BY DEF Continue, ReplacementInvariant, OtherTypes
<1> QED
  BY <1>1, CopyingOn DEF Continue

LEMMA CopyingFails ==
  ASSUME ReplacementInvariant, Quiet, worker.pc \in Copying,
         Raise("refused") \/ Mismatch
  PROVE  ReplacementInvariant'
<1>1. worker.pc \in Held
  BY DEF Held
<1> QED
  BY <1>1, Holding, RaiseFits, MismatchFits DEF Errors

LEMMA Saw ==
  ASSUME ReplacementInvariant, worker.pc \in Copying \ {"notify"}
  PROVE  /\ Named(Old, "target")
         /\ touched = {} /\ worker.pc \in {"recheck", "final"} => remote[Old].trashed
         /\ ~late /\ worker.pc \in {"reread", "albums", "copy", "verify", "trash"} =>
              Exists(remote[New]) /\ remote[New].ours /\ ~remote[New].trashed
  BY DEF ReplacementInvariant, WorkerFits, PlaceSaw, Held

LEMMA RereadSourceFits ==
  ASSUME ReplacementInvariant, RereadSource PROVE ReplacementInvariant'
<1>1. /\ worker.pc = "reread" /\ Quiet
      /\ {"reread", "recheck", "albums"} \subseteq Copying \ {"notify"}
  BY DEF RereadSource, Read, At, Copying
<1>2. CASE remote[Old].trashed /\ Continue("recheck")
  <2>1. PlaceSaw("recheck")
    BY <1>1, <1>2, Saw DEF PlaceSaw
  <2> QED
    BY <1>1, <1>2, <2>1, CopyingTo
<1>3. CASE Continue("albums")
  <2>1. PlaceSaw("albums")
    BY <1>1, Saw DEF PlaceSaw
  <2> QED
    BY <1>1, <1>3, <2>1, CopyingTo
<1>4. CASE Raise("refused") \/ Mismatch
  BY <1>1, <1>4, CopyingFails
<1> QED
  BY <1>2, <1>3, <1>4 DEF RereadSource, Read

LEMMA RecheckAlbumsFits ==
  ASSUME ReplacementInvariant, RecheckAlbums PROVE ReplacementInvariant'
<1>1. /\ worker.pc = "recheck" /\ Quiet
      /\ {"recheck", "final"} \subseteq Copying \ {"notify"}
  BY DEF RecheckAlbums, At, Copying
<1>2. PlaceSaw("final")
  BY <1>1, Saw DEF PlaceSaw
<1> QED
  BY <1>1, <1>2, CopyingTo, CopyingFails DEF RecheckAlbums

LEMMA ReadAlbumsFits ==
  ASSUME ReplacementInvariant, ReadAlbums PROVE ReplacementInvariant'
<1>1. /\ worker.pc = "albums" /\ Quiet
      /\ {"albums", "copy"} \subseteq Copying \ {"notify"}
  BY DEF ReadAlbums, At, Copying
<1>2. PlaceSaw("copy")
  BY <1>1, Saw DEF PlaceSaw
<1> QED
  BY <1>1, <1>2, CopyingTo, CopyingFails DEF ReadAlbums

LEMMA VerifyCopyFits ==
  ASSUME ReplacementInvariant, VerifyCopy PROVE ReplacementInvariant'
<1>1. /\ worker.pc = "verify" /\ Quiet
      /\ {"verify", "trash"} \subseteq Copying \ {"notify"}
  BY DEF VerifyCopy, Read, At, Copying
<1>2. worker.job.candidate = New
  BY <1>1, JobIs
<1>3. CASE /\ HasExpectedAlbums(Old) /\ HasExpectedAlbums(worker.job.candidate)
           /\ SourceMatches(remote[Old], FALSE)
           /\ Continue("trash")
  <2>1. PlaceSaw("trash")
    BY <1>1, <1>2, <1>3, Saw DEF PlaceSaw, HasExpectedAlbums, SourceMatches
  <2> QED
    BY <1>1, <1>3, <2>1, CopyingTo
<1>4. CASE Raise("refused") \/ Mismatch
  BY <1>1, <1>4, CopyingFails
<1> QED
  BY <1>3, <1>4 DEF VerifyCopy, Read

LEMMA TrashLostFits ==
  ASSUME ReplacementInvariant, TrashLost PROVE ReplacementInvariant'
<1>1. /\ worker.pc = "trash" /\ Quiet
      /\ {"trash", "confirm"} \subseteq Copying \ {"notify"}
  BY DEF TrashLost, At, Copying
<1>2. PlaceSaw("confirm")
  BY <1>1, Saw DEF PlaceSaw
<1>3. trouble' \in 0..MaxTrouble
  BY TroubleIs DEF TrashLost, ReplacementInvariant
<1> QED
  BY <1>1, <1>2, <1>3, CopyingOn DEF TrashLost

LEMMA ConfirmTrashFits ==
  ASSUME ReplacementInvariant, ConfirmTrash PROVE ReplacementInvariant'
<1>1. /\ worker.pc = "confirm" /\ Quiet
      /\ {"confirm", "final", "unconfirmed"} \subseteq Copying \ {"notify"}
  BY DEF ConfirmTrash, Read, At, Copying
<1>2. CASE remote[Old].trashed /\ Continue("final")
  <2>1. PlaceSaw("final")
    BY <1>1, <1>2, Saw DEF PlaceSaw
  <2> QED
    BY <1>1, <1>2, <2>1, CopyingTo
<1>3. CASE Continue("unconfirmed")
  <2>1. PlaceSaw("unconfirmed")
    BY <1>1, Saw DEF PlaceSaw
  <2> QED
    BY <1>1, <1>3, <2>1, CopyingTo
<1>4. CASE Raise("refused") \/ Mismatch
  BY <1>1, <1>4, CopyingFails
<1> QED
  BY <1>2, <1>3, <1>4 DEF ConfirmTrash, Read

LEMMA UnconfirmedFits ==
  ASSUME ReplacementInvariant, Unconfirmed PROVE ReplacementInvariant'
<1>1. /\ worker.pc = "unconfirmed" /\ Quiet /\ "unconfirmed" \in Held
  BY DEF Unconfirmed, At, Held, Copying
<1> QED
  BY <1>1, Holding, RaiseFits DEF Unconfirmed, Errors

-----------------------------------------------------------------------------
(* The server changes.                                                        *)

LEMMA ServerFits ==
  ASSUME NamesFit, RowsFit, RecordSays,
         UNCHANGED <<record, quarantined, local, published, wanted>>,
         Exists(remote'[Old]) => Exists(remote[Old]),
         touched' = {} =>
           /\ touched = {}
           /\ Exists(remote[Old]) => Exists(remote'[Old])
           /\ Exists(remote[New]) => Exists(remote'[New])
           /\ Exists(remote'[New]) =>
                ~remote'[New].trashed \/ (Exists(remote[New]) /\ remote[New].trashed)
           /\ remote[Old].trashed => remote'[Old].trashed
           /\ remote'[Old].trashed =>
                remote[Old].trashed \/ (IsStored(record) /\ record.verified)
  PROVE  NamesFit' /\ RowsFit' /\ RecordSays'
<1>1. catalog' = catalog /\ pins' = pins
  BY DEF local
<1>2. NamesFit'
  BY <1>1 DEF NamesFit, Exists
<1>3. RowsFit'
  <2> SUFFICES ASSUME touched' = {} PROVE RowsFit'
    BY DEF RowsFit
  <2>1. /\ \A a : Exists(catalog'[a]) <=> Exists(catalog[a])
        /\ \A a, n : Named(a, n)' <=> Named(a, n)
        /\ \A a : Shows(a)' <=> Shows(a)
    BY <1>1 DEF Exists, Named, Shows
  <2>2. /\ Exists(remote'[Old])
        /\ Exists(remote'[New]) => ~remote'[New].trashed
        /\ catalog'[Old].trashed => remote'[Old].trashed
    BY <1>1 DEF RowsFit
  <2>3. published' => /\ Named(New, "target") /\ Shows(New)
                      /\ Exists(remote'[New]) /\ catalog[Old].trashed
    BY DEF RowsFit
  <2>4. published' => /\ Named(New, "target")' /\ Shows(New)'
                      /\ Exists(remote'[New]) /\ catalog'[Old].trashed
    BY <1>1, <2>3 DEF Named, Shows, Exists
  <2> QED
    BY <2>2, <2>4 DEF RowsFit, Exists
<1>4. RecordSays'
  BY DEF RecordSays, Finished, HalfDone
<1> QED
  BY <1>2, <1>3, <1>4

(* A request of the worker.                                                   *)
LEMMA RequestFits ==
  ASSUME ReplacementInvariant, Quiet, NEW q \in Held, Goto(q),
         UNCHANGED <<disk, waiting, local, lock, late, trouble>>,
         worker.pc \in Held, PlaceFits(q, worker.job), PlaceSaw(q)',
         remote' \in [Assets -> Asset \cup {NoRow}],
         albums' \in [Assets -> SUBSET Albums],
         NamesFit', RowsFit', RecordSays'
  PROVE  ReplacementInvariant'
<1>1. q \in Pcs /\ worker.pc # "check"
  BY DEF Pcs, Held, Copying
<1>2. worker' \in WorkerType /\ worker'.pc = q /\ worker'.job = worker.job
  BY <1>1, GoesTo DEF ReplacementInvariant
<1>3. Holds("worker") /\ service = "up"
  BY Holding
<1>4. UNCHANGED <<quarantined, source, file, service, refresher, published, touched,
                  wanted, record, temp>>
  BY DEF Quiet, disk
<1>5. LockFits'
  BY <1>2, <1>3, <1>4, WorkerStays DEF ReplacementInvariant
<1>6. PlaceFits(worker.pc, worker.job)'
  BY <1>2, <1>4 DEF PlaceFits, JobFits
<1>7. PlaceSaw(worker.pc)'
  BY <1>2
<1>8. OtherTypes'
  BY <1>4 DEF ReplacementInvariant, OtherTypes, local
<1>9. RecordFits' /\ FileFits'
  BY <1>1, <1>4
  DEF ReplacementInvariant, RecordFits, FileFits, HasLeftover, IsReplacement
<1>10. RefresherFits'
  BY <1>4, SameRefresher DEF ReplacementInvariant
<1>11. WorkerFits'
  BY <1>2, <1>3, <1>4, <1>6, <1>7 DEF WorkerFits
<1> QED
  BY <1>5, <1>8, <1>9, <1>10, <1>11 DEF ReplacementInvariant

LEMMA PostFits == ASSUME ReplacementInvariant, Post PROVE ReplacementInvariant'
<1> DEFINE m == worker.job
<1>1. /\ worker.pc = "send" /\ Quiet /\ {"send", "reply"} \subseteq Held
      /\ Goto("reply")
      /\ UNCHANGED <<disk, waiting, local, albums, lock, late, trouble>>
  BY DEF Post, At, Held
<1>2. /\ record = m /\ Fine(m) /\ m.bytes = New /\ Named(Old, "target")
  BY <1>1, JobIs, Holding
<1>3. PlaceFits("reply", m)
  BY <1>1 DEF ReplacementInvariant, WorkerFits, PlaceFits, Reading, Copying
<1>4. /\ catalog \in [Assets -> Row \cup {NoRow}]
      /\ remote \in [Assets -> Asset \cup {NoRow}]
      /\ albums' \in [Assets -> SUBSET Albums]
  BY <1>1 DEF ReplacementInvariant, OtherTypes
<1>5. catalog[Old].look \in BOOLEAN
  <2>1. catalog[Old] \in Row
    BY <1>2, <1>4, TheAssets DEF Named, Exists
  <2> QED
    BY <2>1 DEF Row
<1>6. /\ remote' \in [Assets -> Asset \cup {NoRow}] /\ remote'[Old] = remote[Old]
      /\ Exists(remote[New]) => remote'[New] = remote[New]
      /\ ~Exists(remote[New]) => Exists(remote'[New]) /\ ~remote'[New].trashed
  <2>1. CASE Exists(remote[New])
    BY <1>1, <1>2, <1>4, <2>1 DEF Post
  <2>2. CASE ~Exists(remote[New])
    <3>1. PICK b \in BOOLEAN :
             remote' = [remote EXCEPT ![New] =
               [trashed |-> FALSE, at |-> 0, look |-> catalog[Old].look, ours |-> b]]
      BY <1>2, <2>2 DEF Post
    <3> DEFINE x == [trashed |-> FALSE, at |-> 0, look |-> catalog[Old].look, ours |-> b]
    <3>2. x \in Asset /\ x.trashed = FALSE
      BY <1>5 DEF Asset
    <3> HIDE DEF x
    <3>3. remote' = [remote EXCEPT ![New] = x]
      BY <3>1 DEF x
    <3> QED
      BY <1>4, <2>2, <3>2, <3>3, TheAssets, RowIs
  <2> QED
    BY <2>1, <2>2
<1>7. UNCHANGED <<record, quarantined, published, wanted, touched>>
  BY <1>1 DEF Quiet, disk
<1>8. NamesFit' /\ RowsFit' /\ RecordSays'
  BY <1>1, <1>6, <1>7, ServerFits DEF ReplacementInvariant
<1>9. PlaceSaw("reply")'
  BY <1>1, <1>2 DEF PlaceSaw, Named, Exists, local
<1> QED
  BY <1>1, <1>3, <1>4, <1>6, <1>8, <1>9, RequestFits

LEMMA CopyAlbumsFits == ASSUME ReplacementInvariant, CopyAlbums PROVE ReplacementInvariant'
<1> DEFINE c == worker.job.candidate
<1>1. /\ worker.pc = "copy" /\ Quiet /\ {"copy", "verify"} \subseteq Copying \ {"notify"}
      /\ Copying \subseteq Held
  BY DEF CopyAlbums, At, Held, Copying
<1>2. CASE Raise("refused")
  BY <1>1, <1>2, CopyingFails
<1>3. CASE /\ albums' = [albums EXCEPT ![c] = @ \cup albums[Old]] /\ Goto("verify")
           /\ UNCHANGED <<disk, waiting, local, remote, lock, late, trouble>>
  <2>1. record = worker.job /\ worker.job.state = "replacing" /\ Fine(record) /\ c = New
    BY <1>1, JobIs
  <2>2. PlaceFits("verify", worker.job)
    BY <2>1, StoredIs DEF PlaceFits, Reading, Copying
  <2>3. /\ albums' \in [Assets -> SUBSET Albums]
        /\ remote' \in [Assets -> Asset \cup {NoRow}]
    BY <1>3, <2>1, TheAssets DEF ReplacementInvariant, OtherTypes
  <2>4. UNCHANGED <<record, quarantined, published, wanted, touched>> /\ remote' = remote
    BY <1>1, <1>3 DEF Quiet, disk
  <2>5. NamesFit' /\ RowsFit' /\ RecordSays'
    BY <1>3, <2>4, ServerFits DEF ReplacementInvariant
  <2>6. PlaceSaw("verify")'
    BY <1>1, <1>3, <2>4, Saw DEF PlaceSaw, Named, Exists, local
  <2> QED
    BY <1>1, <1>3, <2>2, <2>3, <2>5, <2>6, RequestFits
<1> QED
  BY <1>2, <1>3 DEF CopyAlbums

(* Into the trash, and nothing else.                                          *)
LEMMA TrashIs ==
  ASSUME NEW x \in Asset
  PROVE  InTrash(x) \in Asset /\ InTrash(x).trashed
<1>1. x.at + 1 \in Nat
  BY DEF Asset
<1>2. InTrash(x) \in Asset
  BY <1>1 DEF Asset, InTrash
<1>3. InTrash(x).trashed = TRUE
  BY DEF Asset, InTrash
<1> QED
  BY <1>2, <1>3

LEMMA TrashSourceFits == ASSUME ReplacementInvariant, TrashSource PROVE ReplacementInvariant'
<1>1. /\ worker.pc = "trash" /\ Quiet /\ {"trash", "confirm"} \subseteq Copying \ {"notify"}
      /\ Copying \subseteq Held /\ Goto("confirm")
      /\ UNCHANGED <<disk, waiting, local, albums, lock, late, trouble>>
  BY DEF TrashSource, At, Held, Copying
<1>2. record = worker.job /\ worker.job.state = "replacing" /\ Fine(record)
      /\ worker.job.verified
  BY <1>1, JobIs
<1>3. PlaceFits("confirm", worker.job)
  BY <1>2, StoredIs DEF PlaceFits, Reading, Copying
<1>4. /\ remote \in [Assets -> Asset \cup {NoRow}]
      /\ albums' \in [Assets -> SUBSET Albums]
  BY <1>1 DEF ReplacementInvariant, OtherTypes
<1>5. /\ remote' \in [Assets -> Asset \cup {NoRow}] /\ remote'[New] = remote[New]
      /\ Exists(remote'[Old]) <=> Exists(remote[Old])
      /\ remote[Old].trashed => remote'[Old].trashed
  <2>1. CASE remote' = remote
    BY <1>4, <2>1
  <2>2. CASE Exists(remote[Old]) /\ remote' = [remote EXCEPT ![Old] = InTrash(@)]
    <3>1. remote[Old] \in Asset
      BY <1>4, <2>2, TheAssets DEF Exists
    <3> QED
      BY <1>4, <2>2, <3>1, TrashIs, TheAssets, RowIs
  <2> QED
    BY <2>1, <2>2 DEF TrashSource
<1>6. UNCHANGED <<record, quarantined, published, wanted, touched>>
  BY <1>1 DEF Quiet, disk
<1>7. NamesFit' /\ RowsFit' /\ RecordSays'
  BY <1>1, <1>2, <1>5, <1>6, StoredIs, ServerFits DEF ReplacementInvariant
<1>8. PlaceSaw("confirm")'
  BY <1>1, Saw DEF PlaceSaw, Named, Exists, local
<1> QED
  BY <1>1, <1>3, <1>4, <1>5, <1>7, <1>8, RequestFits

-----------------------------------------------------------------------------
(* The publication, and what comes after it.                                  *)

LEMMA PublishFits == ASSUME ReplacementInvariant, Publish PROVE ReplacementInvariant'
<1> DEFINE c == worker.job.candidate
<1>1. /\ worker.pc = "final" /\ {"final", "notify"} \subseteq Copying
      /\ "final" # "notify" /\ Copying \subseteq Held
      /\ UNCHANGED <<quarantined, source, file, service, refresher, touched, wanted>>
  BY DEF Publish, At, Held, Copying
<1>2. /\ record = worker.job /\ worker.job.state = "replacing" /\ Fine(record) /\ c = New
  BY <1>1, JobIs
<1>3. /\ Holds("worker") /\ service = "up" /\ Named(Old, "target")
      /\ touched = {} => remote[Old].trashed
  BY <1>1, Holding, Saw
<1>4. CASE published' = published /\ (Raise("refused") \/ Raise("local") \/ Mismatch)
  <2>1. Quiet
    BY <1>1, <1>4 DEF Quiet
  <2> QED
    BY <1>1, <1>3, <1>4, <2>1, RaiseFits, MismatchFits DEF Errors
<1>5. CASE /\ CandidateIsGood /\ CanPublish(c)
           /\ PublishRows(c) /\ published' = TRUE /\ Goto("notify")
           /\ UNCHANGED <<disk, waiting, relations, server, lock, late, trouble>>
  <2>0. record' = record /\ temp' = temp
    BY <1>5 DEF disk
  <2>1. /\ catalog \in [Assets -> Row \cup {NoRow}]
        /\ remote \in [Assets -> Asset \cup {NoRow}] /\ pins \subseteq Assets
    BY DEF ReplacementInvariant, OtherTypes
  <2>2. ~published
    BY <1>3 DEF ReplacementInvariant, NamesFit, Named
  <2>3. /\ catalog[Old] \in Row /\ remote[New] \in Asset /\ ~remote[New].trashed
        /\ Exists(remote[New])
    BY <1>2, <1>3, <1>5, <2>1, TheAssets
    DEF Named, Exists, CandidateIsGood, UploadMatches
  <2> DEFINE x == [catalog[Old] EXCEPT !.name = "other", !.trashed = TRUE]
             y == [name |-> "target", trashed |-> FALSE, at |-> remote[New].at,
                   look |-> remote[New].look]
  <2>4. x \in Row /\ x.name = "other" /\ x.trashed = TRUE
    BY <2>3 DEF Row
  <2>5. y \in Row /\ y.name = "target" /\ y.trashed = FALSE
    BY <2>3 DEF Row, Asset
  <2>6. catalog' = [catalog EXCEPT ![Old] = x, ![New] = y]
    BY <1>2, <1>5, <2>1, TheAssets DEF PublishRows
  <2> HIDE DEF x, y
  <2>7. /\ catalog' \in [Assets -> Row \cup {NoRow}]
        /\ catalog'[Old] = x /\ catalog'[New] = y
        /\ Exists(catalog'[Old]) /\ Exists(catalog'[New])
    BY <2>1, <2>4, <2>5, <2>6, TheAssets, RowIs
  <2>8. /\ pins' = (pins \ {Old, New}) \cup (IF Old \in pins THEN {New} ELSE {})
        /\ pins' \subseteq Assets /\ (New \in pins' <=> Old \in pins)
    BY <1>2, <1>5, <2>1, TheAssets DEF PublishRows
  <2>9. Old \in pins <=> wanted
    BY <1>3, <2>2 DEF ReplacementInvariant, NamesFit, Named
  <2>10. UNCHANGED <<remote, albums, relations>>
    BY <1>5 DEF server
  <2>11. NamesFit'
    BY <1>1, <1>5, <2>4, <2>7, <2>8, <2>9 DEF NamesFit
  <2>12. RowsFit'
    BY <1>1, <1>2, <1>3, <1>5, <2>3, <2>4, <2>5, <2>7, <2>10
    DEF RowsFit, ReplacementInvariant, Named, Shows, Exists
  <2>13. RecordSays'
    BY <1>5 DEF RecordSays
  <2>14. OtherTypes'
    BY <1>1, <1>5, <2>7, <2>8, <2>10 DEF ReplacementInvariant, OtherTypes
  <2>15. RecordFits' /\ FileFits'
    BY <1>1, <1>5, <2>0
    DEF ReplacementInvariant, RecordFits, FileFits, HasLeftover, IsReplacement
  <2>16. RefresherFits'
    BY <1>1, SameRefresher DEF ReplacementInvariant
  <2>17. worker' \in WorkerType /\ worker'.pc = "notify" /\ worker'.job = worker.job
    BY <1>1, <1>5, GoesTo DEF ReplacementInvariant, Pcs
  <2>18. LockFits'
    BY <1>1, <1>3, <1>5, <2>17, WorkerStays DEF ReplacementInvariant
  <2>19. PlaceFits(worker.pc, worker.job)'
    BY <1>2, <2>0, <2>17, StoredIs DEF PlaceFits, Reading, Copying
  <2>20. PlaceSaw(worker.pc)'
    BY <1>5, <2>17 DEF PlaceSaw
  <2>21. WorkerFits'
    BY <1>1, <1>3, <2>17, <2>19, <2>20 DEF WorkerFits
  <2> QED
    BY <2>11, <2>12, <2>13, <2>14, <2>15, <2>16, <2>18, <2>21 DEF ReplacementInvariant
<1> QED
  BY <1>4, <1>5 DEF Publish

LEMMA CommitJobFits == ASSUME ReplacementInvariant, CommitJob PROVE ReplacementInvariant'
<1>1. /\ worker.pc = "notify" /\ "notify" \in Copying /\ Copying \subseteq Held
      /\ record' = Commit(record) /\ worker' = [pc |-> "remove", job |-> record']
      /\ temp' = temp
      /\ Release /\ Quiet /\ UNCHANGED <<waiting, local, server, late, trouble>>
  BY DEF CommitJob, At, Held, Copying, With, Save
<1>2. record = worker.job /\ record.state = "replacing" /\ Fine(record)
  BY <1>1, JobIs
<1>3. /\ Fine(record') /\ Same(record, record') /\ record'.state = "committed"
  BY <1>1, <1>2, CommitIsFine DEF Later
<1>4. Holds("worker") /\ service = "up"
  BY <1>1, Holding
<1>5. touched = {} => published
  BY <1>1 DEF ReplacementInvariant, WorkerFits, PlaceSaw
<1>6. Changes
  BY <1>1, <1>2, <1>3, <1>5, StoredIs
  DEF Changes, Same, IsSealed, ReplacementInvariant, RecordFits
<1>7. worker' \in WorkerType /\ worker'.pc = "remove"
  BY <1>1, <1>3, StoredIs DEF WorkerType, Pcs
<1>8. "remove" \notin Held \cup {"begin"}
  BY DEF Held, Copying
<1>9. UNCHANGED <<service, refresher>>
  BY <1>1 DEF Quiet
<1>10. LockFits'
  BY <1>1, <1>4, <1>7, <1>8, <1>9, WorkerLeaves DEF ReplacementInvariant
<1>11. PlaceFits(worker.pc, worker.job)'
  BY <1>3, <1>7, StoredIs DEF PlaceFits, Reading, Copying
<1>12. PlaceSaw(worker.pc)'
  BY <1>7, <1>8 DEF PlaceSaw
<1>13. waiting' \in BOOLEAN /\ late' \in BOOLEAN /\ trouble' \in 0..MaxTrouble
  BY <1>1 DEF ReplacementInvariant, OtherTypes
<1> QED
  BY <1>1, <1>4, <1>6, <1>7, <1>10, <1>11, <1>12, <1>13, WorkerMoves

LEMMA FailFits == ASSUME ReplacementInvariant, Fail PROVE ReplacementInvariant'
<1>1. /\ worker.pc \in Held /\ Release /\ Quiet
      /\ UNCHANGED <<disk, waiting, local, server, late>>
  BY DEF Fail, Talking, Held, Copying
<1>2. PICK why \in Errors : Goto(why)
  BY DEF Fail, Errors
<1>3. worker' \in WorkerType /\ worker'.pc = why
  BY <1>2, GoesTo DEF ReplacementInvariant, Pcs
<1>4. trouble' \in 0..MaxTrouble
  BY TroubleIs DEF Fail, ReplacementInvariant
<1>5. waiting' \in BOOLEAN
  BY <1>1 DEF ReplacementInvariant, OtherTypes
<1> QED
  BY <1>1, <1>3, <1>4, <1>5, Holding, LeaveFits DEF Changes

(* A call of the queue that raises leaves the record as it was, or as the     *)
(* call would have left it, or in between.                                    *)
LEMMA SavedChanges ==
  ASSUME ReplacementInvariant, IsStored(record), Fine(record'),
         record'.op = record.op, IsSealed(record') <=> IsSealed(record),
         record.state # "writing", record'.state # "writing",
         record.verified => record'.verified,
         record'.state # "committed", temp' \in BOOLEAN
  PROVE  Changes
  BY StoredIs DEF Changes

LEMMA QueueFailsFits ==
  ASSUME ReplacementInvariant, QueueFails PROVE ReplacementInvariant'
<1>1. /\ Fault /\ Goto("local") /\ Release /\ Quiet
      /\ UNCHANGED <<waiting, local, server, late>>
      /\ worker.pc \in Held
  BY DEF QueueFails, At, Held, Copying
<1>2. worker' \in WorkerType /\ worker'.pc = "local" /\ "local" \in Errors
  BY <1>1, GoesTo DEF ReplacementInvariant, Pcs, Errors
<1>3. waiting' \in BOOLEAN /\ trouble' \in 0..MaxTrouble
  BY <1>1, FaultIs DEF ReplacementInvariant, OtherTypes
<1>4. Holds("worker") /\ service = "up"
  BY <1>1, Holding
<1>5. ASSUME Changes PROVE ReplacementInvariant'
  BY <1>1, <1>2, <1>3, <1>4, <1>5, LeaveFits
<1>6. RecordFits /\ RecordSays /\ temp \in BOOLEAN
  BY DEF ReplacementInvariant, RecordFits
<1>7. CASE /\ worker.pc = "cancel" /\ IsStored(record)
           /\ record.revision = worker.job.revision
           /\ Unwritten \/ Save(Cancel(record)) \/ Save(NoManifest)
  <2>1. /\ Fine(record) /\ record.state = "pending" /\ ~HasCandidate(record)
        /\ touched = {} /\ remote[Old].trashed => published
        /\ file # "open"
    BY <1>7, Cancelled
  <2>2. CASE Unwritten
    BY <1>5, <1>6, <1>7, <2>1, <2>2, UnwrittenChanges
  <2>3. CASE Save(Cancel(record))
    <3>1. record' = Cancel(record) /\ temp' = temp
      BY <2>3 DEF Save
    <3>2. /\ Later(record, record') /\ Same(record, record')
          /\ record'.state = "cancelled"
      BY <2>1, <3>1, CancelIsFine
    <3> QED
      BY <1>5, <1>6, <1>7, <2>1, <3>1, <3>2, SavedChanges DEF Later, Same, IsSealed
  <2>4. CASE Save(NoManifest)
    <3>1. record' = NoManifest /\ ~temp /\ temp' = temp
      BY <2>4 DEF Save
    <3>2. /\ UNCHANGED <<quarantined, source, file, service, refresher, published,
                         touched, wanted>>
          /\ file' \in {"sealed", "gone"}
      BY <1>1, <2>1 DEF Quiet, ReplacementInvariant, OtherTypes
    <3>3. LockFits'
      <4>1. worker'.pc \notin Held \cup {"begin"}
        BY <1>2, NowhereFits
      <4> QED
        BY <1>1, <1>4, <3>2, <4>1, WorkerLeaves DEF ReplacementInvariant
    <3> QED
      BY <1>1, <1>2, <1>3, <1>4, <2>1, <3>1, <3>2, <3>3, RemovedFits
  <2> QED
    BY <1>7, <2>2, <2>3, <2>4
<1>8. CASE /\ worker.pc = "open" /\ Admissible
           /\ \/ Unwritten \/ Save(Admit(Provisional(record)))
              \/ ~temp /\ record' = Provisional(record) /\ temp' \in BOOLEAN
  <2>1. /\ Fine(record) /\ CanAttempt(record) /\ IsStored(record)
        /\ record.bytes = New /\ record.op = "replacement"
        /\ ~record.verified /\ record.state # "writing"
    BY <1>8, Attempted
  <2>2. CASE Unwritten
    BY <1>5, <1>6, <2>1, <2>2, UnwrittenChanges
  <2>3. CASE /\ record' \in {Provisional(record), Admit(Provisional(record))}
             /\ temp' \in BOOLEAN
    <3>1. /\ Later(record, record') /\ Same(record, record')
          /\ record'.state = "attempting"
      BY <2>1, <2>3, AttemptIsFine
    <3> QED
      BY <1>5, <2>1, <2>3, <3>1, SavedChanges DEF Later, Same, IsSealed
  <2> QED
    BY <1>6, <1>8, <2>2, <2>3 DEF Save
<1>9. CASE /\ worker.pc = "reply"
           /\ Unwritten \/ Save(RecordCandidate(record, record.bytes))
  <2>1. record = worker.job /\ Fine(record) /\ IsStored(record)
    BY <1>9, JobIs, StoredIs
  <2>2. record.state = "attempting" /\ record.attempts >= 1
    BY <1>9, <2>1 DEF ReplacementInvariant, WorkerFits, PlaceFits
  <2>3. CASE Unwritten
    BY <1>5, <1>6, <2>1, <2>2, <2>3, UnwrittenChanges
  <2>4. CASE Save(RecordCandidate(record, record.bytes))
    <3>1. record' = RecordCandidate(record, record.bytes) /\ temp' = temp
      BY <2>4 DEF Save
    <3>2. Fine(record') /\ record'.state = "attempting" /\ record'.op = record.op
      BY <2>1, <2>2, <3>1, CandidateIsFine DEF Later
    <3>3. IsSealed(record) /\ ~record.verified /\ IsSealed(record')
      BY <2>1, <2>2, <3>2, FineIs
    <3> QED
      BY <1>5, <1>6, <2>1, <2>2, <3>1, <3>2, <3>3, SavedChanges
  <2> QED
    BY <1>9, <2>3, <2>4
<1>10. CASE /\ worker.pc = "candidate" /\ record.state # "replacing"
            /\ Unwritten \/ Save(BeginReplacing(record))
  <2>1. /\ record = worker.job /\ Fine(record) /\ IsStored(record)
        /\ record.state = "attempting" /\ HasCandidate(record)
    BY <1>10, JobIs, StoredIs
  <2>2. CASE Unwritten
    BY <1>5, <1>6, <2>1, <2>2, UnwrittenChanges
  <2>3. CASE Save(BeginReplacing(record))
    <3>1. record' = BeginReplacing(record) /\ temp' = temp
      BY <2>3 DEF Save
    <3>2. Fine(record') /\ record'.state = "replacing" /\ record'.op = record.op
      BY <2>1, <3>1, BeginReplacingIsFine DEF Later
    <3>3. IsSealed(record) /\ ~record.verified /\ IsSealed(record')
      BY <2>1, <3>2, FineIs
    <3> QED
      BY <1>5, <1>6, <2>1, <3>1, <3>2, <3>3, SavedChanges
  <2> QED
    BY <1>10, <2>2, <2>3
<1>11. CASE worker.pc = "notify" /\ (Unwritten \/ Save(Commit(record)))
  <2>1. "notify" \in Copying
    BY DEF Copying
  <2>2. /\ Fine(record) /\ IsStored(record) /\ record.state = "replacing"
    BY <1>11, <2>1, JobIs, StoredIs
  <2>3. CASE Unwritten
    BY <1>5, <1>6, <2>2, <2>3, UnwrittenChanges
  <2>4. CASE Save(Commit(record))
    <3>1. record' = Commit(record) /\ temp' = temp
      BY <2>4 DEF Save
    <3>2. Later(record, record') /\ Same(record, record') /\ record'.state = "committed"
      BY <2>2, <3>1, CommitIsFine
    <3>3. touched = {} => published
      BY <1>11 DEF ReplacementInvariant, WorkerFits, PlaceSaw
    <3>4. Changes
      BY <1>6, <2>2, <3>1, <3>2, <3>3, StoredIs DEF Changes, Later, Same, IsSealed
    <3> QED
      BY <1>5, <3>4
  <2> QED
    BY <1>11, <2>3, <2>4
<1> QED
  BY <1>7, <1>8, <1>9, <1>10, <1>11 DEF QueueFails, At

LEMMA HandleFits == ASSUME ReplacementInvariant, Handle PROVE ReplacementInvariant'
<1>1. /\ worker.pc \in Errors /\ worker' = Checking /\ Quiet
      /\ UNCHANGED <<local, server, lock, late>>
      /\ \/ RetryRecord("upload-unavailable") \/ RetryRecord("ambiguous-response")
         \/ /\ UNCHANGED waiting
            /\ \/ BlockRecord("candidate-mismatch") \/ BlockRecord(UploadRejected)
               \/ BlockRecord("local-state-failed")
  BY DEF Handle, At, Errors
<1>2. RecordFits /\ RecordSays /\ OtherTypes /\ waiting \in BOOLEAN
  BY DEF ReplacementInvariant, OtherTypes
<1>3. Changes /\ waiting' \in BOOLEAN /\ trouble' \in 0..MaxTrouble
  BY <1>1, <1>2, Codes, BlockChanges, RetryChanges
<1>4. worker.pc \notin Held \cup {"begin"} /\ worker.pc # "check"
  BY <1>1, NowhereFits DEF Errors
<1>5. /\ worker' \in WorkerType /\ worker'.pc = "check"
  BY <1>1, CheckingIs
<1>6. service = "up" /\ UNCHANGED <<service, refresher>>
  BY <1>1, <1>4, WorkerIsUp DEF ReplacementInvariant, Quiet
<1>7. worker'.pc \notin Held \cup {"begin"}
  BY <1>5, NowhereFits
<1>8. LockFits'
  BY <1>1, <1>4, <1>6, <1>7, WorkerElsewhere DEF ReplacementInvariant
<1>9. PlaceFits(worker.pc, worker.job)' /\ PlaceSaw(worker.pc)'
  BY <1>5 DEF PlaceFits, PlaceSaw, Reading, Copying, Held
<1>10. late' \in BOOLEAN
  BY <1>1 DEF ReplacementInvariant, OtherTypes
<1> QED
  BY <1>1, <1>3, <1>4, <1>5, <1>6, <1>8, <1>9, <1>10, WorkerMoves

LEMMA WorkerStepFits == ASSUME ReplacementInvariant, WorkerStep PROVE ReplacementInvariant'
  BY PickFits, BeginFits, ReadSourceFits, CancelUnchangedFits, OpenAttemptFits,
     PostFits, AcceptedFits, ReadCandidateFits, RereadSourceFits, RecheckAlbumsFits,
     ReadAlbumsFits, CopyAlbumsFits, VerifyCopyFits, TrashSourceFits, TrashLostFits,
     ConfirmTrashFits, UnconfirmedFits, PublishFits, CommitJobFits, RemoveJobFits,
     RemoveFailsFits, QueueFailsFits, FailFits, HandleFits
  DEF WorkerStep

-----------------------------------------------------------------------------
(* The mount and the commands change a record that is not being worked on.    *)

LEMMA PlaceKept ==
  ASSUME PlaceFits(worker.pc, worker.job), IsStored(record), Fine(record),
         record.state \in {"writing", "pending", "blocked"},
         IsStored(record') =>
           /\ Fine(record')
           /\ \/ record'.revision > record.revision
              \/ record.state = "writing" /\ record'.revision >= record.revision,
         worker' = worker
  PROVE  PlaceFits(worker.pc, worker.job)'
<1> DEFINE m == worker.job
<1>1. worker.pc \notin {"send", "reply", "candidate"} \cup Copying
  BY DEF PlaceFits
<1>2. worker.pc # "remove"
  BY DEF PlaceFits
<1>3. ASSUME worker.pc \in Reading PROVE JobFits(m)'
  <2>1. JobFits(m) /\ Fine(m) /\ m.revision \in Nat /\ m.state = "pending"
    BY <1>3, StoredIs DEF PlaceFits, JobFits, IsWorkable
  <2>2. record.revision \in Nat /\ (record.revision > m.revision \/ record = m)
    BY <2>1, StoredIs DEF JobFits
  <2>3. IsStored(record') => record'.revision \in Nat
    BY StoredIs
  <2>4. IsStored(record') => record'.revision > m.revision
    BY <2>1, <2>2, <2>3
  <2> QED
    BY <2>1, <2>4 DEF JobFits
<1> QED
  BY <1>1, <1>2, <1>3 DEF PlaceFits

LEMMA OthersFit ==
  ASSUME ReplacementInvariant,
         UNCHANGED <<source, local, server, processes, history>>,
         waiting' \in BOOLEAN, file' \in {"open", "sealed", "gone"},
         trouble' \in 0..MaxTrouble,
         PlaceFits(worker.pc, worker.job)', RecordFits', FileFits', RecordSays'
  PROVE  ReplacementInvariant'
<1>1. UNCHANGED <<catalog, relations, pins, remote, albums, service, lock, worker,
                  refresher, published, late, touched, wanted>>
  BY DEF local, server, processes, history
<1>2. OtherTypes'
  BY <1>1 DEF ReplacementInvariant, OtherTypes
<1>3. NamesFit' /\ RowsFit'
  BY <1>1, RowsStay DEF ReplacementInvariant
<1>4. PlaceSaw(worker.pc)'
  BY <1>1 DEF ReplacementInvariant, WorkerFits, PlaceSaw, Named, Exists
<1>5. WorkerFits'
  BY <1>1, <1>4 DEF ReplacementInvariant, WorkerFits
<1>6. RefresherFits' /\ LockFits'
  BY <1>1 DEF ReplacementInvariant, RefresherFits, LockFits, Holds
<1> QED
  BY <1>2, <1>3, <1>5, <1>6 DEF ReplacementInvariant

LEMMA RenameLookFits ==
  ASSUME ReplacementInvariant, RenameLook PROVE ReplacementInvariant'
<1>1. /\ source = NoRow /\ Named(Old, "target")
      /\ source' = [at |-> catalog[Old].at, look |-> catalog[Old].look,
                    albums |-> relations]
      /\ UNCHANGED <<record, temp, quarantined, waiting, file, catalog, relations,
                     pins, remote, albums, service, lock, worker, refresher, published, late, touched,
                     wanted, trouble>>
  BY DEF RenameLook, disk, local, server, processes, history
<1>2. ~IsReplacement(record)
  BY <1>1 DEF ReplacementInvariant, RecordFits
<1>3. worker.pc # "trash"
  <2>1. worker.pc = "trash" => record.op = "replacement" /\ IsStored(record)
    BY JobIs, StoredIs DEF Copying
  <2> QED
    BY <1>2, <2>1 DEF IsReplacement
<1>4. source' \in SourceType
  <2>1. catalog[Old] \in Row /\ relations \in SUBSET Albums
    BY <1>1, TheAssets DEF ReplacementInvariant, OtherTypes, Named, Exists
  <2>2. catalog[Old].at \in Nat /\ catalog[Old].look \in BOOLEAN
    BY <2>1 DEF Row
  <2> QED
    BY <1>1, <2>1, <2>2 DEF SourceType
<1>5. OtherTypes'
  BY <1>1, <1>4 DEF ReplacementInvariant, OtherTypes
<1>6. RecordFits' /\ FileFits' /\ RecordSays'
  BY <1>1, <1>2
  DEF ReplacementInvariant, RecordFits, FileFits, RecordSays, IsReplacement,
      HasLeftover, Finished, HalfDone
<1>7. NamesFit' /\ RowsFit'
  BY <1>1, RowsStay DEF ReplacementInvariant, local
<1>8. PlaceFits(worker.pc, worker.job)'
  BY <1>1 DEF ReplacementInvariant, WorkerFits, PlaceFits, JobFits
<1>9. PlaceSaw(worker.pc)'
  BY <1>1, <1>3 DEF ReplacementInvariant, WorkerFits, PlaceSaw, Named, Exists
<1>10. WorkerFits'
  BY <1>1, <1>8, <1>9 DEF ReplacementInvariant, WorkerFits
<1>11. RefresherFits' /\ LockFits'
  BY <1>1 DEF ReplacementInvariant, RefresherFits, LockFits, Holds
<1> QED
  BY <1>5, <1>6, <1>7, <1>10, <1>11 DEF ReplacementInvariant

LEMMA RenameMarkFits ==
  ASSUME ReplacementInvariant, RenameMark PROVE ReplacementInvariant'
<1>1. /\ source # NoRow /\ IsStored(record) /\ CanMarkReplacement(record)
      /\ record' = MarkReplacement(record) /\ service = "up" /\ ~temp
      /\ UNCHANGED <<temp, quarantined, waiting, source, file, local, server,
                     processes, history, trouble>>
  BY DEF RenameMark, Save
<1>2. Fine(record)
  BY <1>1 DEF ReplacementInvariant, RecordFits
<1>3. /\ Fine(record') /\ record'.state = record.state /\ record'.bytes = record.bytes
      /\ ~record.verified /\ record'.revision >= record.revision
      /\ record.state # "writing" => record'.revision > record.revision
      /\ record.state \in {"writing", "pending"}
  BY <1>1, <1>2, MarkIsFine DEF CanMarkReplacement
<1>4. PlaceFits(worker.pc, worker.job)'
  BY <1>1, <1>2, <1>3, PlaceKept DEF ReplacementInvariant, WorkerFits, processes
<1>5. RecordFits'
  BY <1>1, <1>3 DEF ReplacementInvariant, RecordFits
<1>6. FileFits'
  BY <1>1, <1>3, StoredIs
  DEF ReplacementInvariant, FileFits, processes, IsSealed, Finished
<1>7. RecordSays'
  BY <1>1, <1>3
  DEF ReplacementInvariant, RecordSays, server, history, Finished, HalfDone
<1>8. waiting' \in BOOLEAN /\ file' \in {"open", "sealed", "gone"} /\ trouble' \in 0..MaxTrouble
  BY <1>1 DEF ReplacementInvariant, OtherTypes
<1> QED
  BY <1>1, <1>4, <1>5, <1>6, <1>7, <1>8, OthersFit

LEMMA SealFileFits ==
  ASSUME ReplacementInvariant, SealFile PROVE ReplacementInvariant'
<1>1. /\ file = "open" /\ file' = "sealed" /\ waiting' = (record.op = "ordinary")
      /\ ~temp
      /\ UNCHANGED <<temp, quarantined, source, local, server, processes, history,
                     trouble>>
  BY DEF SealFile, Save
<1>2. IsStored(record) /\ record.state = "writing" /\ Fine(record)
  BY <1>1 DEF ReplacementInvariant, FileFits, RecordFits
<1>3. PICK b \in Assets :
        record' = IF record.op = "ordinary"
                    THEN Retry(Seal(record, b), NoError) ELSE Seal(record, b)
  BY DEF SealFile, Save
<1> DEFINE s == Seal(record, b)
<1>4. /\ Fine(s) /\ s.revision > record.revision /\ s.state = "pending"
      /\ s.op = record.op /\ IsSealed(s)
  BY <1>2, SealIsFine DEF Later
<1>5. /\ Fine(record') /\ record'.revision > record.revision
      /\ record'.op = record.op /\ record'.state # "writing" /\ IsSealed(record')
      /\ record'.state # "committed"
  <2>1. CASE record.op # "ordinary"
    BY <1>3, <1>4, <2>1
  <2>2. CASE record.op = "ordinary"
    <3>1. CanRetry(s)
      BY <1>4 DEF CanRetry
    <3>2. record' = Retry(s, NoError)
      BY <1>3, <2>2
    <3> HIDE DEF s
    <3>3. Later(s, record') /\ Same(s, record') /\ IsWorkable(record')
      BY <1>4, <3>1, <3>2, RetryIsFine
    <3>4. record'.revision \in Nat /\ s.revision \in Nat /\ record.revision \in Nat
      BY <1>2, <1>4, <3>3, StoredIs DEF Later
    <3> QED
      BY <1>4, <3>3, <3>4 DEF Later, Same, IsSealed, IsWorkable
  <2> QED
    BY <2>1, <2>2
<1>6. PlaceFits(worker.pc, worker.job)'
  BY <1>1, <1>2, <1>5, PlaceKept DEF ReplacementInvariant, WorkerFits, processes
<1>7. RecordFits'
  BY <1>1, <1>2, <1>5 DEF ReplacementInvariant, RecordFits, IsReplacement
<1>8. FileFits'
  BY <1>1, <1>5 DEF FileFits
<1>9. RecordSays'
  <2>1. ~record.verified
    BY <1>2, FineIs
  <2> QED
    BY <1>1, <1>5, <2>1
    DEF ReplacementInvariant, RecordSays, server, history, Finished, HalfDone
<1>10. waiting' \in BOOLEAN /\ trouble' \in 0..MaxTrouble
  BY <1>1 DEF ReplacementInvariant, OtherTypes
<1> QED
  BY <1>1, <1>6, <1>7, <1>8, <1>9, <1>10, OthersFit

LEMMA TickFits == ASSUME ReplacementInvariant, Tick PROVE ReplacementInvariant'
<1>1. /\ waiting' = FALSE
      /\ UNCHANGED <<record, temp, quarantined, source, file, local, server,
                     processes, history, trouble>>
  BY DEF Tick, disk
<1>2. PlaceFits(worker.pc, worker.job)'
  BY <1>1 DEF ReplacementInvariant, WorkerFits, PlaceFits, JobFits, processes
<1>3. RecordFits' /\ FileFits' /\ RecordSays'
  BY <1>1 DEF ReplacementInvariant, RecordFits, FileFits, RecordSays, IsReplacement,
     HasLeftover, Finished, HalfDone, processes, server, history
<1>4. file' \in {"open", "sealed", "gone"} /\ trouble' \in 0..MaxTrouble
  BY <1>1 DEF ReplacementInvariant, OtherTypes
<1> QED
  BY <1>1, <1>2, <1>3, <1>4, OthersFit

LEMMA RetryUploadFits ==
  ASSUME ReplacementInvariant, RetryUpload PROVE ReplacementInvariant'
<1>1. /\ IsStored(record) /\ CanRetry(record) /\ record.state \in {"pending", "blocked"}
      /\ record' = Retry(record, NoError) /\ waiting' = FALSE /\ ~temp
      /\ UNCHANGED <<temp, quarantined, source, file, local, server, processes,
                     history>>
  BY DEF RetryUpload, IsReplacement, CanRetryAt, Save
<1>2. Fine(record)
  BY <1>1 DEF ReplacementInvariant, RecordFits
<1>3. Later(record, record') /\ Same(record, record') /\ IsWorkable(record')
  BY <1>1, <1>2, RetryIsFine
<1>4. PlaceFits(worker.pc, worker.job)'
  BY <1>1, <1>2, <1>3, PlaceKept DEF ReplacementInvariant, WorkerFits, processes, Later
<1>5. RecordFits'
  BY <1>1, <1>3 DEF ReplacementInvariant, RecordFits, IsReplacement, Later, Same
<1>6. FileFits'
  BY <1>1, <1>3
  DEF ReplacementInvariant, FileFits, Same, IsSealed, Finished, processes
<1>7. RecordSays'
  BY <1>1, <1>3, StoredIs
  DEF ReplacementInvariant, RecordSays, server, history, Same, Later, IsWorkable,
      Finished, HalfDone
<1>8. trouble' \in 0..MaxTrouble
  BY TroubleIs DEF RetryUpload, ReplacementInvariant
<1>9. file' \in {"open", "sealed", "gone"}
  BY <1>1 DEF ReplacementInvariant, OtherTypes
<1> QED
  BY <1>1, <1>4, <1>5, <1>6, <1>7, <1>8, <1>9, OthersFit

LEMMA CancelUploadFits ==
  ASSUME ReplacementInvariant, CancelUpload PROVE ReplacementInvariant'
<1>1. /\ IsStored(record) /\ record.state \in {"pending", "blocked"} /\ ~HasCandidate(record)
      /\ record' = NoManifest /\ waiting' = FALSE /\ file' = "gone" /\ ~temp
      /\ UNCHANGED <<temp, quarantined, source, local, server, processes, history,
                     trouble>>
  BY DEF CancelUpload, IsReplacement, CanCancel, Save
<1>2. Fine(record) /\ ~IsStored(record')
  BY <1>1, StoredIs DEF ReplacementInvariant, RecordFits
<1>3. PlaceFits(worker.pc, worker.job)'
  BY <1>1, <1>2, PlaceKept DEF ReplacementInvariant, WorkerFits, processes
<1>4. RecordFits' /\ FileFits'
  BY <1>1, <1>2 DEF ReplacementInvariant, RecordFits, FileFits, IsReplacement
<1>5. RecordSays'
  <2>1. ~record.verified
    BY <1>1, <1>2, FineIs
  <2> QED
    BY <1>1, <1>2, <2>1
    DEF ReplacementInvariant, RecordSays, server, history, Finished, HalfDone
<1>6. trouble' \in 0..MaxTrouble
  BY <1>1 DEF ReplacementInvariant, OtherTypes
<1> QED
  BY <1>1, <1>3, <1>4, <1>5, <1>6, OthersFit

LEMMA RetryUploadFailsFits ==
  ASSUME ReplacementInvariant, RetryUploadFails PROVE ReplacementInvariant'
<1>1. /\ IsStored(record) /\ record.state \in {"pending", "blocked"}
      /\ temp' = TRUE /\ Trouble
      /\ UNCHANGED <<record, quarantined, waiting, source, file, local, server,
                     processes, history>>
  BY DEF RetryUploadFails, IsReplacement, CanRetryAt
<1>2. PlaceFits(worker.pc, worker.job)'
  BY <1>1 DEF ReplacementInvariant, WorkerFits, PlaceFits, JobFits, processes
<1>3. RecordFits' /\ FileFits' /\ RecordSays'
  BY <1>1 DEF ReplacementInvariant, RecordFits, FileFits, RecordSays, IsReplacement,
     HasLeftover, Finished, HalfDone, processes, server, history
<1>4. /\ file' \in {"open", "sealed", "gone"} /\ trouble' \in 0..MaxTrouble
      /\ waiting' \in BOOLEAN
  BY <1>1, TroubleIs DEF ReplacementInvariant, OtherTypes
<1> QED
  BY <1>1, <1>2, <1>3, <1>4, OthersFit

LEMMA CancelUploadFailsFits ==
  ASSUME ReplacementInvariant, CancelUploadFails PROVE ReplacementInvariant'
<1>1. /\ IsStored(record) /\ record.state \in {"pending", "blocked"}
      /\ ~HasCandidate(record) /\ ~temp /\ Trouble
      /\ UNCHANGED <<quarantined, source, file, local, server, processes, history>>
      /\ \/ temp' = TRUE /\ UNCHANGED <<record, waiting>>
         \/ /\ record' \in {Cancel(record), NoManifest} /\ waiting' = FALSE
            /\ temp' = temp
  BY DEF CancelUploadFails, IsReplacement, CanCancel, Save
<1>2. Fine(record) /\ ~record.verified
  BY <1>1, FineIs DEF ReplacementInvariant, RecordFits
<1>3. /\ file' \in {"open", "sealed", "gone"} /\ trouble' \in 0..MaxTrouble
      /\ waiting' \in BOOLEAN
  BY <1>1, TroubleIs DEF ReplacementInvariant, OtherTypes
<1>4. CASE temp' = TRUE /\ UNCHANGED <<record, waiting>>
  <2>1. PlaceFits(worker.pc, worker.job)'
    BY <1>1, <1>4 DEF ReplacementInvariant, WorkerFits, PlaceFits, JobFits, processes
  <2>2. RecordFits' /\ FileFits' /\ RecordSays'
    BY <1>1, <1>4
    DEF ReplacementInvariant, RecordFits, FileFits, RecordSays, IsReplacement,
        HasLeftover, Finished, HalfDone, processes, server, history
  <2> QED
    BY <1>1, <1>3, <2>1, <2>2, OthersFit
<1>5. CASE record' = Cancel(record) /\ temp' = temp
  <2>1. /\ Later(record, record') /\ Same(record, record')
        /\ record'.state = "cancelled"
    BY <1>1, <1>2, <1>5, CancelIsFine
  <2>2. PlaceFits(worker.pc, worker.job)'
    BY <1>1, <1>2, <2>1, PlaceKept DEF ReplacementInvariant, WorkerFits, processes, Later
  <2>3. RecordFits'
    BY <1>1, <1>5, <2>1
    DEF ReplacementInvariant, RecordFits, IsReplacement, Later, Same
  <2>4. FileFits'
    BY <1>1, <2>1 DEF ReplacementInvariant, FileFits, Same, IsSealed, Finished, processes
  <2>5. RecordSays'
    BY <1>1, <1>2, <2>1
    DEF ReplacementInvariant, RecordSays, server, history, Finished, HalfDone
  <2> QED
    BY <1>1, <1>3, <2>2, <2>3, <2>4, <2>5, OthersFit
<1>6. CASE record' = NoManifest /\ temp' = temp
  <2>1. ~IsStored(record')
    BY <1>6, StoredIs
  <2>2. PlaceFits(worker.pc, worker.job)'
    BY <1>1, <1>2, <2>1, PlaceKept DEF ReplacementInvariant, WorkerFits, processes
  <2>3. RecordFits' /\ FileFits'
    BY <1>1, <1>6, <2>1
    DEF ReplacementInvariant, RecordFits, FileFits, IsReplacement
  <2>4. RecordSays'
    BY <1>1, <1>2, <2>1
    DEF ReplacementInvariant, RecordSays, server, history, Finished, HalfDone
  <2> QED
    BY <1>1, <1>3, <2>2, <2>3, <2>4, OthersFit
<1> QED
  BY <1>1, <1>4, <1>5, <1>6

-----------------------------------------------------------------------------
(* The refresh worker.                                                        *)

LEMMA PolicyIs ==
  ASSUME NEW m, IsStored(m) => Fine(m)
  PROVE  /\ Policy(m) \in Policies /\ Policy(m).hide \subseteq {New}
         /\ CandidateStays(m) => New \notin Policy(m).hide
         /\ HasCandidate(m) \/ New \notin Policy(m).hide
<1>1. Unsuppressed \in Policies /\ Unsuppressed.hide = {}
  BY DEF Unsuppressed, Policies
<1>2. CASE ~Relevant(m)
  BY <1>1, <1>2 DEF Policy
<1>3. CASE Relevant(m)
  <2>1. Fine(m) /\ IsSealed(m)
    BY <1>3 DEF Relevant, IsReplacement
  <2>2. m.bytes \in Assets /\ (HasCandidate(m) => m.candidate = New)
    BY <2>1 DEF Fine
  <2> DEFINE stays == IF CandidateStays(m) THEN {m.candidate} ELSE {}
             k == {Old} \cup stays
             h == IF HasCandidate(m) THEN {m.candidate} \ stays ELSE {}
             s == IF HasCandidate(m) THEN {} ELSE {m.bytes}
  <2>3. Policy(m) = [keep |-> k, hide |-> h, sign |-> s]
    BY <1>3 DEF Policy
  <2>4. /\ k \subseteq Assets /\ h \subseteq {New} /\ s \subseteq Nat
        /\ CandidateStays(m) => New \notin h
        /\ HasCandidate(m) \/ New \notin h
    BY <2>2, TheAssets DEF CandidateStays
  <2> HIDE DEF k, h, s
  <2>5. {New} \subseteq Assets
    BY TheAssets
  <2> QED
    BY <2>3, <2>4, <2>5 DEF Policies
<1> QED
  BY <1>2, <1>3

(* What a merge makes of rows that keep what they must.                       *)
LEMMA MergedFits ==
  ASSUME OtherTypes, NamesFit, RowsFit,
         NEW rows \in [Assets -> Row \cup {NoRow}], NEW listed \in SUBSET Listed,
         \A a \in Assets : rows[a] = catalog[a] \/ rows[a] = NoRow,
         \A a \in listed : rows[a] = catalog[a],
         Exists(remote[Old]) => rows[Old] = catalog[Old],
         touched = {} /\ published => rows[New] = catalog[New],
         catalog' = Merged(rows, listed),
         UNCHANGED <<pins, remote, published, touched, wanted>>
  PROVE  /\ catalog' \in [Assets -> Row \cup {NoRow}]
         /\ NamesFit' /\ RowsFit'
<1>1. /\ remote \in [Assets -> Asset \cup {NoRow}]
      /\ catalog \in [Assets -> Row \cup {NoRow}]
  BY DEF OtherTypes
<1>2. ASSUME NEW a \in listed
      PROVE  /\ Exists(remote[a]) /\ Staged(a, rows) \in Row
             /\ Exists(rows[a]) => Staged(a, rows).name = rows[a].name
             /\ ~Exists(rows[a]) /\ Exists(rows[Old]) /\ rows[Old].name = "target" =>
                  Staged(a, rows).name = "other"
             /\ Staged(a, rows).trashed = remote[a].trashed
  <2>1. a \in Assets /\ Exists(remote[a]) /\ remote[a] \in Asset
    BY <1>1, <1>2, RowIs DEF Listed, Exists
  <2> DEFINE free == \A b \in Assets : Exists(rows[b]) => rows[b].name # "target"
             n == IF Exists(rows[a]) THEN rows[a].name
                  ELSE IF remote[a].ours /\ free THEN "target" ELSE "other"
  <2>2. Staged(a, rows) = [name |-> n, trashed |-> remote[a].trashed,
                           at |-> remote[a].at, look |-> remote[a].look]
    BY DEF Staged
  <2>3. Exists(rows[a]) => rows[a] \in Row
    BY <2>1, RowIs DEF Exists
  <2>4. n \in {"target", "other"}
    BY <2>3 DEF Row
  <2>5. ~Exists(rows[a]) /\ Exists(rows[Old]) /\ rows[Old].name = "target" => n = "other"
    BY TheAssets
  <2>6. Exists(rows[a]) => n = rows[a].name
    OBVIOUS
  <2>7. /\ remote[a].trashed \in BOOLEAN /\ remote[a].at \in Nat
        /\ remote[a].look \in BOOLEAN
    BY <2>1 DEF Asset
  <2> HIDE DEF n
  <2>8. Staged(a, rows) \in Row
    BY <2>2, <2>4, <2>7 DEF Row
  <2> QED
    BY <2>1, <2>2, <2>5, <2>6, <2>8
<1>3. \A a \in Assets : catalog'[a] = IF a \in listed THEN Staged(a, rows) ELSE rows[a]
  BY DEF Merged
<1>4. catalog' \in [Assets -> Row \cup {NoRow}]
  BY <1>2 DEF Merged
<1>5. Old \in Assets /\ New \in Assets /\ Old # New
  BY TheAssets
<1>6. ASSUME NEW a \in {Old, New}, Exists(rows[a])
      PROVE  /\ Exists(catalog[a]) /\ rows[a] = catalog[a]
             /\ Exists(catalog'[a]) /\ catalog'[a].name = catalog[a].name
             /\ catalog'[a].trashed = IF a \in listed THEN remote[a].trashed
                                      ELSE catalog[a].trashed
  <2>1. rows[a] = catalog[a]
    BY <1>5, <1>6, RowIs
  <2>2. CASE a \in listed
    BY <1>2, <1>3, <1>5, <1>6, <2>1, <2>2, RowIs
  <2>3. CASE a \notin listed
    BY <1>3, <1>5, <1>6, <2>1, <2>3
  <2> QED
    BY <1>6, <2>1, <2>2, <2>3
<1>7. Exists(catalog'[Old]) => Exists(rows[Old])
  <2>1. CASE Old \in listed
    BY <1>2, <2>1 DEF NamesFit
  <2>2. CASE Old \notin listed
    BY <1>3, <1>5, <2>2
  <2> QED
    BY <2>1, <2>2
<1>8. ~published /\ Exists(catalog'[Old]) /\ Exists(catalog'[New]) =>
        catalog'[New].name = "other"
  <2> SUFFICES ASSUME ~published, Exists(catalog'[Old]), Exists(catalog'[New])
               PROVE  catalog'[New].name = "other"
    OBVIOUS
  <2>1. Exists(rows[Old]) /\ Exists(catalog[Old]) /\ rows[Old] = catalog[Old]
        /\ rows[Old].name = "target"
    BY <1>6, <1>7 DEF NamesFit
  <2>2. CASE Exists(rows[New])
    BY <1>6, <2>1, <2>2 DEF NamesFit
  <2>3. CASE ~Exists(rows[New])
    BY <1>2, <1>3, <1>5, <2>1, <2>3
  <2> QED
    BY <2>2, <2>3
<1>9. NamesFit'
  <2>1. Exists(remote'[Old]) => Exists(catalog'[Old])
    BY <1>6 DEF NamesFit
  <2>2. Exists(catalog'[Old]) => Exists(catalog[Old]) /\ catalog'[Old].name = catalog[Old].name
    BY <1>6, <1>7
  <2> QED
    BY <1>8, <2>1, <2>2 DEF NamesFit, Exists
<1>10. RowsFit'
  <2> SUFFICES ASSUME touched = {} PROVE RowsFit'
    BY DEF RowsFit
  <2>1. /\ Exists(remote[Old]) /\ (Exists(remote[New]) => ~remote[New].trashed)
        /\ catalog[Old].trashed => remote[Old].trashed
        /\ Exists(rows[Old])
    BY DEF RowsFit, NamesFit
  <2>2. catalog'[Old].trashed => remote[Old].trashed
    BY <1>6, <2>1
  <2>3. ASSUME published
        PROVE  /\ Named(New, "target")' /\ Shows(New)' /\ Exists(remote[New])
               /\ catalog'[Old].trashed
    <3>1. /\ Named(New, "target") /\ Shows(New) /\ Exists(remote[New])
          /\ catalog[Old].trashed /\ rows[New] = catalog[New]
      BY <2>3 DEF RowsFit
    <3>2. /\ Exists(catalog'[New]) /\ catalog'[New].name = "target" /\ ~catalog'[New].trashed
      BY <1>6, <2>1, <3>1 DEF Named, Shows
    <3>3. catalog'[Old].trashed
      BY <1>6, <2>1, <3>1
    <3> QED
      BY <3>1, <3>2, <3>3 DEF Named, Shows, Exists
  <2> QED
    BY <2>1, <2>2, <2>3 DEF RowsFit, Exists
<1> QED
  BY <1>4, <1>9, <1>10

(* A complete sweep with the policy of a job that may be out of date.         *)
LEMMA SweepFits ==
  ASSUME OtherTypes, NamesFit, RowsFit, NEW m, IsStored(m) => Fine(m),
         catalog' = FullyMerged(Policy(m)),
         UNCHANGED <<pins, remote, published, touched, wanted>>
  PROVE  /\ catalog' \in [Assets -> Row \cup {NoRow}]
         /\ NamesFit' /\ RowsFit'
<1> DEFINE p == Policy(m)
           rows == [a \in Assets |->
                      IF a \in p.keep \/ (a \in Listed /\ a \notin p.hide)
                        THEN catalog[a] ELSE NoRow]
           listed == Listed \ (p.keep \cup p.hide \cup p.sign)
<1>1. /\ p.hide \subseteq {New}
      /\ CandidateStays(m) => New \notin p.hide
      /\ HasCandidate(m) \/ New \notin p.hide
  BY PolicyIs
<1>2. catalog \in [Assets -> Row \cup {NoRow}]
  BY DEF OtherTypes
<1>3. catalog' = Merged(rows, listed)
  BY DEF FullyMerged
<1>4. /\ rows \in [Assets -> Row \cup {NoRow}] /\ listed \in SUBSET Listed
      /\ \A a \in Assets : rows[a] = catalog[a] \/ rows[a] = NoRow
      /\ \A a \in listed : rows[a] = catalog[a]
  BY <1>2 DEF Listed
<1>5. Exists(remote[Old]) => rows[Old] = catalog[Old]
  BY <1>1, TheAssets DEF Listed
<1>6. ASSUME touched = {}, published PROVE rows[New] = catalog[New]
  <2>1. /\ Named(New, "target") /\ Shows(New) /\ Exists(remote[New])
        /\ catalog[Old].trashed
    BY <1>6 DEF RowsFit
  <2>2. New \notin p.hide
    <3>1. CASE ~Relevant(m)
      BY <3>1 DEF Policy, Unsuppressed
    <3>2. CASE Relevant(m) /\ HasCandidate(m)
      <4>1. m.candidate = New
        BY <3>2 DEF Relevant, IsReplacement, Fine
      <4>2. CandidateStays(m)
        BY <2>1, <3>2, <4>1 DEF CandidateStays, Shows
      <4> QED
        BY <1>1, <4>2
    <3>3. CASE ~HasCandidate(m)
      BY <1>1, <3>3
    <3> QED
      BY <3>1, <3>2, <3>3
  <2> QED
    BY <2>1, <2>2, TheAssets DEF Listed
<1> HIDE DEF rows, listed
<1> QED
  BY <1>3, <1>4, <1>5, <1>6, MergedFits

(* A step of the refresher: the worker is not in the middle of its work when  *)
(* the rows change.                                                           *)
LEMMA RefreshFits ==
  ASSUME ReplacementInvariant,
         UNCHANGED <<queue, file, server, service, worker, history, pins>>,
         trouble' \in 0..MaxTrouble, relations' \subseteq Albums,
         catalog' \in [Assets -> Row \cup {NoRow}], NamesFit', RowsFit',
         RefresherFits', LockFits',
         worker.pc \notin Held \/ catalog' = catalog
  PROVE  ReplacementInvariant'
<1>1. UNCHANGED <<record, temp, quarantined, waiting, source, file, remote, albums,
                  service, worker, published, late, touched, wanted, pins>>
  BY DEF queue, disk, server, history
<1>2. RecordFits' /\ FileFits' /\ RecordSays'
  BY <1>1 DEF ReplacementInvariant, RecordFits, FileFits, RecordSays, IsReplacement,
     HasLeftover, Finished, HalfDone
<1>3. OtherTypes'
  BY <1>1 DEF ReplacementInvariant, OtherTypes
<1>4. PlaceSaw(worker.pc)'
  <2>1. CASE worker.pc \notin Held
    BY <1>1, <2>1 DEF PlaceSaw, Held, Copying
  <2>2. CASE catalog' = catalog
    BY <1>1, <2>2 DEF ReplacementInvariant, WorkerFits, PlaceSaw, Named, Exists
  <2> QED
    BY <2>1, <2>2
<1>5. WorkerFits'
  BY <1>1, <1>4 DEF ReplacementInvariant, WorkerFits, PlaceFits, JobFits
<1> QED
  BY <1>2, <1>3, <1>5 DEF ReplacementInvariant

LEMMA RefresherIsUp ==
  ASSUME RefresherFits, refresher.pc # "idle"
  PROVE  service = "up"
  BY DEF RefresherFits, Resting

LEMMA RestingFits ==
  ASSUME refresher' = Resting
  PROVE  RefresherFits' /\ refresher'.pc = "idle"
<1>1. Unsuppressed \in Policies
  BY DEF Unsuppressed, Policies
<1>2. ~IsStored(NoManifest)
  BY StoredIs
<1> QED
  BY <1>1, <1>2 DEF RefresherFits, Resting

LEMMA ListFits == ASSUME ReplacementInvariant, List PROVE ReplacementInvariant'
<1>1. /\ service = "up" /\ refresher.pc = "idle" /\ QueueFor("refresher")
      /\ UNCHANGED <<queue, file, server, service, worker, history, trouble, local>>
  BY DEF List, Loud
<1>2. UNCHANGED <<catalog, relations, pins, remote, published, touched, wanted>>
  BY <1>1 DEF local, server, history
<1>3. IsStored(record) => Fine(record)
  BY DEF ReplacementInvariant, RecordFits
<1>4. record \in Manifest \cup {NoManifest}
  BY <1>3, StoredIs DEF IsStored
<1>5. Policy(record) \in Policies /\ Unsuppressed \in Policies
  BY <1>3, PolicyIs DEF Unsuppressed, Policies
<1>6. RefresherFits' /\ refresher'.pc # "idle"
  <2>1. PICK pc \in {"incremental", "full"}, p \in Policies :
           refresher' = [pc |-> pc, job |-> record, policy |-> p]
    BY <1>5 DEF List
  <2> QED
    BY <1>1, <1>3, <1>4, <2>1 DEF RefresherFits
<1>7. LockFits'
  BY <1>1, <1>6, RefresherJoins DEF ReplacementInvariant
<1>8. NamesFit' /\ RowsFit'
  BY <1>1, <1>2, RowsStay DEF ReplacementInvariant
<1>9. /\ catalog' \in [Assets -> Row \cup {NoRow}] /\ relations' \subseteq Albums
      /\ trouble' \in 0..MaxTrouble
  BY <1>1, <1>2 DEF ReplacementInvariant, OtherTypes
<1> QED
  BY <1>1, <1>2, <1>6, <1>7, <1>8, <1>9, RefreshFits

LEMMA RefreshIncrementalFits ==
  ASSUME ReplacementInvariant, RefreshIncremental PROVE ReplacementInvariant'
<1>1. /\ Holds("refresher") /\ refresher.pc = "incremental"
      /\ refresher' = Resting /\ Release
      /\ UNCHANGED <<queue, file, server, service, worker, history, trouble>>
      /\ UNCHANGED <<relations, pins>>
  BY DEF RefreshIncremental, Loud
<1>2. PICK seen \in SUBSET Listed : catalog' = Merged(catalog, seen)
  BY DEF RefreshIncremental
<1>3. UNCHANGED <<remote, published, touched, wanted>>
  BY <1>1 DEF server, history
<1>4. catalog \in [Assets -> Row \cup {NoRow}] /\ relations' \subseteq Albums
      /\ trouble' \in 0..MaxTrouble
  BY <1>1 DEF ReplacementInvariant, OtherTypes
<1>5. catalog' \in [Assets -> Row \cup {NoRow}] /\ NamesFit' /\ RowsFit'
  BY <1>1, <1>2, <1>3, <1>4, MergedFits DEF ReplacementInvariant, Listed
<1>6. RefresherFits' /\ refresher'.pc = "idle" /\ service = "up"
  BY <1>1, RestingFits, RefresherIsUp DEF ReplacementInvariant
<1>7. LockFits' /\ worker.pc \notin Held
  BY <1>1, <1>6, RefresherLeaves, RefresherHolds DEF ReplacementInvariant
<1> QED
  BY <1>1, <1>4, <1>5, <1>6, <1>7, RefreshFits

LEMMA FallBackFits == ASSUME ReplacementInvariant, FallBack PROVE ReplacementInvariant'
<1>1. /\ Holds("refresher") /\ refresher.pc = "incremental"
      /\ refresher' = [refresher EXCEPT !.pc = "full"]
      /\ lock' = Append(Tail(lock), "refresher")
      /\ UNCHANGED <<queue, file, local, server, service, worker, history>>
  BY DEF FallBack
<1>2. UNCHANGED <<catalog, relations, pins, remote, published, touched, wanted>>
  BY <1>1 DEF local, server, history
<1>3. service = "up"
  BY <1>1, RefresherIsUp DEF ReplacementInvariant
<1>4. RefresherFits' /\ refresher'.pc # "idle"
  BY <1>1, <1>3 DEF ReplacementInvariant, RefresherFits
<1>5. LockFits'
  BY <1>1, <1>3, <1>4, RefresherAgain DEF ReplacementInvariant
<1>6. NamesFit' /\ RowsFit'
  BY <1>1, <1>2, RowsStay DEF ReplacementInvariant
<1>7. catalog' \in [Assets -> Row \cup {NoRow}] /\ relations' \subseteq Albums
  BY <1>2 DEF ReplacementInvariant, OtherTypes
<1>8. trouble' \in 0..MaxTrouble
  BY TroubleIs DEF FallBack, ReplacementInvariant
<1> QED
  BY <1>1, <1>2, <1>4, <1>5, <1>6, <1>7, <1>8, RefreshFits

LEMMA RefreshFullFits ==
  ASSUME ReplacementInvariant, RefreshFull PROVE ReplacementInvariant'
<1> DEFINE m == refresher.job
<1>1. /\ Holds("refresher") /\ refresher.pc = "full"
      /\ UNCHANGED <<queue, file, server, service, worker, history, trouble>>
      /\ UNCHANGED <<relations, pins>>
  BY DEF RefreshFull, Loud
<1>2. UNCHANGED <<remote, published, touched, wanted>>
  BY <1>1 DEF server, history
<1>3. service = "up" /\ worker.pc \notin Held /\ (IsStored(m) => Fine(m))
  BY <1>1, RefresherIsUp, RefresherHolds DEF ReplacementInvariant, RefresherFits
<1>4. catalog' \in [Assets -> Row \cup {NoRow}] /\ NamesFit' /\ RowsFit'
  <2>1. CASE catalog' = catalog
    <3>1. UNCHANGED local
      BY <1>1, <2>1 DEF local
    <3> QED
      BY <1>2, <2>1, <3>1, RowsStay DEF ReplacementInvariant, OtherTypes
  <2>2. CASE catalog' = FullyMerged(Policy(m))
    BY <1>1, <1>2, <1>3, <2>2, SweepFits DEF ReplacementInvariant
  <2> QED
    BY <2>1, <2>2 DEF RefreshFull
<1>5. RefresherFits' /\ LockFits'
  <2>1. CASE refresher' = Resting /\ Release
    BY <1>1, <1>3, <2>1, RestingFits, RefresherLeaves DEF ReplacementInvariant
  <2>2. CASE /\ refresher' = [refresher EXCEPT !.pc = "reconcile"]
             /\ lock' = Append(Tail(lock), "refresher")
    <3>1. RefresherFits' /\ refresher'.pc # "idle"
      BY <1>1, <1>3, <2>2 DEF ReplacementInvariant, RefresherFits
    <3> QED
      BY <1>1, <1>3, <2>2, <3>1, RefresherAgain DEF ReplacementInvariant
  <2> QED
    BY <2>1, <2>2 DEF RefreshFull
<1>6. relations' \subseteq Albums /\ trouble' \in 0..MaxTrouble
  BY <1>1 DEF ReplacementInvariant, OtherTypes
<1> QED
  BY <1>1, <1>3, <1>4, <1>5, <1>6, RefreshFits

LEMMA ReconcileFits == ASSUME ReplacementInvariant, Reconcile PROVE ReplacementInvariant'
<1>1. /\ Holds("refresher") /\ refresher.pc = "reconcile"
      /\ relations' = albums[Old] /\ refresher' = Resting /\ Release
      /\ UNCHANGED <<queue, file, server, service, worker, history, trouble>>
      /\ UNCHANGED <<catalog, pins>>
  BY DEF Reconcile, Loud
<1>2. UNCHANGED <<remote, published, touched, wanted>>
  BY <1>1 DEF server, history
<1>3. /\ catalog' \in [Assets -> Row \cup {NoRow}] /\ relations' \subseteq Albums
      /\ trouble' \in 0..MaxTrouble
  BY <1>1, TheAssets DEF ReplacementInvariant, OtherTypes
<1>4. NamesFit' /\ RowsFit'
  BY <1>1, <1>2
  DEF ReplacementInvariant, NamesFit, RowsFit, Exists, Named, Shows
<1>5. RefresherFits' /\ refresher'.pc = "idle" /\ service = "up"
  BY <1>1, RestingFits, RefresherIsUp DEF ReplacementInvariant
<1>6. LockFits'
  BY <1>1, <1>5, RefresherLeaves DEF ReplacementInvariant
<1> QED
  BY <1>1, <1>3, <1>4, <1>5, <1>6, RefreshFits

LEMMA RefresherStepFits ==
  ASSUME ReplacementInvariant, List \/ RefresherStep PROVE ReplacementInvariant'
  BY ListFits, RefreshIncrementalFits, FallBackFits, RefreshFullFits, ReconcileFits
  DEF RefresherStep

-----------------------------------------------------------------------------
(* The desktop.                                                               *)

LEMMA OutsideFits ==
  ASSUME ReplacementInvariant, UNCHANGED <<queue, file, processes, published>>,
         OtherTypes', NamesFit', RowsFit', RecordSays', PlaceSaw(worker.pc)'
  PROVE  ReplacementInvariant'
<1>1. UNCHANGED <<record, temp, quarantined, waiting, source, file, service, lock,
                  worker, refresher>>
  BY DEF queue, disk, processes
<1>2. RecordFits' /\ FileFits'
  BY <1>1
  DEF ReplacementInvariant, RecordFits, FileFits, IsReplacement, HasLeftover, Finished
<1>3. WorkerFits'
  BY <1>1 DEF ReplacementInvariant, WorkerFits, PlaceFits, JobFits
<1>4. RefresherFits' /\ LockFits'
  BY <1>1 DEF ReplacementInvariant, RefresherFits, LockFits, Holds
<1> QED
  BY <1>2, <1>3, <1>4 DEF ReplacementInvariant

LEMMA TogglePinFits ==
  ASSUME ReplacementInvariant, NEW a \in Assets, TogglePin(a)
  PROVE  ReplacementInvariant'
<1>1. /\ Named(a, "target") /\ Trouble
      /\ pins' = (IF wanted THEN pins \ {a} ELSE pins \cup {a}) /\ wanted' = ~wanted
      /\ UNCHANGED <<queue, file, server, processes, published, catalog, relations,
                     late, touched>>
  BY DEF TogglePin, Elsewhere
<1>2. UNCHANGED <<record, quarantined, waiting, source, file, remote, albums, service,
                  lock, worker>>
  BY <1>1 DEF queue, disk, server, processes
<1>3. wanted \in BOOLEAN /\ pins \subseteq Assets /\ a \in {Old, New} /\ Old # New
  BY TheAssets DEF ReplacementInvariant, OtherTypes
<1>4. OtherTypes'
  <2>1. trouble' \in 0..MaxTrouble
    BY <1>1, TroubleIs DEF ReplacementInvariant
  <2>2. pins' \subseteq Assets /\ wanted' \in BOOLEAN
    BY <1>1, <1>3
  <2> QED
    BY <1>1, <1>2, <2>1, <2>2 DEF ReplacementInvariant, OtherTypes
<1>5. NamesFit'
  <2>1. NamesFit
    BY DEF ReplacementInvariant
  <2>2. /\ Exists(catalog[a]) /\ catalog[a].name = "target"
    BY <1>1 DEF Named
  <2>3. ~published /\ Exists(catalog[Old]) => a = Old
    BY <1>3, <2>1, <2>2 DEF NamesFit
  <2>4. published => a = New
    BY <1>3, <2>1, <2>2 DEF NamesFit
  <2>5. ~published /\ Exists(catalog[Old]) => (Old \in pins' <=> wanted')
    BY <1>1, <1>3, <2>1, <2>3 DEF NamesFit
  <2>6. published => (New \in pins' <=> wanted')
    BY <1>1, <1>3, <2>1, <2>4 DEF NamesFit
  <2> QED
    BY <1>1, <1>2, <2>1, <2>5, <2>6 DEF NamesFit, Exists
<1>6. RowsFit' /\ RecordSays'
  BY <1>1, <1>2
  DEF ReplacementInvariant, RowsFit, RecordSays, Exists, Named, Shows, Finished, HalfDone
<1>7. PlaceSaw(worker.pc)'
  BY <1>1, <1>2 DEF ReplacementInvariant, WorkerFits, PlaceSaw, Named, Exists
<1> QED
  BY <1>1, <1>4, <1>5, <1>6, <1>7, OutsideFits

(* Trash and restore from the desktop wait for the worker to leave the lock.  *)
LEMMA DesktopFits ==
  ASSUME ReplacementInvariant, NEW a \in Assets, NEW x \in Asset, NEW b \in BOOLEAN,
         lock = <<>>, Exists(catalog[a]), Exists(remote[a]),
         remote' = [remote EXCEPT ![a] = x],
         catalog' = [catalog EXCEPT ![a].trashed = b],
         touched' # {}, touched' \subseteq {"removed", "restored"},
         trouble' \in 0..MaxTrouble,
         UNCHANGED <<queue, file, relations, pins, albums, processes, published,
                     late, wanted>>
  PROVE  ReplacementInvariant'
<1>1. UNCHANGED <<waiting, source, service, worker>>
  BY DEF queue, processes
<1>2. /\ remote \in [Assets -> Asset \cup {NoRow}]
      /\ catalog \in [Assets -> Row \cup {NoRow}]
  BY DEF ReplacementInvariant, OtherTypes
<1> DEFINE y == [catalog[a] EXCEPT !.trashed = b]
<1>3. catalog[a] \in Row
  BY <1>2, RowIs DEF Exists
<1>4. y \in Row /\ y.name = catalog[a].name
  BY <1>3 DEF Row
<1>5. catalog' = [catalog EXCEPT ![a] = y]
  OBVIOUS
<1> HIDE DEF y
<1>6. /\ catalog' \in [Assets -> Row \cup {NoRow}]
      /\ remote' \in [Assets -> Asset \cup {NoRow}]
      /\ \A c \in Assets : /\ Exists(catalog'[c]) <=> Exists(catalog[c])
                           /\ Exists(remote'[c]) <=> Exists(remote[c])
                           /\ catalog'[c].name = catalog[c].name
  BY <1>2, <1>4, <1>5, RowIs
<1>7. OtherTypes'
  BY <1>1, <1>6 DEF ReplacementInvariant, OtherTypes
<1>8. NamesFit'
  BY <1>6, TheAssets DEF ReplacementInvariant, NamesFit, Exists
<1>9. RowsFit' /\ RecordSays'
  BY DEF RowsFit, RecordSays
<1>10. worker.pc \notin Held
  BY DEF ReplacementInvariant, LockFits, Holds
<1>11. PlaceSaw(worker.pc)'
  BY <1>1, <1>10 DEF PlaceSaw, Held, Copying
<1> QED
  BY <1>7, <1>8, <1>9, <1>11, OutsideFits

(* Out of the trash again.                                                    *)
LEMMA RestoreIs ==
  ASSUME NEW x \in Asset
  PROVE  OutOfTrash(x) \in Asset
<1>1. x.at + 1 \in Nat
  BY DEF Asset
<1> QED
  BY <1>1 DEF Asset, OutOfTrash

LEMMA RestoreHereFits ==
  ASSUME ReplacementInvariant, NEW a \in Assets, RestoreHere(a)
  PROVE  ReplacementInvariant'
<1>1. remote[a] \in Asset
  BY RowIs DEF ReplacementInvariant, OtherTypes, RestoreHere, Exists
<1>2. OutOfTrash(remote[a]) \in Asset
  BY <1>1, RestoreIs
<1>3. trouble' \in 0..MaxTrouble
  BY TroubleIs DEF RestoreHere, ReplacementInvariant
<1>4. touched' # {} /\ touched' \subseteq {"removed", "restored"}
  BY DEF RestoreHere, ReplacementInvariant, OtherTypes
<1> QED
  BY <1>2, <1>3, <1>4, DesktopFits DEF RestoreHere

LEMMA TrashHereFits ==
  ASSUME ReplacementInvariant, NEW a \in Assets, TrashHere(a)
  PROVE  ReplacementInvariant'
<1>1. remote[a] \in Asset
  BY RowIs DEF ReplacementInvariant, OtherTypes, TrashHere, Exists
<1>2. InTrash(remote[a]) \in Asset
  BY <1>1, TrashIs
<1>3. remote' = [remote EXCEPT ![a] = InTrash(remote[a])]
  BY DEF TrashHere
<1>4. trouble' \in 0..MaxTrouble
  BY TroubleIs DEF TrashHere, ReplacementInvariant
<1>5. touched' # {} /\ touched' \subseteq {"removed", "restored"}
  BY DEF TrashHere, ReplacementInvariant, OtherTypes
<1> QED
  BY <1>2, <1>3, <1>4, <1>5, DesktopFits DEF TrashHere, Shows

-----------------------------------------------------------------------------
(* Other clients of the server.                                               *)

LEMMA ForeignFits ==
  ASSUME ReplacementInvariant, NEW a \in Assets, Foreign(a),
         remote' \in [Assets -> Asset \cup {NoRow}],
         albums' \in [Assets -> SUBSET Albums],
         \A b \in Assets \ {a} : remote'[b] = remote[b],
         Exists(remote'[Old]) => Exists(remote[Old]),
         touched' \subseteq {"removed", "restored"},
         touched' = {} =>
           /\ touched = {}
           /\ Exists(remote[Old]) => Exists(remote'[Old])
           /\ Exists(remote[New]) => Exists(remote'[New])
           /\ Exists(remote'[New]) =>
                ~remote'[New].trashed \/ (Exists(remote[New]) /\ remote[New].trashed)
           /\ Exists(remote[Old]) => (remote'[Old].trashed <=> remote[Old].trashed)
  PROVE  ReplacementInvariant'
<1>1. /\ Trouble /\ late' = (late \/ ReliedOn(a))
      /\ UNCHANGED <<queue, file, local, processes, published, wanted>>
  BY DEF Foreign
<1>2. UNCHANGED <<record, quarantined, waiting, source, catalog, relations, pins,
                  service, lock, worker>>
  BY <1>1 DEF queue, disk, local, processes
<1>3. late \in BOOLEAN /\ late' \in BOOLEAN
  BY <1>1 DEF ReplacementInvariant, OtherTypes, ReliedOn, At
<1>4. OtherTypes'
  <2>1. trouble' \in 0..MaxTrouble
    BY <1>1, TroubleIs DEF ReplacementInvariant
  <2> QED
    BY <1>1, <1>2, <1>3, <2>1 DEF ReplacementInvariant, OtherTypes
<1>5. touched' = {} => Exists(remote[Old])
  BY DEF ReplacementInvariant, RowsFit
<1>6. NamesFit' /\ RowsFit' /\ RecordSays'
  BY <1>1, <1>2, <1>5, ServerFits DEF ReplacementInvariant
<1>7. PlaceSaw(worker.pc)'
  <2> DEFINE pc == worker.pc
  <2>1. PlaceSaw(pc)
    BY DEF ReplacementInvariant, WorkerFits
  <2>2. pc \in Held \ {"notify"} => Named(Old, "target")'
    BY <1>2, <2>1 DEF PlaceSaw, Named, Exists
  <2>3. /\ touched' = {} /\ pc = "notify" => published'
        /\ touched' = {} /\ pc \in {"recheck", "final"} => remote'[Old].trashed
    BY <1>1, <1>5, <2>1 DEF PlaceSaw
  <2>4. ASSUME ~late', pc \in {"reread", "albums", "copy", "verify", "trash"}
        PROVE  Exists(remote'[New]) /\ remote'[New].ours /\ ~remote'[New].trashed
    <3>1. ~late /\ a # New /\ New \in Assets
      BY <1>1, <2>4, TheAssets DEF ReliedOn
    <3> QED
      BY <2>1, <2>4, <3>1 DEF PlaceSaw, Exists
  <2>5. pc = "trash" => late'
    BY <1>1, TheAssets DEF ReliedOn, At
  <2> QED
    BY <1>2, <2>2, <2>3, <2>4, <2>5 DEF PlaceSaw, Exists
<1> QED
  BY <1>1, <1>4, <1>6, <1>7, OutsideFits

LEMMA ServerIs ==
  ASSUME ReplacementInvariant
  PROVE  /\ remote \in [Assets -> Asset \cup {NoRow}]
         /\ albums \in [Assets -> SUBSET Albums]
         /\ touched \subseteq {"removed", "restored"}
         /\ \A a \in Assets : Exists(remote[a]) => remote[a] \in Asset
  BY DEF ReplacementInvariant, OtherTypes, Exists

LEMMA ForeignUploadFits ==
  ASSUME ReplacementInvariant, ForeignUpload PROVE ReplacementInvariant'
<1> DEFINE x == [trashed |-> FALSE, at |-> 0, look |-> FALSE, ours |-> FALSE]
<1>1. x \in Asset /\ x.trashed = FALSE
  BY DEF Asset
<1> HIDE DEF x
<1>2. /\ remote' = [remote EXCEPT ![New] = x]
      /\ Foreign(New) /\ UNCHANGED <<albums, touched>>
  BY DEF ForeignUpload, x
<1>3. /\ remote' \in [Assets -> Asset \cup {NoRow}]
      /\ \A b \in Assets \ {New} : remote'[b] = remote[b]
      /\ remote'[New] = x /\ remote'[Old] = remote[Old] /\ Exists(x)
  BY <1>1, <1>2, ServerIs, TheAssets, RowIs
<1>4. New \in Assets
  BY TheAssets
<1> QED
  BY <1>1, <1>2, <1>3, <1>4, ServerIs, ForeignFits

LEMMA ForeignEditFits ==
  ASSUME ReplacementInvariant, NEW a \in Assets, ForeignEdit(a)
  PROVE  ReplacementInvariant'
<1>1. PICK look \in BOOLEAN :
        remote' = [remote EXCEPT ![a].look = look, ![a].at = @ + 1]
  BY DEF ForeignEdit
<1> DEFINE x == [remote[a] EXCEPT !.look = look, !.at = @ + 1]
<1>2. /\ Exists(remote[a]) /\ Foreign(a) /\ UNCHANGED <<albums, touched>>
      /\ remote[a] \in Asset
  BY ServerIs DEF ForeignEdit
<1>3. x \in Asset /\ x.trashed = remote[a].trashed
  <2>1. remote[a].at + 1 \in Nat
    BY <1>2 DEF Asset
  <2>2. x \in Asset
    BY <1>2, <2>1 DEF Asset
  <2>3. x.trashed = remote[a].trashed
    BY <1>2 DEF Asset
  <2> QED
    BY <2>2, <2>3
<1>4. remote' = [remote EXCEPT ![a] = x]
  BY <1>1, <1>2, ServerIs
<1> HIDE DEF x
<1>5. /\ remote' \in [Assets -> Asset \cup {NoRow}]
      /\ \A b \in Assets \ {a} : remote'[b] = remote[b]
      /\ \A b \in Assets : /\ Exists(remote'[b]) <=> Exists(remote[b])
                           /\ Exists(remote[b]) => remote'[b].trashed = remote[b].trashed
  BY <1>2, <1>3, <1>4, ServerIs, RowIs
<1>6. /\ Exists(remote'[Old]) <=> Exists(remote[Old])
      /\ Exists(remote[Old]) => remote'[Old].trashed = remote[Old].trashed
      /\ Exists(remote'[New]) <=> Exists(remote[New])
      /\ Exists(remote[New]) => remote'[New].trashed = remote[New].trashed
  BY <1>5, TheAssets
<1>7. /\ albums' \in [Assets -> SUBSET Albums]
      /\ touched' \subseteq {"removed", "restored"}
  BY <1>2, ServerIs
<1>8. touched' = {} =>
        /\ touched = {}
        /\ Exists(remote'[New]) =>
             ~remote'[New].trashed \/ (Exists(remote[New]) /\ remote[New].trashed)
  BY <1>2, <1>6
<1> QED
  BY <1>2, <1>5, <1>6, <1>7, <1>8, ForeignFits

(* Somebody trashes, restores or deletes an asset.                            *)
LEMMA TouchedFits ==
  ASSUME ReplacementInvariant, NEW a \in Assets, Foreign(a),
         NEW x \in Asset \cup {NoRow}, Exists(remote[a]),
         remote' = [remote EXCEPT ![a] = x],
         albums' \in [Assets -> SUBSET Albums],
         touched' # {}, touched' \subseteq {"removed", "restored"}
  PROVE  ReplacementInvariant'
<1>1. remote' \in [Assets -> Asset \cup {NoRow}]
  BY ServerIs
<1>2. \A b \in Assets \ {a} : remote'[b] = remote[b]
  BY ServerIs
<1>3. Exists(remote'[Old]) => Exists(remote[Old])
  BY <1>2, TheAssets
<1> QED
  BY <1>1, <1>2, <1>3, ForeignFits

LEMMA ForeignTouchFits ==
  ASSUME ReplacementInvariant, NEW a \in Assets,
         ForeignTrash(a) \/ ForeignRestore(a) \/ ForeignDelete(a)
  PROVE  ReplacementInvariant'
<1>1. CASE ForeignTrash(a)
  <2>1. InTrash(remote[a]) \in Asset \cup {NoRow}
    BY <1>1, ServerIs, TrashIs DEF ForeignTrash
  <2>2. remote' = [remote EXCEPT ![a] = InTrash(remote[a])]
    BY <1>1 DEF ForeignTrash
  <2>3. touched' # {} /\ touched' \subseteq {"removed", "restored"}
    BY <1>1, ServerIs DEF ForeignTrash
  <2>4. Foreign(a) /\ Exists(remote[a]) /\ albums' \in [Assets -> SUBSET Albums]
    BY <1>1, ServerIs DEF ForeignTrash
  <2> QED
    BY <2>1, <2>2, <2>3, <2>4, TouchedFits
<1>2. CASE ForeignRestore(a)
  <2>1. OutOfTrash(remote[a]) \in Asset \cup {NoRow}
    BY <1>2, ServerIs, RestoreIs DEF ForeignRestore
  <2>2. remote' = [remote EXCEPT ![a] = OutOfTrash(remote[a])]
    BY <1>2 DEF ForeignRestore
  <2>3. touched' # {} /\ touched' \subseteq {"removed", "restored"}
    BY <1>2, ServerIs DEF ForeignRestore
  <2>4. Foreign(a) /\ Exists(remote[a]) /\ albums' \in [Assets -> SUBSET Albums]
    BY <1>2, ServerIs DEF ForeignRestore
  <2> QED
    BY <2>1, <2>2, <2>3, <2>4, TouchedFits
<1>3. CASE ForeignDelete(a)
  <2>1. NoRow \in Asset \cup {NoRow} /\ remote' = [remote EXCEPT ![a] = NoRow]
    BY <1>3 DEF ForeignDelete
  <2>2. touched' # {} /\ touched' \subseteq {"removed", "restored"}
    BY <1>3, ServerIs DEF ForeignDelete
  <2>3. Foreign(a) /\ Exists(remote[a]) /\ albums' \in [Assets -> SUBSET Albums]
    BY <1>3, ServerIs DEF ForeignDelete
  <2> QED
    BY <2>1, <2>2, <2>3, TouchedFits
<1> QED
  BY <1>1, <1>2, <1>3

LEMMA ForeignAlbumFits ==
  ASSUME ReplacementInvariant, NEW a \in Assets, ForeignAlbum(a)
  PROVE  ReplacementInvariant'
<1>1. Foreign(a) /\ UNCHANGED <<remote, touched>>
  BY DEF ForeignAlbum
<1>2. PICK b \in Albums :
        albums' = [albums EXCEPT ![a] = IF b \in @ THEN @ \ {b} ELSE @ \cup {b}]
  BY DEF ForeignAlbum
<1>3. albums' \in [Assets -> SUBSET Albums]
  BY <1>2, ServerIs
<1>4. touched' = {} /\ Exists(remote'[New]) =>
          ~remote'[New].trashed \/ (Exists(remote[New]) /\ remote[New].trashed)
  BY <1>1
<1> QED
  BY <1>1, <1>3, <1>4, ServerIs, ForeignFits

-----------------------------------------------------------------------------
(* The service dies, and a later one starts.                                  *)

(* Nobody of the service is at work.                                          *)
LEMMA IdleFits ==
  ASSUME worker' = Checking, refresher' = Resting, lock' = <<>>
  PROVE  WorkerFits' /\ RefresherFits' /\ LockFits'
<1>1. /\ worker' \in WorkerType /\ worker'.pc = "check"
      /\ "check" \notin Held \cup {"begin"}
  BY CheckingIs DEF Held, Copying
<1>2. WorkerFits'
  BY <1>1 DEF WorkerFits, PlaceFits, PlaceSaw, Reading, Copying, Held
<1>3. RefresherFits'
  BY RestingFits
<1>4. LockFits'
  BY <1>1, Empty DEF LockFits, Locks, Resting
<1> QED
  BY <1>2, <1>3, <1>4

LEMMA CrashFits == ASSUME ReplacementInvariant, Crash PROVE ReplacementInvariant'
<1>1. /\ service' = "down" /\ worker' = Checking /\ refresher' = Resting /\ lock' = <<>>
      /\ UNCHANGED <<queue, file, local, server, history>>
  BY DEF Crash
<1>2. UNCHANGED <<record, temp, quarantined, waiting, source, catalog, relations, pins,
                  remote, albums, published, late, touched, wanted>>
  BY <1>1 DEF queue, disk, local, server, history
<1>3. trouble' \in 0..MaxTrouble
  BY TroubleIs DEF Crash, ReplacementInvariant
<1>4. OtherTypes'
  BY <1>1, <1>2, <1>3 DEF ReplacementInvariant, OtherTypes
<1>5. RecordFits' /\ FileFits' /\ RecordSays'
  BY <1>1, <1>2
  DEF ReplacementInvariant, RecordFits, FileFits, RecordSays, IsReplacement,
      HasLeftover, Finished, HalfDone
<1>6. NamesFit' /\ RowsFit'
  BY <1>1, <1>2, RowsStay DEF ReplacementInvariant
<1>7. WorkerFits' /\ RefresherFits' /\ LockFits'
  BY <1>1, IdleFits
<1> QED
  BY <1>4, <1>5, <1>6, <1>7 DEF ReplacementInvariant

(* What the service finds in the queue's directory.                           *)
LEMMA OnDiskIs ==
  ASSUME RecordFits, RecordSays
  PROVE  /\ IsStored(OnDisk) => Fine(OnDisk)
         /\ IsReplacement(OnDisk) => source # NoRow
         /\ temp => HasLeftover(OnDisk)
         /\ IsStored(record) => OnDisk = record
         /\ touched = {} =>
              /\ remote[Old].trashed => published \/ (IsStored(OnDisk) /\ OnDisk.verified)
              /\ IsStored(OnDisk) /\ OnDisk.state = "committed" => published
<1>1. CASE IsStored(quarantined)
  <2>1. OnDisk = quarantined /\ ~IsStored(record)
    BY <1>1 DEF OnDisk, RecordFits
  <2> QED
    BY <1>1, <2>1 DEF RecordFits, RecordSays, HasLeftover, HalfDone
<1>2. CASE ~IsStored(quarantined)
  <2>1. OnDisk = record
    BY <1>2 DEF OnDisk
  <2> QED
    BY <1>2, <2>1 DEF RecordFits, RecordSays, HasLeftover, HalfDone, Finished
<1> QED
  BY <1>1, <1>2

LEMMA StartFits == ASSUME ReplacementInvariant, Start PROVE ReplacementInvariant'
<1> DEFINE o == OnDisk
           Begins(aside, m) ==
             /\ service = "down" /\ (temp => aside)
             /\ record' = m /\ waiting' = (waiting /\ IsStored(m))
             /\ quarantined' = IF aside THEN o ELSE NoManifest
             /\ UNCHANGED <<temp, source, pins, server, lock, worker, refresher,
                            history, trouble>>
             /\ IF PolicyFails(m)
                  THEN service' = "refused" /\ UNCHANGED <<file, catalog, relations>>
                  ELSE /\ service' = "up"
                       /\ catalog' = FullyMerged(Policy(m))
                       /\ relations' \in {relations, albums[Old]}
                       /\ file' = IF IsStored(m) /\ IsSealed(m) /\ IsLocallyReadable(m)
                                    THEN "sealed" ELSE "gone"
<1>a. PICK aside \in BOOLEAN :
        Begins(aside, IF aside THEN NoManifest ELSE Recovered(o))
  BY DEF Start
<1> DEFINE m == IF aside THEN NoManifest ELSE Recovered(o)
<1>b. Begins(aside, m)
  BY <1>a
<1>c. /\ IsStored(o) => Fine(o)
      /\ IsReplacement(o) => source # NoRow
      /\ temp => HasLeftover(o)
      /\ IsStored(record) => o = record
      /\ touched = {} =>
           /\ remote[Old].trashed => published \/ (IsStored(o) /\ o.verified)
           /\ IsStored(o) /\ o.state = "committed" => published
  BY OnDiskIs DEF ReplacementInvariant
<1>5. /\ IsStored(m) => Fine(m) /\ IsStored(o) /\ m.op = o.op /\ ~aside
      /\ ~IsStored(m) => aside \/ ~IsStored(o) \/ o.state \in {"committed", "cancelled"}
      /\ IsStored(m) => \/ m = o
                        \/ /\ o.state = "writing" /\ ~IsSealed(m)
                           /\ m.state = "blocked"
      /\ IsStored(m) => m.state \notin {"writing", "committed", "cancelled"}
  BY <1>c, RecoveredIsFine, StoredIs
<1> HIDE DEF m, o
<1>1. /\ service = "down" /\ record' = m /\ waiting' = (waiting /\ IsStored(m))
      /\ temp' = temp /\ (temp => aside)
      /\ quarantined' = IF aside THEN o ELSE NoManifest
      /\ UNCHANGED <<source, pins, server, lock, worker, refresher, history, trouble>>
  BY <1>b
<1>2. UNCHANGED <<remote, albums, published, late, touched, wanted>>
  BY <1>1 DEF server, history
<1>3. worker = Checking /\ refresher = Resting /\ lock = <<>>
  BY <1>1 DEF ReplacementInvariant, WorkerFits, RefresherFits, LockFits
<1>4. WorkerFits' /\ RefresherFits' /\ LockFits'
  BY <1>1, <1>3, IdleFits
<1>6. RecordFits'
  <2>1. ~IsStored(NoManifest) /\ temp \in BOOLEAN
    BY StoredIs DEF ReplacementInvariant, RecordFits
  <2>2. CASE aside
    <3>1. ~IsStored(record') /\ quarantined' = o
      BY <1>1, <1>5, <2>2
    <3> QED
      BY <1>1, <1>c, <2>1, <3>1 DEF RecordFits, IsReplacement, HasLeftover
  <2>3. CASE ~aside
    <3>1. ~temp /\ ~IsStored(quarantined')
      BY <1>1, <2>1, <2>3
    <3> QED
      BY <1>1, <1>5, <1>c, <2>1, <3>1 DEF RecordFits, IsReplacement
  <2> QED
    BY <2>2, <2>3
<1>7. RecordSays'
  <2>1. IsStored(o) /\ o.state \in {"writing", "cancelled"} => ~o.verified
    BY <1>c, FineIs
  <2>2. ~IsStored(NoManifest)
    BY StoredIs
  <2>3. CASE aside
    <3>1. ~IsStored(record') /\ quarantined' = o
      BY <1>1, <1>5, <2>3
    <3> QED
      BY <1>1, <1>2, <1>c, <3>1 DEF RecordSays, Finished, HalfDone
  <2>4. CASE ~aside
    <3>1. ~IsStored(quarantined')
      BY <1>1, <2>2, <2>4
    <3> QED
      BY <1>1, <1>2, <1>5, <1>c, <2>1, <2>4, <3>1 DEF RecordSays, Finished, HalfDone
  <2> QED
    BY <2>3, <2>4
<1>8. /\ catalog \in [Assets -> Row \cup {NoRow}] /\ relations \subseteq Albums
      /\ waiting' \in BOOLEAN /\ file \in {"open", "sealed", "gone"}
  BY <1>1 DEF ReplacementInvariant, OtherTypes
<1>9. CASE PolicyFails(m)
  <2>1. service' = "refused" /\ UNCHANGED <<file, catalog, relations>>
    BY <1>9, <1>b
  <2>2. OtherTypes'
    BY <1>1, <1>2, <1>8, <2>1 DEF ReplacementInvariant, OtherTypes
  <2>3. FileFits'
    <3>1. m = o /\ IsStored(m)
      BY <1>5, <1>9 DEF PolicyFails, Relevant, IsReplacement
    <3> QED
      BY <1>1, <1>c, <2>1, <3>1 DEF ReplacementInvariant, FileFits
  <2>4. NamesFit' /\ RowsFit'
    <3>1. UNCHANGED local
      BY <1>1, <2>1 DEF local
    <3> QED
      BY <1>2, <3>1, RowsStay DEF ReplacementInvariant
  <2> QED
    BY <1>4, <1>6, <1>7, <2>2, <2>3, <2>4 DEF ReplacementInvariant
<1>10. CASE ~PolicyFails(m)
  <2>1. /\ service' = "up" /\ catalog' = FullyMerged(Policy(m))
        /\ relations' \in {relations, albums[Old]}
        /\ file' = IF IsStored(m) /\ IsSealed(m) /\ IsLocallyReadable(m)
                     THEN "sealed" ELSE "gone"
    BY <1>10, <1>b
  <2>2. catalog' \in [Assets -> Row \cup {NoRow}] /\ NamesFit' /\ RowsFit'
    BY <1>1, <1>2, <1>5, <2>1, SweepFits DEF ReplacementInvariant
  <2>3. relations' \subseteq Albums
    BY <1>8, <2>1, TheAssets DEF ReplacementInvariant, OtherTypes
  <2>4. OtherTypes'
    BY <1>1, <1>2, <1>8, <2>1, <2>2, <2>3 DEF ReplacementInvariant, OtherTypes
  <2>5. FileFits'
    <3>1. IsStored(m) /\ IsSealed(m) => IsLocallyReadable(m)
      BY <1>5, FineIs DEF IsLocallyReadable, UploadState
    <3> QED
      BY <1>1, <2>1, <3>1 DEF FileFits
  <2> QED
    BY <1>4, <1>6, <1>7, <2>2, <2>4, <2>5 DEF ReplacementInvariant
<1> QED
  BY <1>9, <1>10

-----------------------------------------------------------------------------
LEMMA InitFits == Init => ReplacementInvariant
<1> SUFFICES ASSUME Init PROVE ReplacementInvariant
  OBVIOUS
<1>1. /\ record = NewManifest /\ temp = FALSE /\ quarantined = NoManifest
      /\ waiting = FALSE /\ source = NoRow /\ file = "open"
      /\ relations = Albums /\ wanted = TRUE /\ pins = {Old} /\ service = "up"
      /\ lock = <<>> /\ worker = Checking /\ refresher = Resting
      /\ published = FALSE /\ late = FALSE /\ touched = {} /\ trouble = 0
      /\ albums = [a \in Assets |-> IF a = Old THEN Albums ELSE {}]
  BY DEF Init
<1> DEFINE r == [name |-> "target", trashed |-> FALSE, at |-> 0, look |-> FALSE]
           x == [trashed |-> FALSE, at |-> 0, look |-> FALSE, ours |-> FALSE]
<1>2. /\ r \in Row /\ r.name = "target" /\ ~r.trashed
      /\ x \in Asset /\ ~x.trashed
  BY DEF Row, Asset
<1>3. /\ catalog = [a \in Assets |-> IF a = Old THEN r ELSE NoRow]
      /\ remote = [a \in Assets |-> IF a = Old THEN x ELSE NoRow]
  BY DEF Init
<1> HIDE DEF r, x
<1>4. /\ catalog \in [Assets -> Row \cup {NoRow}] /\ catalog[Old] = r
      /\ remote \in [Assets -> Asset \cup {NoRow}] /\ remote[Old] = x
      /\ catalog[New] = NoRow /\ remote[New] = NoRow
      /\ Exists(r) /\ Exists(x) /\ ~Exists(NoRow)
  BY <1>2, <1>3, TheAssets, RowIs
<1>5. RecordFits
  <2>1. Sound(record)
    BY <1>1, NewIsSound
  <2>2. /\ record.state = "writing" /\ ~IsSealed(record) /\ record.attempts = 0
        /\ ~HasCandidate(record) /\ record.op = "ordinary"
    BY <1>1 DEF NewManifest, IsSealed, HasCandidate
  <2>3. ~IsStored(quarantined)
    BY <1>1, StoredIs
  <2>4. Fine(record)
    <3>1. ~(record.attempts >= 1) /\ record.state # "attempting"
      BY <2>2
    <3> QED
      BY <2>1, <2>2, <3>1 DEF Fine
  <2>5. ~IsReplacement(record) /\ ~IsReplacement(quarantined)
    BY <2>2, <2>3 DEF IsReplacement
  <2>6. temp \in BOOLEAN /\ ~temp
    BY <1>1
  <2> QED
    BY <2>3, <2>4, <2>5, <2>6 DEF RecordFits
<1>6. IsStored(record) /\ record.state = "writing"
  BY <1>1, <1>5, StoredIs, NewIsSound DEF NewManifest, Sound
<1>7. OtherTypes
  <2>1. albums \in [Assets -> SUBSET Albums] /\ pins \subseteq Assets
    BY <1>1, TheAssets
  <2>2. 0 \in 0..MaxTrouble
    BY ReplacementAssumption
  <2> QED
    BY <1>1, <1>4, <2>1, <2>2 DEF OtherTypes
<1>8. FileFits
  BY <1>1, <1>6 DEF FileFits
<1>9. NamesFit /\ RowsFit
  BY <1>1, <1>2, <1>4, TheAssets DEF NamesFit, RowsFit
<1>10. RecordSays
  BY <1>1, <1>2, <1>4, <1>6, StoredIs DEF RecordSays, Finished
<1>11. WorkerFits
  BY <1>1, CheckingIs DEF WorkerFits, PlaceFits, PlaceSaw, Reading, Copying, Held
<1>12. RefresherFits
  <2>1. Unsuppressed \in Policies /\ ~IsStored(NoManifest)
    BY StoredIs DEF Unsuppressed, Policies
  <2> QED
    BY <1>1, <2>1 DEF RefresherFits, Resting
<1>13. LockFits
  <2>1. worker.pc = "check" /\ "check" \notin Held \cup {"begin"}
    BY <1>1, CheckingIs DEF Held, Copying
  <2> QED
    BY <1>1, <2>1, Empty DEF LockFits, Locks, Resting
<1> QED
  BY <1>5, <1>7, <1>8, <1>9, <1>10, <1>11, <1>12, <1>13 DEF ReplacementInvariant

LEMMA StutterFits ==
  ASSUME ReplacementInvariant, UNCHANGED vars PROVE ReplacementInvariant'
<1>1. UNCHANGED <<source, local, server, processes, history, record, temp, quarantined,
                  waiting, file, trouble>>
  BY DEF vars, queue, disk
<1>2. PlaceFits(worker.pc, worker.job)'
  BY <1>1 DEF ReplacementInvariant, WorkerFits, PlaceFits, JobFits, processes
<1>3. RecordFits' /\ FileFits' /\ RecordSays'
  BY <1>1 DEF ReplacementInvariant, RecordFits, FileFits, RecordSays, IsReplacement,
     HasLeftover, Finished, HalfDone, processes, server, history
<1>4. /\ file' \in {"open", "sealed", "gone"} /\ trouble' \in 0..MaxTrouble
      /\ waiting' \in BOOLEAN
  BY <1>1 DEF ReplacementInvariant, OtherTypes
<1> QED
  BY <1>1, <1>2, <1>3, <1>4, OthersFit

LEMMA StepFits == ReplacementInvariant /\ [Next]_vars => ReplacementInvariant'
<1> SUFFICES ASSUME ReplacementInvariant, [Next]_vars PROVE ReplacementInvariant'
  OBVIOUS
<1>1. CASE RenameLook \/ RenameMark \/ SealFile \/ Tick
  BY <1>1, RenameLookFits, RenameMarkFits, SealFileFits, TickFits
<1>2. CASE WorkerStep
  BY <1>2, WorkerStepFits
<1>3. CASE List \/ RefresherStep
  BY <1>3, RefresherStepFits
<1>4. CASE \/ RetryUpload \/ RetryUploadFails \/ CancelUpload \/ CancelUploadFails
           \/ ForeignUpload
  BY <1>4, RetryUploadFits, RetryUploadFailsFits, CancelUploadFits,
     CancelUploadFailsFits, ForeignUploadFits
<1>5. ASSUME NEW a \in Assets,
             \/ TogglePin(a) \/ RestoreHere(a) \/ TrashHere(a)
             \/ ForeignEdit(a) \/ ForeignTrash(a) \/ ForeignRestore(a)
             \/ ForeignDelete(a) \/ ForeignAlbum(a)
      PROVE  ReplacementInvariant'
  BY <1>5, TogglePinFits, RestoreHereFits, TrashHereFits, ForeignEditFits,
     ForeignTouchFits, ForeignAlbumFits
<1>6. CASE Crash \/ Start
  BY <1>6, CrashFits, StartFits
<1>7. CASE UNCHANGED vars
  BY <1>7, StutterFits
<1> QED
  BY <1>1, <1>2, <1>3, <1>4, <1>5, <1>6, <1>7 DEF Next

LEMMA InvariantHolds == Spec => []ReplacementInvariant
  BY InitFits, StepFits, PTL DEF Spec

-----------------------------------------------------------------------------
(* When a job leaves the queue.                                               *)

LEMMA BlockKeeps ==
  ASSUME ReplacementInvariant, IsStored(record), NEW e \in UploadErrorCode \ {NoError},
         BlockRecord(e)
  PROVE  IsStored(record')
<1>1. Changes
  BY BlockChanges DEF ReplacementInvariant
<1> QED
  BY <1>1 DEF Changes, disk

(* A check of the worker keeps the job, whatever it finds.                    *)
LEMMA ChecksKeep ==
  ASSUME ReplacementInvariant, IsStored(record),
         \/ Mismatch
         \/ \E why \in Errors : Raise(why)
         \/ \E pc \in Held : Continue(pc)
  PROVE  IsStored(record')
<1>1. CASE Mismatch
  BY <1>1, BlockKeeps, Codes DEF Mismatch
<1>2. CASE \E why \in Errors : Raise(why)
  BY <1>2 DEF Raise, disk
<1>3. CASE \E pc \in Held : Continue(pc)
  BY <1>3 DEF Continue, disk
<1> QED
  BY <1>1, <1>2, <1>3

LEMMA FailingKeeps ==
  ASSUME ReplacementInvariant, IsStored(record), QueueFails, ~IsStored(record')
  PROVE  ~HasCandidate(record)
<1>1. Fine(record)
  BY DEF ReplacementInvariant, RecordFits
<1>2. CASE Unwritten
  BY <1>2 DEF Unwritten
<1>3. CASE worker.pc = "cancel" /\ record.revision = worker.job.revision
  BY <1>3, Cancelled
<1>4. CASE /\ worker.pc = "open" /\ Admissible
           /\ record' \in {Provisional(record), Admit(Provisional(record))}
  <2>1. /\ CanAttempt(record)
        /\ record.bytes = New /\ record.op = "replacement"
    BY <1>4, Attempted
  <2> QED
    BY <1>1, <1>4, <2>1, AttemptIsFine, StoredIs DEF Later
<1>5. CASE worker.pc = "reply" /\ record' = RecordCandidate(record, record.bytes)
  <2>1. record.state = "attempting" /\ record.attempts >= 1
    BY <1>5 DEF ReplacementInvariant, WorkerFits, PlaceFits
  <2> QED
    BY <1>1, <1>5, <2>1, CandidateIsFine, StoredIs DEF Later
<1>6. CASE /\ worker.pc = "candidate" /\ record.state # "replacing"
           /\ record' = BeginReplacing(record)
  <2>1. record.state = "attempting" /\ HasCandidate(record)
    BY <1>6, JobIs
  <2> QED
    BY <1>1, <1>6, <2>1, BeginReplacingIsFine, StoredIs DEF Later
<1>7. CASE worker.pc = "notify" /\ record' = Commit(record)
  <2>1. record.state = "replacing"
    BY <1>7, JobIs DEF Copying
  <2> QED
    BY <1>1, <1>7, <2>1, CommitIsFine, StoredIs DEF Later
<1> QED
  BY <1>2, <1>3, <1>4, <1>5, <1>6, <1>7 DEF QueueFails, At, Save

LEMMA WorkerKeeps ==
  ASSUME ReplacementInvariant, IsStored(record), WorkerStep, ~IsStored(record')
  PROVE  record.state = "committed" \/ ~HasCandidate(record)
<1>1. RecordFits /\ Fine(record)
  BY DEF ReplacementInvariant, RecordFits
<1> USE DEF Held, Copying, Errors
<1>2. CASE Begin \/ ReadSource \/ RereadSource \/ RecheckAlbums \/ ReadAlbums
           \/ VerifyCopy \/ ConfirmTrash \/ Unconfirmed
  <2>1. CASE Begin
    BY <1>1, <2>1, ChecksKeep DEF Begin
  <2>2. CASE ReadSource
    BY <1>1, <2>2, ChecksKeep DEF ReadSource, Read
  <2>3. CASE RereadSource
    BY <1>1, <2>3, ChecksKeep DEF RereadSource, Read
  <2>4. CASE RecheckAlbums
    BY <1>1, <2>4, ChecksKeep DEF RecheckAlbums
  <2>5. CASE ReadAlbums
    BY <1>1, <2>5, ChecksKeep DEF ReadAlbums
  <2>6. CASE VerifyCopy
    BY <1>1, <2>6, ChecksKeep DEF VerifyCopy, Read
  <2>7. CASE ConfirmTrash
    BY <1>1, <2>7, ChecksKeep DEF ConfirmTrash, Read
  <2>8. CASE Unconfirmed
    BY <1>1, <2>8, ChecksKeep DEF Unconfirmed
  <2> QED
    BY <1>2, <2>1, <2>2, <2>3, <2>4, <2>5, <2>6, <2>7, <2>8
<1>3. CASE Pick \/ Post \/ TrashSource \/ TrashLost \/ Fail
  BY <1>3 DEF Pick, Post, TrashSource, TrashLost, Fail, disk
<1>4. CASE CopyAlbums
  BY <1>1, <1>4, ChecksKeep DEF CopyAlbums, disk
<1>5. CASE Publish
  BY <1>1, <1>5, ChecksKeep DEF Publish, disk
<1>6. CASE CancelUnchanged
  <2>1. CASE Raise("local")
    BY <1>1, <2>1, ChecksKeep
  <2>2. CASE IsStored(record) /\ record.revision = worker.job.revision
    BY <1>6, <2>2, Cancelled DEF CancelUnchanged, At
  <2>3. CASE UNCHANGED disk
    BY <2>3 DEF disk
  <2> QED
    BY <1>6, <2>1, <2>2, <2>3 DEF CancelUnchanged
<1>7. CASE OpenAttempt
  <2>1. CASE UNCHANGED disk
    BY <2>1 DEF disk
  <2>2. CASE Admissible /\ record' = Admit(Provisional(record))
    <3>1. /\ CanAttempt(record)
          /\ record.bytes = New /\ record.op = "replacement"
      BY <1>7, <2>2, Attempted DEF OpenAttempt, At
    <3> QED
      BY <1>1, <2>2, <3>1, AttemptIsFine, StoredIs DEF Later
  <2> QED
    BY <1>7, <2>1, <2>2 DEF OpenAttempt, Save
<1>8. CASE Accepted
  <2>1. worker.pc = "reply" /\ record' = RecordCandidate(record, record.bytes)
    BY <1>8 DEF Accepted, At, Save
  <2>2. record.state = "attempting" /\ record.attempts >= 1
    BY <2>1 DEF ReplacementInvariant, WorkerFits, PlaceFits
  <2> QED
    BY <1>1, <2>1, <2>2, CandidateIsFine, StoredIs DEF Later
<1>9. CASE ReadCandidate
  <2>1. CASE Raise("refused") \/ Mismatch
    BY <1>1, <2>1, ChecksKeep
  <2>2. CASE record' = IF record.state = "replacing" THEN record ELSE BeginReplacing(record)
    <3>1. worker.pc = "candidate"
      BY <1>9 DEF ReadCandidate, At
    <3>2. record.state \in {"attempting", "replacing"} /\ HasCandidate(record)
      BY <3>1, JobIs
    <3> QED
      BY <1>1, <2>2, <3>2, BeginReplacingIsFine, StoredIs DEF Later
  <2> QED
    BY <1>9, <2>1, <2>2 DEF ReadCandidate, Save, disk
<1>10. CASE CommitJob
  <2>1. worker.pc = "notify" /\ record' = Commit(record)
    BY <1>10 DEF CommitJob, At, Save
  <2>2. record.state = "replacing"
    BY <2>1, JobIs
  <2> QED
    BY <1>1, <2>1, <2>2, CommitIsFine, StoredIs DEF Later
<1>11. CASE RemoveJob
  BY <1>11 DEF RemoveJob, At, ReplacementInvariant, WorkerFits, PlaceFits
<1>12. CASE Handle
  <2>1. RecordSays /\ OtherTypes
    BY DEF ReplacementInvariant
  <2>2. \/ RetryRecord("upload-unavailable") \/ RetryRecord("ambiguous-response")
        \/ BlockRecord("candidate-mismatch") \/ BlockRecord(UploadRejected)
        \/ BlockRecord("local-state-failed")
    BY <1>12 DEF Handle, At
  <2>3. Changes
    BY <1>1, <2>1, <2>2, Codes, BlockChanges, RetryChanges
  <2> QED
    BY <2>3 DEF Changes, disk
<1>13. CASE RemoveFails
  BY <1>13 DEF RemoveFails, queue, disk
<1>14. CASE QueueFails
  BY <1>14, FailingKeeps
<1> QED
  BY <1>2, <1>3, <1>4, <1>5, <1>6, <1>7, <1>8, <1>9, <1>10, <1>11, <1>12, <1>13, <1>14
  DEF WorkerStep

(* Every other step that takes a job out is a cancellation or a recovery.     *)
LEMMA JobsLeave ==
  ASSUME ReplacementInvariant, IsStored(record), Next, ~IsStored(record')
  PROVE  record.state = "committed" \/ ~HasCandidate(record) \/ quarantined' = record
<1>1. Fine(record)
  BY DEF ReplacementInvariant, RecordFits
<1>2. CASE WorkerStep
  BY <1>2, WorkerKeeps
<1>3. CASE RenameMark
  BY <1>1, <1>3, MarkIsFine, StoredIs DEF RenameMark, Save
<1>4. CASE SealFile
  <2>1. record.state = "writing"
    BY <1>4 DEF SealFile, ReplacementInvariant, FileFits
  <2> QED
    BY <1>1, <2>1, FineIs
<1>5. CASE RetryUpload
  <2>1. CanRetry(record) /\ record' = Retry(record, NoError)
    BY <1>5 DEF RetryUpload, CanRetryAt, Save
  <2> QED
    BY <1>1, <2>1, RetryIsFine, StoredIs DEF Later
<1>6. CASE CancelUpload \/ CancelUploadFails
  BY <1>6 DEF CancelUpload, CancelUploadFails, CanCancel
<1>7. CASE Start
  <2>1. OnDisk = record
    BY OnDiskIs DEF ReplacementInvariant
  <2>2. CASE record' = NoManifest /\ quarantined' = OnDisk
    BY <2>1, <2>2
  <2>3. CASE record' = Recovered(OnDisk)
    <3>1. record.state = "cancelled" => ~HasCandidate(record)
      BY <1>1, FineIs
    <3> QED
      BY <1>1, <2>1, <2>3, <3>1, RecoveredIsFine
  <2> QED
    BY <1>7, <2>2, <2>3 DEF Start
<1>8. CASE \/ RenameLook \/ Tick \/ List \/ RefresherStep \/ ForeignUpload \/ Crash
           \/ RetryUploadFails
  <2>1. record' = record
    BY <1>8
    DEF RenameLook, Tick, List, RefresherStep, RefreshIncremental, FallBack,
        RefreshFull, Reconcile, Loud, ForeignUpload, Foreign, Crash, RetryUploadFails,
        queue, disk
  <2> QED
    BY <2>1
<1>9. ASSUME NEW a \in Assets,
             \/ TogglePin(a) \/ RestoreHere(a) \/ TrashHere(a)
             \/ ForeignEdit(a) \/ ForeignTrash(a) \/ ForeignRestore(a)
             \/ ForeignDelete(a) \/ ForeignAlbum(a)
      PROVE  record' = record
  BY <1>9
  DEF TogglePin, RestoreHere, TrashHere, Elsewhere, ForeignEdit, ForeignTrash,
      ForeignRestore, ForeignDelete, ForeignAlbum, Foreign, queue, disk
<1> QED
  BY <1>2, <1>3, <1>4, <1>5, <1>6, <1>7, <1>8, <1>9 DEF Next

-----------------------------------------------------------------------------
(* The theorems.                                                              *)

(* The record is one that _validate_manifest accepts, in the queue or set     *)
(* aside, a leftover of a write is always with one, a replacement has the     *)
(* source that rename copied, and the catalog lock never has anyone but the   *)
(* two workers in it, each once.                                              *)
THEOREM ReplacementIsTyped == Spec => []TypeOK
<1>1. ReplacementInvariant => TypeOK
  <2> SUFFICES ASSUME ReplacementInvariant PROVE TypeOK
    OBVIOUS
  <2>1. ASSUME NEW m \in {record, quarantined}
        PROVE  m \in Manifest \cup {NoManifest} /\ (IsStored(m) => ValidManifest(m))
    BY StoredIs DEF ReplacementInvariant, RecordFits, Fine, Sound, IsStored
  <2>6. temp \in BOOLEAN /\ (temp => IsStored(OnDisk) /\ OnDisk.state # "writing")
    BY OnDiskIs DEF ReplacementInvariant, RecordFits, HasLeftover
  <2>2. /\ waiting \in BOOLEAN /\ service \in {"up", "down", "refused"}
        /\ source # NoRow =>
             source \in [at : Nat, look : BOOLEAN, albums : SUBSET Albums]
        /\ IsReplacement(record) => source # NoRow
        /\ file \in {"open", "sealed", "gone"}
        /\ relations \subseteq Albums /\ pins \subseteq Assets
        /\ published \in BOOLEAN /\ late \in BOOLEAN /\ wanted \in BOOLEAN
        /\ touched \subseteq {"removed", "restored"}
        /\ trouble \in 0..MaxTrouble
    BY DEF ReplacementInvariant, OtherTypes, RecordFits, SourceType
  <2>3. \A a \in Assets :
          /\ Exists(catalog[a]) => catalog[a] \in Row
          /\ Exists(remote[a]) => remote[a] \in Asset
          /\ albums[a] \subseteq Albums
    BY DEF ReplacementInvariant, OtherTypes, Exists
  <2>4. lock \in {<<>>, <<"worker">>, <<"refresher">>,
                  <<"worker", "refresher">>, <<"refresher", "worker">>}
    BY DEF ReplacementInvariant, LockFits, Locks
  <2>5. /\ worker.job \in Manifest \cup {NoManifest}
        /\ refresher.job \in Manifest \cup {NoManifest}
    BY DEF ReplacementInvariant, WorkerFits, WorkerType, RefresherFits
  <2> QED
    BY <2>1, <2>2, <2>3, <2>4, <2>5, <2>6 DEF TypeOK
<1> QED
  BY <1>1, InvariantHolds, PTL

(* Whatever is published, refreshed with an old list of jobs, crashed and     *)
(* restarted in between, and whichever write of the queue fails, the name of  *)
(* the file finds the staged bytes or a live row, unless somebody trashed or  *)
(* restored an asset on purpose, or a start has set a job aside whose source  *)
(* may be in the trash already.                                               *)
THEOREM NameIsServed == Spec => []NameServed
<1>1. ReplacementInvariant => NameServed
  <2> SUFFICES ASSUME ReplacementInvariant, service = "up", touched = {}, ~HalfDone
               PROVE  Covered \/ \E a \in Assets : Named(a, "target") /\ Shows(a)
    BY DEF NameServed
  <2>1. CASE published
    BY <2>1, TheAssets DEF ReplacementInvariant, RowsFit
  <2>2. CASE ~published
    <3>1. Named(Old, "target")
      BY <2>2 DEF ReplacementInvariant, RowsFit, NamesFit, Named
    <3>2. CASE ~catalog[Old].trashed
      BY <3>1, <3>2, TheAssets DEF Named, Shows
    <3>3. CASE catalog[Old].trashed
      <4>1. remote[Old].trashed
        BY <3>3 DEF ReplacementInvariant, RowsFit
      <4>2. IsStored(record) /\ record.verified /\ Fine(record)
        BY <2>2, <4>1 DEF ReplacementInvariant, RecordSays, RecordFits
      <4>3. record.op = "replacement" /\ IsSealed(record)
        BY <4>2, FineIs
      <4>4. ~Finished
        BY <2>2 DEF ReplacementInvariant, RecordSays
      <4> QED
        BY <4>2, <4>3, <4>4 DEF ReplacementInvariant, FileFits, Covered, IsReplacement
    <3> QED
      BY <3>2, <3>3
  <2> QED
    BY <2>1, <2>2
<1> QED
  BY <1>1, InvariantHolds, PTL

(* After publish_replacement no refresh, whenever its list of jobs was read,  *)
(* and no restart gives the name back or takes the new row away.              *)
THEOREM PublishedRowsStay == Spec => []PublishedStays
<1>1. ReplacementInvariant => PublishedStays
  BY DEF ReplacementInvariant, RowsFit, NamesFit, PublishedStays, Named
<1> QED
  BY <1>1, InvariantHolds, PTL

(* The name moves only after the server has confirmed the trash.              *)
THEOREM PublishedBehindTrash == Spec => []PublishedOnceRetired
<1>1. ReplacementInvariant => PublishedOnceRetired
  BY DEF ReplacementInvariant, RowsFit, PublishedOnceRetired
<1> QED
  BY <1>1, InvariantHolds, PTL

(* What the user wants of the name, pinned or not, is what the published      *)
(* asset has: publish_replacement hands the pin on.                           *)
THEOREM PinsFollow == Spec => []PinFollows
<1>1. ReplacementInvariant => PinFollows
  <2> SUFFICES ASSUME ReplacementInvariant, published,
                      NEW a \in Assets, Named(a, "target")
               PROVE  a \in pins <=> wanted
    BY DEF PinFollows
  <2>1. a # Old
    BY DEF ReplacementInvariant, NamesFit, Named
  <2> QED
    BY <2>1, TheAssets DEF ReplacementInvariant, NamesFit
<1> QED
  BY <1>1, InvariantHolds, PTL

(* When the worker trashes the source, and nothing has changed since it       *)
(* looked, the source is the asset that was renamed over and a verified copy  *)
(* of the new bytes is in the same albums.                                    *)
THEOREM RetiresOnlyBehindCopy == Spec => RetiresBehindCopy
<1>1. ReplacementInvariant /\ At("trash") =>
        late \/ CopyStands(worker.job.candidate)
  <2> SUFFICES ASSUME ReplacementInvariant, worker.pc = "trash", ~late
               PROVE  CopyStands(worker.job.candidate)
    BY DEF At
  <2>1. /\ record = worker.job /\ worker.job.bytes = New
        /\ worker.job.candidate = New
    BY JobIs DEF Copying
  <2>2. /\ Exists(remote[New]) /\ remote[New].ours /\ ~remote[New].trashed
        /\ remote[Old].at = source.at /\ remote[Old].look = source.look
        /\ albums[Old] = source.albums /\ albums[New] = source.albums
    BY DEF ReplacementInvariant, WorkerFits, PlaceSaw
  <2> QED
    BY <2>1, <2>2, TheAssets DEF CopyStands
<1>2. ReplacementInvariant /\ [Next]_vars =>
        [At("trash") /\ worker' # worker /\ remote' # remote =>
           late \/ CopyStands(worker.job.candidate)]_vars
  BY <1>1
<1> QED
  BY <1>2, InvariantHolds, PTL DEF Spec, RetiresBehindCopy

(* A job that may have a candidate on the server leaves the queue, with the   *)
(* staged bytes, only once the catalog serves the candidate under the name:   *)
(* by upload_finished or by the recovery, and never by a cancellation.  A     *)
(* start that sets such a job aside keeps its record and its bytes.           *)
THEOREM BytesStayUntilServed == Spec => BytesLeaveWhenServed
<1>1. ReplacementInvariant /\ [Next]_vars =>
        [IsReplacement(record) /\ HasCandidate(record) /\ record' = NoManifest =>
           Named(New, "target") \/ touched # {} \/ quarantined' = record]_vars
  <2> SUFFICES ASSUME ReplacementInvariant, Next, IsStored(record),
                      HasCandidate(record), record' = NoManifest, touched = {},
                      quarantined' # record
               PROVE  Named(New, "target")
    BY DEF IsReplacement
  <2>1. record.state = "committed"
    BY JobsLeave, StoredIs
  <2>2. published
    BY <2>1 DEF ReplacementInvariant, RecordSays, Finished
  <2> QED
    BY <2>2 DEF ReplacementInvariant, RowsFit
<1> QED
  BY <1>1, InvariantHolds, PTL DEF Spec, BytesLeaveWhenServed
=============================================================================
