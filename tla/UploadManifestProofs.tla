------------------------ MODULE UploadManifestProofs ------------------------
(***************************************************************************)
(* What the updates of a manifest (uploads.py) return and keep, for every  *)
(* set of assets and error codes.  The proofs about the modules that store *)
(* manifests use these facts.                                              *)
(***************************************************************************)
EXTENDS UploadManifest, TLAPS

(* The first manifest of a draft is one. *)
LEMMA NewIsManifest == NewManifest \in Manifest
  BY DEF Manifest, UploadState, NewManifest, Unsealed, UploadOperation

(* Every update of a manifest yields a manifest: the fields an operation of  *)
(* uploads.py replaces stay in their types.                                  *)
LEMMA UpdatesAreManifests ==
  ASSUME NEW m \in Manifest
  PROVE  /\ \A b \in Nat \cup {Unsealed} : Seal(m, b) \in Manifest
         /\ MarkReplacement(m) \in Manifest
         /\ \A e \in UploadErrorCode : BlockDraft(m, e) \in Manifest
         /\ \A e \in UploadErrorCode : Block(m, e) \in Manifest
         /\ Provisional(m) \in Manifest
         /\ Admit(m) \in Manifest
         /\ \A c \in Assets : RecordCandidate(m, c) \in Manifest
         /\ BeginReplacing(m) \in Manifest
         /\ \A e \in UploadErrorCode \cup {NoError} : Retry(m, e) \in Manifest
         /\ Commit(m) \in Manifest
         /\ Cancel(m) \in Manifest
<1> USE DEF Manifest, UploadState
<1>1. m.revision + 1 \in Nat /\ m.attempts + 1 \in Nat
  OBVIOUS
<1>3. \A b \in Nat \cup {Unsealed} : Seal(m, b) \in Manifest
  BY <1>1 DEF Seal
<1>4. MarkReplacement(m) \in Manifest
  BY <1>1 DEF MarkReplacement, UploadOperation
<1>5. \A e \in UploadErrorCode : BlockDraft(m, e) \in Manifest
  BY <1>1 DEF BlockDraft
<1>6. \A e \in UploadErrorCode : Block(m, e) \in Manifest
  BY <1>1 DEF Block
<1>7. Provisional(m) \in Manifest
  BY <1>1 DEF Provisional
<1>8. Admit(m) \in Manifest
  BY <1>1 DEF Admit
<1>9. \A c \in Assets : RecordCandidate(m, c) \in Manifest
  BY <1>1 DEF RecordCandidate
<1>10. BeginReplacing(m) \in Manifest
  BY <1>1 DEF BeginReplacing
<1>11. \A e \in UploadErrorCode \cup {NoError} : Retry(m, e) \in Manifest
  <2>1. ResumeState(m) \in UploadState
    BY DEF ResumeState
  <2> QED BY <1>1, <2>1 DEF Retry
<1>12. Commit(m) \in Manifest
  BY <1>1 DEF Commit
<1>13. Cancel(m) \in Manifest
  BY <1>1 DEF Cancel
<1> QED
  BY <1>3, <1>4, <1>5, <1>6, <1>7, <1>8, <1>9, <1>10, <1>11, <1>12, <1>13

(* No update but seal touches the sealed bytes, and none lowers the count of *)
(* attempts.                                                                 *)
Keeps(m, next) == next.bytes = m.bytes /\ next.attempts = m.attempts

LEMMA UpdatesKeep ==
  ASSUME NEW m \in Manifest
  PROVE  /\ \A b : Seal(m, b).bytes = b /\ Seal(m, b).attempts = m.attempts
         /\ Keeps(m, MarkReplacement(m))
         /\ \A e : Keeps(m, BlockDraft(m, e)) /\ Keeps(m, Block(m, e))
         /\ Keeps(m, Provisional(m))
         /\ Admit(m).bytes = m.bytes /\ Admit(m).attempts = m.attempts + 1
         /\ \A c : Keeps(m, RecordCandidate(m, c))
         /\ Keeps(m, BeginReplacing(m))
         /\ \A e : Keeps(m, Retry(m, e))
         /\ Keeps(m, Commit(m))
         /\ Keeps(m, Cancel(m)) /\ Cancel(m).state = "cancelled"
  BY DEF Keeps, Manifest, Seal, MarkReplacement, BlockDraft, Block,
     Provisional, Admit, RecordCandidate, BeginReplacing, Retry, Commit, Cancel

(* Every update, made when the code makes it, yields a record that passes    *)
(* _validate_manifest, and one that has counted an attempt if it has a       *)
(* candidate: a blocked record is not checked for that, and retry relies on  *)
(* it.                                                                       *)
Counted(m) == HasCandidate(m) => m.attempts >= 1
Sound(m) == m \in Manifest /\ ValidManifest(m) /\ Counted(m)

LEMMA NewIsSound == Sound(NewManifest)
<1>1. /\ NewManifest.state = "writing" /\ NewManifest.revision = 1
      /\ NewManifest.bytes = Unsealed /\ NewManifest.attempts = 0
      /\ NewManifest.timed = FALSE /\ NewManifest.error = NoError
      /\ NewManifest.candidate = NoAsset /\ NewManifest.verified = FALSE
      /\ NewManifest.op = "ordinary"
  BY DEF NewManifest
<1> QED
  BY <1>1, NewIsManifest
  DEF Sound, Counted, ValidManifest, ValidFields, ValidState, IsSealed, HasCandidate

LEMMA SealIsSound ==
  ASSUME NEW m, Sound(m), m.state = "writing", NEW b \in Nat
  PROVE  Sound(Seal(m, b))
<1> DEFINE n == Seal(m, b)
<1>1. /\ m \in Manifest /\ n \in Manifest
  BY UpdatesAreManifests DEF Sound
<1>2. /\ n.state = "pending" /\ n.revision = m.revision + 1 /\ n.bytes = b
      /\ n.attempts = m.attempts /\ n.timed = TRUE /\ n.error = m.error
      /\ n.candidate = m.candidate /\ n.verified = m.verified /\ n.op = m.op
  BY <1>1 DEF Seal, Manifest
<1>3. b # Unsealed /\ m.revision + 1 >= 1
  BY <1>1 DEF Unsealed, Manifest
<1>4. ~m.verified /\ ~HasCandidate(m)
  BY DEF Sound, ValidManifest, ValidState
<1> HIDE DEF n
<1>5. ValidFields(n)
  BY <1>2, <1>3, <1>4 DEF ValidFields
<1>6. ValidState(n)
  BY <1>2, <1>3, <1>4 DEF ValidState, IsSealed, HasCandidate
<1>7. Counted(n)
  BY <1>2, <1>4 DEF Counted, HasCandidate
<1> QED
  BY <1>1, <1>5, <1>6, <1>7 DEF Sound, ValidManifest, n

LEMMA BlockDraftIsSound ==
  ASSUME NEW m, Sound(m), m.state = "writing", NEW e \in UploadErrorCode \ {NoError}
  PROVE  Sound(BlockDraft(m, e))
<1> DEFINE n == BlockDraft(m, e)
<1>1. /\ m \in Manifest /\ n \in Manifest
  BY UpdatesAreManifests DEF Sound
<1>2. /\ n.state = "blocked" /\ n.revision = m.revision + 1 /\ n.bytes = m.bytes
      /\ n.attempts = m.attempts /\ n.timed = m.timed /\ n.error = e
      /\ n.candidate = m.candidate /\ n.verified = m.verified /\ n.op = m.op
      /\ m.revision \in Nat
  BY <1>1 DEF BlockDraft, Manifest
<1> HIDE DEF n
<1>3. Sound(n)
  BY <1>1, <1>2
  DEF Sound, Counted, ValidManifest, ValidFields, ValidState, IsSealed, HasCandidate
<1> QED
  BY <1>3 DEF n

LEMMA RetryIsSound ==
  ASSUME NEW m, Sound(m), CanRetry(m), NEW e \in UploadErrorCode \cup {NoError}
  PROVE  Sound(Retry(m, e))
<1> DEFINE n == Retry(m, e)
<1>1. /\ m \in Manifest /\ n \in Manifest
  BY UpdatesAreManifests DEF Sound
<1>2. /\ n.state = ResumeState(m) /\ n.revision = m.revision + 1 /\ n.bytes = m.bytes
      /\ n.attempts = m.attempts /\ n.timed = TRUE /\ n.error = e
      /\ n.candidate = m.candidate /\ n.verified = m.verified /\ n.op = m.op
      /\ m.revision \in Nat
  BY <1>1 DEF Retry, Manifest
<1> HIDE DEF n
<1>3. Sound(n)
  BY <1>1, <1>2
  DEF Sound, Counted, ValidManifest, ValidFields, ValidState, IsSealed, HasCandidate,
      CanRetry, ResumeState
<1> QED
  BY <1>3 DEF n

LEMMA AttemptIsSound ==
  ASSUME NEW m, Sound(m), CanAttempt(m)
  PROVE  Sound(Provisional(m)) /\ Sound(Admit(Provisional(m)))
<1> DEFINE p == Provisional(m)
           n == Admit(p)
<1>1. m \in Manifest /\ p \in Manifest
  BY UpdatesAreManifests DEF Sound
<1>2. n \in Manifest
  BY <1>1, UpdatesAreManifests
<1>3. /\ p.state = "attempting" /\ p.revision = m.revision + 1 /\ p.bytes = m.bytes
      /\ p.attempts = m.attempts /\ p.timed = FALSE /\ p.error = NoError
      /\ p.candidate = m.candidate /\ p.verified = m.verified /\ p.op = m.op
      /\ m.revision \in Nat /\ m.attempts \in Nat
  BY <1>1 DEF Provisional, Manifest
<1>4. /\ n.state = p.state /\ n.revision = p.revision + 1 /\ n.bytes = p.bytes
      /\ n.attempts = p.attempts + 1 /\ n.timed = p.timed /\ n.error = p.error
      /\ n.candidate = p.candidate /\ n.verified = p.verified /\ n.op = p.op
  BY <1>1 DEF Admit, Manifest
<1> HIDE DEF n, p
<1>5. Sound(p)
  BY <1>1, <1>3
  DEF Sound, Counted, ValidManifest, ValidFields, ValidState, IsSealed, HasCandidate,
      CanAttempt
<1>6. Sound(n)
  BY <1>2, <1>3, <1>4, <1>5
  DEF Sound, Counted, ValidManifest, ValidFields, ValidState, IsSealed, HasCandidate
<1> QED
  BY <1>5, <1>6 DEF n, p

LEMMA RecordIsSound ==
  ASSUME NEW m, Sound(m), m.state = "attempting", m.attempts >= 1, NEW c \in Assets
  PROVE  Sound(RecordCandidate(m, c))
<1> DEFINE n == RecordCandidate(m, c)
<1>1. /\ m \in Manifest /\ n \in Manifest
  BY UpdatesAreManifests DEF Sound
<1>2. /\ n.state = m.state /\ n.revision = m.revision + 1 /\ n.bytes = m.bytes
      /\ n.attempts = m.attempts /\ n.timed = m.timed /\ n.error = m.error
      /\ n.candidate = c /\ n.verified = m.verified /\ n.op = m.op
      /\ m.revision \in Nat
  BY <1>1 DEF RecordCandidate, Manifest
<1> HIDE DEF n
<1>3. Sound(n)
  BY <1>1, <1>2
  DEF Sound, Counted, ValidManifest, ValidFields, ValidState, IsSealed, HasCandidate
<1> QED
  BY <1>3 DEF n

LEMMA BlockIsSound ==
  ASSUME NEW m, Sound(m), CanBlock(m), NEW e \in UploadErrorCode \ {NoError}
  PROVE  Sound(Block(m, e))
<1> DEFINE n == Block(m, e)
<1>1. /\ m \in Manifest /\ n \in Manifest
  BY UpdatesAreManifests DEF Sound
<1>2. /\ n.state = "blocked" /\ n.revision = m.revision + 1 /\ n.bytes = m.bytes
      /\ n.attempts = m.attempts /\ n.timed = FALSE /\ n.error = e
      /\ n.candidate = m.candidate /\ n.verified = m.verified /\ n.op = m.op
      /\ m.revision \in Nat
  BY <1>1 DEF Block, Manifest
<1> HIDE DEF n
<1>3. Sound(n)
  BY <1>1, <1>2
  DEF Sound, Counted, ValidManifest, ValidFields, ValidState, IsSealed, HasCandidate,
      CanBlock
<1> QED
  BY <1>3 DEF n

LEMMA CommitIsSound ==
  ASSUME NEW m, Sound(m), CanCommit(m)
  PROVE  Sound(Commit(m))
<1> DEFINE n == Commit(m)
<1>1. /\ m \in Manifest /\ n \in Manifest
  BY UpdatesAreManifests DEF Sound
<1>2. /\ n.state = "committed" /\ n.revision = m.revision + 1 /\ n.bytes = m.bytes
      /\ n.attempts = m.attempts /\ n.timed = FALSE /\ n.error = NoError
      /\ n.candidate = m.candidate /\ n.verified = m.verified /\ n.op = m.op
      /\ m.revision \in Nat
  BY <1>1 DEF Commit, Manifest
<1> HIDE DEF n
<1>3. Sound(n)
  BY <1>1, <1>2
  DEF Sound, Counted, ValidManifest, ValidFields, ValidState, IsSealed, HasCandidate,
      CanCommit
<1> QED
  BY <1>3 DEF n

LEMMA CancelIsSound ==
  ASSUME NEW m, Sound(m), ~HasCandidate(m)
  PROVE  Sound(Cancel(m))
<1> DEFINE n == Cancel(m)
<1>1. /\ m \in Manifest /\ n \in Manifest
  BY UpdatesAreManifests DEF Sound
<1>2. /\ n.state = "cancelled" /\ n.revision = m.revision + 1 /\ n.bytes = m.bytes
      /\ n.attempts = m.attempts /\ n.timed = FALSE /\ n.error = NoError
      /\ n.candidate = m.candidate /\ n.verified = m.verified /\ n.op = m.op
      /\ m.revision \in Nat
  BY <1>1 DEF Cancel, Manifest
<1> HIDE DEF n
<1>3. Sound(n)
  BY <1>1, <1>2
  DEF Sound, Counted, ValidManifest, ValidFields, ValidState, IsSealed, HasCandidate
<1> QED
  BY <1>3 DEF n

LEMMA MarkIsSound ==
  ASSUME NEW m, Sound(m), CanMarkReplacement(m)
  PROVE  Sound(MarkReplacement(m))
<1> DEFINE n == MarkReplacement(m)
<1>1. /\ m \in Manifest /\ n \in Manifest
  BY UpdatesAreManifests DEF Sound
<1>2. /\ n.state = m.state /\ n.revision >= m.revision /\ n.bytes = m.bytes
      /\ n.attempts = m.attempts /\ n.timed = m.timed /\ n.error = m.error
      /\ n.candidate = m.candidate /\ n.verified = m.verified
      /\ n.op = "replacement" /\ m.revision \in Nat /\ n.revision \in Nat
  BY <1>1 DEF MarkReplacement, Manifest
<1> HIDE DEF n
<1>3. Sound(n)
  BY <1>1, <1>2
  DEF Sound, Counted, ValidManifest, ValidFields, ValidState, IsSealed, HasCandidate,
      CanMarkReplacement
<1> QED
  BY <1>3 DEF n

LEMMA BeginReplacingIsSound ==
  ASSUME NEW m, Sound(m), CanBeginReplacing(m)
  PROVE  Sound(BeginReplacing(m))
<1> DEFINE n == BeginReplacing(m)
<1>1. /\ m \in Manifest /\ n \in Manifest
  BY UpdatesAreManifests DEF Sound
<1>2. /\ n.state = "replacing" /\ n.revision = m.revision + 1 /\ n.bytes = m.bytes
      /\ n.attempts = m.attempts /\ n.timed = FALSE /\ n.error = NoError
      /\ n.candidate = m.candidate /\ n.verified = TRUE /\ n.op = m.op
      /\ m.revision \in Nat
  BY <1>1 DEF BeginReplacing, Manifest
<1> HIDE DEF n
<1>3. Sound(n)
  BY <1>1, <1>2
  DEF Sound, Counted, ValidManifest, ValidFields, ValidState, IsSealed, HasCandidate,
      CanBeginReplacing
<1> QED
  BY <1>3 DEF n
=============================================================================
