--------------------------- MODULE UploadManifest ---------------------------
(***************************************************************************)
(* The manifest of one queued upload: the record kept in manifest.json of  *)
(* a job directory, what makes such a record valid, and the update each    *)
(* operation of UploadQueue (uploads.py) applies to it.  The module has no *)
(* variables: UploadQueue stores manifests on a disk that can fail, and    *)
(* UploadService and AssetReplacement use the same updates as atomic steps *)
(* of the queue they run against.                                          *)
(*                                                                         *)
(* An update is one operator Op(m, ...) giving the new record and one      *)
(* guard CanOp(m, ...) giving the checks the code makes before it writes.  *)
(* The sealed fields (size, sha1, created_ns, modified_ns, sealed_ns) are  *)
(* always set together: they are the one field bytes, the version of the   *)
(* payload that was hashed.  Of next_attempt_ns only whether it is set is  *)
(* kept.  The fields that copy the source of a replacement are the one     *)
(* field op.                                                               *)
(***************************************************************************)
EXTENDS Integers

CONSTANTS
  Assets,      \* remote asset identifiers
  NoAsset,     \* candidate_asset_id is None
  OtherErrors  \* the error codes that no guard of the queue looks at

ASSUME NoAssetAssumption == NoAsset \notin Assets

Unsealed == -1
NoError == "none"
UploadRejected == "upload-rejected"
InterruptedWrite == "interrupted-write"
PayloadInvalid == "payload-invalid"

UploadState ==
  {"writing", "pending", "attempting", "replacing",
   "committed", "blocked", "cancelled"}

UploadOperation == {"ordinary", "replacement"}

UploadErrorCode ==
  OtherErrors \cup {UploadRejected, InterruptedWrite, PayloadInvalid}

Manifest ==
  [state: UploadState,
   revision: Nat,
   bytes: Nat \cup {Unsealed},
   attempts: Nat,
   timed: BOOLEAN,
   error: UploadErrorCode \cup {NoError},
   candidate: Assets \cup {NoAsset},
   verified: BOOLEAN,
   op: UploadOperation]

IsSealed(m) == m.bytes # Unsealed
HasCandidate(m) == m.candidate # NoAsset

(***************************************************************************)
(* _validate_manifest: applied to every record before it is written and    *)
(* after it is read.                                                       *)
(***************************************************************************)
ValidFields(m) ==
  /\ m.verified => m.op = "replacement" /\ HasCandidate(m)
  /\ m.state = "replacing" => m.op = "replacement"
  /\ m.revision >= 1

ValidState(m) ==
  /\ m.state = "writing" =>
       /\ ~IsSealed(m) /\ m.attempts = 0 /\ ~m.timed
       /\ m.error = NoError /\ ~HasCandidate(m) /\ ~m.verified
  /\ m.state = "pending" =>
       IsSealed(m) /\ m.timed /\ ~HasCandidate(m) /\ ~m.verified
  /\ m.state = "attempting" =>
       /\ IsSealed(m) /\ ~m.verified
       /\ HasCandidate(m) => m.attempts >= 1
  /\ m.state = "replacing" =>
       IsSealed(m) /\ m.attempts >= 1 /\ HasCandidate(m) /\ m.verified
  /\ m.state = "committed" =>
       /\ IsSealed(m) /\ m.attempts >= 1 /\ ~m.timed
       /\ m.error = NoError /\ HasCandidate(m)
       /\ m.op = "replacement" => m.verified
  /\ m.state = "blocked" =>
       /\ m.error # NoError /\ ~m.timed
       /\ ~IsSealed(m) => m.attempts = 0 /\ ~HasCandidate(m)
  /\ m.state = "cancelled" =>
       m.error = NoError /\ ~m.timed /\ ~HasCandidate(m) /\ ~m.verified

ValidManifest(m) == ValidFields(m) /\ ValidState(m)

-----------------------------------------------------------------------------
(* begin: the first record of a new draft. *)
NewManifest ==
  [state |-> "writing", revision |-> 1, bytes |-> Unsealed, attempts |-> 0,
   timed |-> FALSE, error |-> NoError, candidate |-> NoAsset,
   verified |-> FALSE, op |-> "ordinary"]

(* _require_draft: the draft of revision 1 still owns the job. *)
IsDraft(m) == m.state = "writing" /\ m.revision = 1

(* seal, the locked half that publishes the hash of payload version b. *)
Seal(m, b) ==
  [m EXCEPT !.state = "pending", !.revision = @ + 1, !.bytes = b,
            !.timed = TRUE]

(* mark_replacement: a draft keeps its revision, so its handles stay good. *)
CanMarkReplacement(m) ==
  m.op = "ordinary" /\ m.state \in {"writing", "pending"}

(* Mutation: a pending job is turned into a replacement under its revision. *)
MarkReplacementSilently(m) == [m EXCEPT !.op = "replacement"]

MarkReplacement(m) ==
  [m EXCEPT !.op = "replacement",
            !.revision = IF m.state = "writing" THEN @ ELSE @ + 1]

(* block_writing *)
BlockDraft(m, e) ==
  [m EXCEPT !.state = "blocked", !.revision = @ + 1, !.error = e]

(* _begin_attempt: first half, second half, and its failure branch. *)
CanAttempt(m) == m.state \in {"pending", "attempting"}

(* Mutation: the payload is verified before anything says attempting. *)
ProvisionalUnmarked(m) == [m EXCEPT !.revision = @ + 1]

Provisional(m) ==
  [m EXCEPT !.state = "attempting", !.revision = @ + 1, !.timed = FALSE,
            !.error = NoError]

(* Mutation: the attempt is counted when it ends, not before it starts. *)
AdmitUncounted(m) == [m EXCEPT !.revision = @ + 1]

Admit(m) == [m EXCEPT !.revision = @ + 1, !.attempts = @ + 1]

(* record_candidate: a new candidate; repeating the same one writes nothing. *)
CanRecordCandidate(m) == m.state = "attempting" /\ ~HasCandidate(m)

RecordCandidate(m, c) == [m EXCEPT !.revision = @ + 1, !.candidate = c]

(* begin_replacing *)
CanBeginReplacing(m) ==
  m.op = "replacement" /\ m.state = "attempting" /\ HasCandidate(m)

BeginReplacing(m) ==
  [m EXCEPT !.state = "replacing", !.revision = @ + 1, !.timed = FALSE,
            !.error = NoError, !.verified = TRUE]

(* retry: the state a job resumes in is read off what it already achieved. *)
CanRetry(m) ==
  /\ m.state \in {"pending", "attempting", "replacing", "committed", "blocked"}
  /\ IsSealed(m)

ResumeState(m) ==
  IF m.op = "replacement" /\ m.verified THEN "replacing"
  ELSE IF HasCandidate(m) THEN "attempting" ELSE "pending"

(* Mutation: a retry starts over although the server has the candidate. *)
RetryFromStart(m, e) ==
  [m EXCEPT !.state = "pending", !.revision = @ + 1, !.timed = TRUE,
            !.error = e]

Retry(m, e) ==
  [m EXCEPT !.state = ResumeState(m), !.revision = @ + 1, !.timed = TRUE,
            !.error = e]

(* retry with a revision, as Pending > Retry and final release call it. *)
CanRetryAt(m, r) ==
  CanRetry(m) /\ m.revision = r /\ m.state \in {"pending", "blocked"}


(* block *)
CanBlock(m) ==
  m.state \in {"pending", "attempting", "replacing", "committed", "blocked"}

Block(m, e) ==
  [m EXCEPT !.state = "blocked", !.revision = @ + 1, !.timed = FALSE,
            !.error = e]

(* commit *)
CanCommit(m) ==
  /\ m.op = "replacement" => m.state = "replacing"
  /\ HasCandidate(m)
  /\ m.state \in {"attempting", "replacing"}

Commit(m) ==
  [m EXCEPT !.state = "committed", !.revision = @ + 1, !.timed = FALSE,
            !.error = NoError]

(* Mutation: a job is cancelled although it has a candidate on the server. *)
CanCancelCandidate(m, r) ==
  /\ m.revision = r
  /\ m.state \in {"pending", "blocked"}

(* cancel: what the user confirmed is revision r. *)
CanCancel(m, r) ==
  /\ m.revision = r
  /\ m.state \in {"pending", "blocked"}
  /\ ~HasCandidate(m)
  /\ m.attempts > 0 => m.error = UploadRejected

Cancel(m) ==
  [m EXCEPT !.state = "cancelled", !.revision = @ + 1, !.timed = FALSE,
            !.error = NoError]

(* next_due selects among these; whether the time has come is the caller's. *)
IsWorkable(m) == m.state \in {"pending", "attempting", "replacing"}

(* Mutation: a blocked upload is not offered by the mount after a restart. *)
IsReadableUnlessBlocked(m) ==
  m.state \in {"pending", "attempting", "replacing"}

(* open_local: the states whose payload the mount may read. *)
IsLocallyReadable(m) ==
  m.state \in {"pending", "attempting", "replacing", "blocked"}

(* Where a record puts its job in the lifecycle of JobLifecycle. *)
PhaseOf(m) ==
  IF m.state \in {"committed", "cancelled"} THEN m.state
  ELSE IF IsSealed(m) THEN "sealed" ELSE "draft"

=============================================================================
