---------------------------- MODULE JobLifecycle ----------------------------
(***************************************************************************)
(* What the upload queue promises about one job, with no disk, no lock and *)
(* no process: the contract the docs state for a queued upload             *)
(* (docs/research/queued-upload-recovery.md, "Smallest correct state       *)
(* machine").  A job is new, a draft whose bytes may still change, sealed, *)
(* then finished for one of two reasons, and only a finished job goes      *)
(* away.  A job that is committed names the remote asset that replaced its *)
(* bytes; a cancelled job names none.                                      *)
(***************************************************************************)
CONSTANTS Jobs, Assets, NoAsset

VARIABLES
  phase,      \* where each job stands
  candidate   \* the remote asset recorded for it

vars == <<phase, candidate>>

Phase == {"new", "draft", "sealed", "committed", "cancelled", "gone"}

Init ==
  /\ phase = [j \in Jobs |-> "new"]
  /\ candidate = [j \in Jobs |-> NoAsset]

Become(j, p) == phase' = [phase EXCEPT ![j] = p]

Draft(j) ==
  phase[j] = "new" /\ Become(j, "draft") /\ UNCHANGED candidate

SealJob(j) ==
  phase[j] = "draft" /\ Become(j, "sealed") /\ UNCHANGED candidate

Record(j) ==
  /\ phase[j] = "sealed" /\ candidate[j] = NoAsset
  /\ \E c \in Assets : candidate' = [candidate EXCEPT ![j] = c]
  /\ UNCHANGED phase

CommitJob(j) ==
  /\ phase[j] = "sealed" /\ candidate[j] # NoAsset
  /\ Become(j, "committed") /\ UNCHANGED candidate

(* A committed job whose publication failed is taken up again. *)
Reopen(j) ==
  phase[j] = "committed" /\ Become(j, "sealed") /\ UNCHANGED candidate

CancelJob(j) ==
  /\ phase[j] \in {"draft", "sealed"} /\ candidate[j] = NoAsset
  /\ Become(j, "cancelled") /\ UNCHANGED candidate

(* Finished jobs go; one start of the service may clear away several at once. *)
Discard(J) ==
  /\ \A j \in J : phase[j] \in {"committed", "cancelled"}
  /\ phase' = [j \in Jobs |-> IF j \in J THEN "gone" ELSE phase[j]]
  /\ candidate' = [j \in Jobs |-> IF j \in J THEN NoAsset ELSE candidate[j]]

Next ==
  \/ \E j \in Jobs :
       \/ Draft(j) \/ SealJob(j) \/ Record(j) \/ CommitJob(j) \/ Reopen(j)
       \/ CancelJob(j)
  \/ \E J \in SUBSET Jobs : Discard(J)

Spec == Init /\ [][Next]_vars
=============================================================================
