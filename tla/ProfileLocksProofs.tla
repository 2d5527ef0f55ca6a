------------------------- MODULE ProfileLocksProofs -------------------------
(***************************************************************************)
(* Theorems about ProfileLocks, for every set of processes, profiles,      *)
(* mounts and paths, however the paths lie, and every bound.               *)
(***************************************************************************)
EXTENDS ProfileLocks, TLAPS

-----------------------------------------------------------------------------
(* The inductive invariant.                                                *)

\* Nobody holds a lock that excludes one another process holds.
LocksApart ==
  \A p, q \in Processes : p # q =>
    \A l \in proc[p].held, k \in proc[q].held :
      l.on = k.on => l.shared /\ k.shared

Claims == {"claimed", "move", "write", "keys", "mounts", "serving"}

\* A process that has claimed a profile holds its lock, and one that serves
\* holds the locks of its whole path.
ClaimHeld(r) ==
  /\ r.at # "away" => r.profile \in Profiles
  /\ r.at \in Claims => Service(r.profile) \in r.held
  /\ r.at \in {"mounts", "serving"} => r.path \in Paths
  /\ r.at = "serving" =>
       \A k \in DOMAIN MountLocks(r.path) : MountLocks(r.path)[k] \in r.held

ClaimsHeld == \A p \in Processes : ClaimHeld(proc[p])

\* What a process is doing fits what it was started for.
PurposeOf(r) ==
  /\ r.at # "away" /\ r.kind = "save" => r.mount \in Mounts
  /\ r.at = "move" => r.profile = Default
  /\ r.at = "write" => r.kind = "save"

PurposeKept == \A p \in Processes : PurposeOf(proc[p])

\* The old config goes last, so nothing of a profile exists before it and
\* nothing of the old installation after it.
ConfigGoesLast ==
  /\ Legacy => retired = {} /\ \A i \in Profiles : config[i] = None
  /\ ~Legacy => old = {}
  /\ \A p \in Processes : proc[p].at \in {"write", "mounts", "serving"} => ~Legacy

\* A profile that has a config, or is about to get one, is not retired.
RetiredForGood ==
  /\ \A i \in Profiles : config[i] # None => i \notin retired
  /\ \A p \in Processes :
       proc[p].at \in {"move", "write"} => proc[p].profile \notin retired

ProfileInvariant ==
  /\ TypeOK /\ LocksApart /\ ClaimsHeld /\ PurposeKept
  /\ ConfigGoesLast /\ RetiredForGood

-----------------------------------------------------------------------------
(* The locks.                                                              *)

(* The locks of a path are locks, and every ancestor's and the path's own    *)
(* are among them.                                                           *)
LEMMA MountLocksAreLocks ==
  ASSUME NEW path \in Paths
  PROVE  /\ MountLocks(path) \in Seq(Locks)
         /\ \A k \in DOMAIN Above[path] :
              /\ k \in DOMAIN MountLocks(path)
              /\ MountLocks(path)[k] = Ancestor(Above[path][k])
         /\ \E k \in DOMAIN MountLocks(path) : MountLocks(path)[k] = Leaf(path)
<1> DEFINE above == [k \in DOMAIN Above[path] |-> Ancestor(Above[path][k])]
<1>1. Above[path] \in Seq(Paths)
  BY ProfileAssumption
<1>2. above \in Seq(Locks) /\ Len(above) = Len(Above[path])
  BY <1>1 DEF Locks
<1>3. Leaf(path) \in Locks
  BY DEF Locks
<1>4. MountLocks(path) = Append(above, Leaf(path))
  BY DEF MountLocks
<1> HIDE DEF above
<1>5. /\ MountLocks(path) \in Seq(Locks)
      /\ Len(MountLocks(path)) = Len(above) + 1
      /\ \A k \in 1..Len(above) : MountLocks(path)[k] = above[k]
      /\ MountLocks(path)[Len(above) + 1] = Leaf(path)
  BY <1>2, <1>3, <1>4
<1>6. DOMAIN Above[path] = 1..Len(above) /\ Len(above) \in Nat
  BY <1>1, <1>2
<1>7. DOMAIN MountLocks(path) = 1..(Len(above) + 1)
  BY <1>5, <1>6
<1>8. \A k \in DOMAIN Above[path] : above[k] = Ancestor(Above[path][k])
  BY DEF above
<1> QED
  BY <1>5, <1>6, <1>7, <1>8

\* A step of p is a step of no other process, and takes no lock that is not free.
StepsAlone(p) ==
  /\ \A q \in Processes : q # p => proc'[q] = proc[q]
  /\ \/ proc'[p].held \subseteq proc[p].held
     \/ \E lock : Free(p, lock) /\ proc'[p].held \subseteq proc[p].held \cup {lock}

(* One process may take a free lock, or let go of some, and the locks stay   *)
(* apart.                                                                    *)
LEMMA LocksStayApart ==
  ASSUME LocksApart, NEW p \in Processes, StepsAlone(p)
  PROVE  LocksApart'
<1> SUFFICES ASSUME NEW q \in Processes, NEW r \in Processes, q # r,
                    NEW l \in proc'[q].held, NEW k \in proc'[r].held, l.on = k.on
             PROVE  l.shared /\ k.shared
  BY DEF LocksApart
<1>1. CASE proc'[p].held \subseteq proc[p].held
  BY <1>1 DEF LocksApart, StepsAlone
<1>2. ASSUME NEW lock, Free(p, lock), proc'[p].held \subseteq proc[p].held \cup {lock}
      PROVE  l.shared /\ k.shared
  <2>1. CASE q = p
    BY <1>2, <2>1 DEF LocksApart, Free, StepsAlone
  <2>2. CASE r = p
    BY <1>2, <2>2 DEF LocksApart, Free, StepsAlone
  <2>3. CASE q # p /\ r # p
    BY <2>3 DEF LocksApart, StepsAlone
  <2> QED
    BY <2>1, <2>2, <2>3
<1> QED
  BY <1>1, <1>2 DEF StepsAlone

(* No two processes have claimed the same profile.                           *)
LEMMA OneClaimEach ==
  ASSUME LocksApart, ClaimsHeld, NEW p \in Processes, NEW q \in Processes, p # q,
         proc[p].at \in Claims, proc[q].at \in Claims
  PROVE  proc[p].profile # proc[q].profile
<1> SUFFICES ASSUME proc[p].profile = proc[q].profile PROVE FALSE
  OBVIOUS
<1>1. /\ Service(proc[p].profile) \in proc[p].held
      /\ Service(proc[p].profile) \in proc[q].held
  BY DEF ClaimsHeld, ClaimHeld
<1>2. ~Service(proc[p].profile).shared
  BY DEF Service
<1> QED
  BY <1>1, <1>2 DEF LocksApart

-----------------------------------------------------------------------------
(* Types.                                                                  *)

(* Where a process is may change, and it may take locks.                     *)
LEMMA ProcessFields ==
  ASSUME NEW r \in Process, NEW at \in Places, NEW held \in SUBSET Locks
  PROVE  /\ r.held \in SUBSET Locks
         /\ [r EXCEPT !.at = at] \in Process
         /\ [r EXCEPT !.held = held] \in Process
         /\ [r EXCEPT !.at = at, !.held = held] \in Process
         /\ \A path \in Paths : [r EXCEPT !.at = at, !.path = path, !.held = held] \in Process
  BY DEF Process

LEMMA TypeStep ==
  ASSUME TypeOK, ClaimsHeld, PurposeKept, [Next]_vars
  PROVE  TypeOK'
<1>1. ASSUME NEW p \in Processes, Step(p) PROVE TypeOK'
  <2> DEFINE r == proc[p]
  <2>1. r \in Process /\ proc \in [Processes -> Process]
    BY DEF TypeOK
  <2>2. Away \in Process
    BY DEF Away, Process, Places
  <2>3. ASSUME NEW s \in Process, proc' = [proc EXCEPT ![p] = s]
        PROVE  proc' \in [Processes -> Process]
    BY <2>1, <2>3
  <2>4. ASSUME End(p) PROVE proc' \in [Processes -> Process]
    BY <2>2, <2>3, <2>4 DEF End
  <2>5. ASSUME Refuse(p) PROVE TypeOK'
    BY <2>4, <2>5 DEF Refuse, TypeOK, files, world
  <2>6. ASSUME NEW at \in Places, Goto(p, at) PROVE proc' \in [Processes -> Process]
    <3>1. proc' = [proc EXCEPT ![p] = [r EXCEPT !.at = at]]
      BY <2>6 DEF Goto
    <3>2. [r EXCEPT !.at = at] \in Process
      BY <2>1 DEF Process
    <3> QED
      BY <2>3, <3>1, <3>2
  <2>7. ASSUME NEW kind \in Kinds, NEW i \in Profiles, NEW m \in Mounts \cup {None},
               Run(p, kind, i, m)
        PROVE  TypeOK'
    <3>1. [Away EXCEPT !.at = "global", !.kind = kind, !.profile = i, !.mount = m] \in Process
      BY DEF Away, Process, Places
    <3>2. proc' \in [Processes -> Process]
      BY <2>3, <2>7, <3>1 DEF Run
    <3>3. runs' \in 0..MaxRuns
      BY <2>7, ProfileAssumption DEF Run, TypeOK
    <3> QED
      BY <2>7, <3>2, <3>3 DEF Run, TypeOK, files, world
  <2>8. CASE TakeGlobal(p)
    <3>1. CASE Free(p, Global)
      <4>1. proc' = [proc EXCEPT ![p] = [r EXCEPT !.at = "service", !.held = {Global}]]
        BY <2>8, <3>1 DEF TakeGlobal
      <4>2. [r EXCEPT !.at = "service", !.held = {Global}] \in Process
        BY <2>1, ProcessFields DEF Places, Locks
      <4> QED
        BY <2>3, <2>8, <4>1, <4>2 DEF TakeGlobal, TypeOK, files, world
    <3>2. CASE ~Free(p, Global)
      BY <2>4, <2>8, <3>2 DEF TakeGlobal, TypeOK, files, world
    <3> QED
      BY <3>1, <3>2
  <2>9. CASE TakeService(p)
    <3> DEFINE held == r.held \cup {Service(r.profile)}
    <3>1. proc' = [proc EXCEPT ![p] = [r EXCEPT !.at = "claimed", !.held = held]]
      BY <2>9 DEF TakeService
    <3>2. r.profile \in Profiles
      BY <2>9 DEF TakeService, ClaimsHeld, ClaimHeld
    <3>3. held \in SUBSET Locks
      BY <2>1, <3>2 DEF Process, Locks
    <3>4. [r EXCEPT !.at = "claimed", !.held = held] \in Process
      BY <2>1, <3>3, ProcessFields DEF Places
    <3> QED
      BY <2>3, <2>9, <3>1, <3>4 DEF TakeService, TypeOK, files, world
  <2>10. CASE AlreadyClaimed(p) \/ MustMigrateFirst(p) \/ MountChanged(p)
    BY <2>5, <2>10 DEF AlreadyClaimed, MustMigrateFirst, MountChanged
  <2>11. CASE CheckMigration(p)
    BY <2>5, <2>6, <2>11 DEF CheckMigration, TypeOK, files, world, Places
  <2>12. CASE MoveEntry(p)
    BY <2>12, ProfileAssumption DEF MoveEntry, TypeOK, world
  <2>13. CASE Migrated(p)
    BY <2>6, <2>13 DEF Migrated, TypeOK, files, world, Places
  <2>14. CASE Validate(p)
    BY <2>5, <2>6, <2>14 DEF Validate, TypeOK, files, world, Places
  <2>15. CASE WriteConfig(p)
    <3>1. proc' \in [Processes -> Process]
      BY <2>6, <2>15 DEF WriteConfig, Places
    <3>2. proc[p].mount \in Mounts
      BY <2>15 DEF WriteConfig, PurposeKept, PurposeOf
    <3> QED
      BY <2>15, <3>1, <3>2 DEF WriteConfig, TypeOK, world
  <2>16. CASE WriteKeys(p)
    BY <2>4, <2>16 DEF WriteKeys, TypeOK, files, world
  <2>17. CASE Load(p)
    <3>1. CASE Refuse(p)
      BY <2>5, <3>1
    <3>2. CASE ~Refuse(p)
      <4> DEFINE i == r.profile
                 path == target[config[i]]
                 held == IF r.kind = "serve" THEN r.held \ {Global} ELSE r.held
      <4>1. /\ config[i] # None
            /\ proc' = [proc EXCEPT ![p] =
                 [r EXCEPT !.at = "mounts", !.path = path, !.held = held]]
            /\ UNCHANGED <<files, world, runs, trouble>>
        BY <2>17, <3>2 DEF Load
      <4>2. i \in Profiles
        BY <2>17 DEF Load, At, ClaimsHeld, ClaimHeld, Claims
      <4>3. path \in Paths
        BY <4>1, <4>2 DEF TypeOK
      <4>4. held \in SUBSET Locks
        BY <2>1 DEF Process
      <4> HIDE DEF path, held
      <4>5. [r EXCEPT !.at = "mounts", !.path = path, !.held = held] \in Process
        BY <2>1, <4>3, <4>4, ProcessFields DEF Places
      <4> QED
        BY <2>3, <4>1, <4>5 DEF TypeOK, files, world
    <3> QED
      BY <3>1, <3>2
  <2>18. CASE TakeMount(p)
    <3>1. PICK k \in Missing(p) :
            LET lock == MountLocks(r.path)[k] IN
            IF Free(p, lock)
            THEN /\ proc' = [proc EXCEPT ![p].held = @ \cup {lock}]
                 /\ UNCHANGED <<files, world, runs, trouble>>
            ELSE Refuse(p)
      BY <2>18 DEF TakeMount
    <3> DEFINE lock == MountLocks(r.path)[k]
    <3>2. r.path \in Paths
      BY <2>18 DEF TakeMount, ClaimsHeld, ClaimHeld
    <3>3. lock \in Locks
      BY <3>2, MountLocksAreLocks DEF Missing
    <3>4. CASE Free(p, lock)
      <4> HIDE DEF lock
      <4>1. [r EXCEPT !.held = @ \cup {lock}] \in Process
        BY <2>1, <3>3 DEF Process
      <4>2. /\ proc' = [proc EXCEPT ![p] = [r EXCEPT !.held = @ \cup {lock}]]
            /\ UNCHANGED <<files, world, runs, trouble>>
        BY <3>1, <3>4 DEF lock
      <4> QED
        BY <2>3, <4>1, <4>2 DEF TypeOK, files, world
    <3>5. CASE ~Free(p, lock)
      BY <2>5, <3>1, <3>5
    <3> QED
      BY <3>4, <3>5
  <2>19. CASE Mount(p)
    <3>1. proc' \in [Processes -> Process]
      BY <2>6, <2>19 DEF Mount, Places
    <3>2. proc[p].path \in Paths /\ proc[p].profile \in Profiles
      BY <2>19 DEF Mount, Claimed, ClaimsHeld, ClaimHeld, Claims
    <3> QED
      BY <2>19, <3>1, <3>2 DEF Mount, TypeOK
  <2>20. CASE Retire(p)
    <3>1. proc[p].profile \in Profiles
      BY <2>20 DEF Retire, Claimed, ClaimsHeld, ClaimHeld, Claims
    <3> QED
      BY <2>4, <2>20, <3>1 DEF Retire, TypeOK, world
  <2>21. CASE Stop(p)
    BY <2>4, <2>21 DEF Stop, TypeOK, files
  <2>22. CASE Kill(p)
    BY <2>4, <2>22, ProfileAssumption DEF Kill, TypeOK, files, world
  <2> QED
    BY <1>1, <2>7, <2>8, <2>9, <2>10, <2>11, <2>12, <2>13, <2>14, <2>15, <2>16,
       <2>17, <2>18, <2>19, <2>20, <2>21, <2>22 DEF Step
<1>2. ASSUME NEW path \in Paths, Unmount(path) PROVE TypeOK'
  BY <1>2 DEF Unmount, TypeOK, files
<1>3. ASSUME NEW m \in Mounts, NEW path \in Paths, MoveLink(m, path) PROVE TypeOK'
  BY <1>3, ProfileAssumption DEF MoveLink, TypeOK, files
<1>4. CASE UNCHANGED vars
  BY <1>4 DEF vars, TypeOK, files, world
<1> QED
  BY <1>1, <1>2, <1>3, <1>4 DEF Next

-----------------------------------------------------------------------------
(* The parts of the invariant.                                             *)

LEMMA OneProcessSteps ==
  ASSUME TypeOK, NEW p \in Processes, Step(p)
  PROVE  StepsAlone(p)
<1>1. proc \in [Processes -> Process] /\ proc[p] \in Process
  BY DEF TypeOK
<1>2. ASSUME NEW s, proc' = [proc EXCEPT ![p] = s] PROVE proc'[p] = s /\ \A q \in Processes : q # p => proc'[q] = proc[q]
  BY <1>1, <1>2
<1>3. ASSUME End(p) PROVE StepsAlone(p)
  BY <1>2, <1>3 DEF End, Away, StepsAlone
<1>4. ASSUME Refuse(p) PROVE StepsAlone(p)
  BY <1>3, <1>4 DEF Refuse
<1>5. ASSUME NEW at, Goto(p, at) PROVE StepsAlone(p)
  BY <1>1, <1>5 DEF Goto, Process, StepsAlone
<1>6. ASSUME NEW kind \in Kinds, NEW i \in Profiles, NEW m \in Mounts \cup {None},
             Run(p, kind, i, m)
      PROVE  StepsAlone(p)
  BY <1>2, <1>6 DEF Run, Away, StepsAlone
<1>7. CASE TakeGlobal(p)
  <2>1. CASE Free(p, Global)
    <3>1. proc' = [proc EXCEPT ![p] = [proc[p] EXCEPT !.at = "service", !.held = {Global}]]
      BY <1>7, <2>1 DEF TakeGlobal
    <3>2. proc'[p].held = {Global}
      BY <1>1, <1>2, <3>1 DEF Process
    <3> QED
      BY <1>2, <2>1, <3>1, <3>2 DEF StepsAlone
  <2>2. CASE ~Free(p, Global)
    BY <1>3, <1>7, <2>2 DEF TakeGlobal
  <2> QED
    BY <2>1, <2>2
<1>8. CASE TakeService(p)
  <2> DEFINE lock == Service(proc[p].profile)
  <2>1. /\ Free(p, lock)
        /\ proc' = [proc EXCEPT ![p] =
             [proc[p] EXCEPT !.at = "claimed", !.held = proc[p].held \cup {lock}]]
    BY <1>8 DEF TakeService
  <2> HIDE DEF lock
  <2>2. proc'[p].held = proc[p].held \cup {lock}
    BY <1>1, <1>2, <2>1 DEF Process
  <2> QED
    BY <1>2, <2>1, <2>2 DEF StepsAlone
<1>9. CASE TakeMount(p)
  <2>1. PICK k \in Missing(p) :
          LET lock == MountLocks(proc[p].path)[k] IN
          IF Free(p, lock)
          THEN proc' = [proc EXCEPT ![p].held = @ \cup {lock}]
          ELSE Refuse(p)
    BY <1>9 DEF TakeMount
  <2> DEFINE lock == MountLocks(proc[p].path)[k]
  <2>2. CASE Free(p, lock)
    <3>1. proc' = [proc EXCEPT ![p] = [proc[p] EXCEPT !.held = proc[p].held \cup {lock}]]
      BY <2>1, <2>2
    <3> HIDE DEF lock
    <3>2. proc'[p].held = proc[p].held \cup {lock}
      BY <1>1, <1>2, <3>1 DEF Process
    <3> QED
      BY <1>2, <2>2, <3>1, <3>2 DEF StepsAlone
  <2>3. CASE ~Free(p, lock)
    BY <1>4, <2>1, <2>3
  <2> QED
    BY <2>2, <2>3
<1>10. CASE Load(p)
  <2>1. CASE Refuse(p)
    BY <1>4, <2>1
  <2>2. CASE ~Refuse(p)
    <3> DEFINE path == target[config[proc[p].profile]]
               held == IF proc[p].kind = "serve" THEN proc[p].held \ {Global}
                                                 ELSE proc[p].held
    <3>1. proc' = [proc EXCEPT ![p] =
            [proc[p] EXCEPT !.at = "mounts", !.path = path, !.held = held]]
      BY <1>10, <2>2 DEF Load
    <3>2. held \subseteq proc[p].held
      OBVIOUS
    <3> HIDE DEF path, held
    <3>3. proc'[p].held = held
      BY <1>1, <1>2, <3>1 DEF Process
    <3> QED
      BY <1>2, <3>1, <3>2, <3>3 DEF StepsAlone
  <2> QED
    BY <2>1, <2>2
<1>11. CASE MoveEntry(p) \/ Migrated(p) \/ WriteConfig(p) \/ Mount(p)
  <2>1. CASE MoveEntry(p)
    BY <2>1 DEF MoveEntry, StepsAlone
  <2> QED
    BY <1>5, <1>11, <2>1 DEF Migrated, WriteConfig, Mount
<1>12. CASE CheckMigration(p) \/ Validate(p)
  BY <1>4, <1>5, <1>12 DEF CheckMigration, Validate
<1>13. CASE AlreadyClaimed(p) \/ MustMigrateFirst(p) \/ MountChanged(p)
  BY <1>4, <1>13 DEF AlreadyClaimed, MustMigrateFirst, MountChanged
<1>14. CASE WriteKeys(p) \/ Retire(p) \/ Stop(p) \/ Kill(p)
  BY <1>3, <1>14 DEF WriteKeys, Retire, Stop, Kill
<1> QED
  BY <1>6, <1>7, <1>8, <1>9, <1>10, <1>11, <1>12, <1>13, <1>14 DEF Step

(* Only a process steps, or nothing of the processes changes.                *)
LEMMA StepsOfProcesses ==
  ASSUME [Next]_vars
  PROVE  \/ \E p \in Processes : Step(p)
         \/ UNCHANGED <<old, config, retired, proc>>
  BY DEF Next, vars, files, Unmount, MoveLink

LEMMA LocksStep ==
  ASSUME TypeOK, LocksApart, [Next]_vars
  PROVE  LocksApart'
<1>1. ASSUME NEW p \in Processes, Step(p) PROVE LocksApart'
  BY <1>1, OneProcessSteps, LocksStayApart
<1>2. CASE UNCHANGED proc
  BY <1>2 DEF LocksApart
<1> QED
  BY <1>1, <1>2, StepsOfProcesses

(* A process holds the lock of the profile it has claimed, and keeps to what *)
(* it was started for.                                                       *)
LEMMA ClaimsStep ==
  ASSUME TypeOK, ClaimsHeld, PurposeKept, [Next]_vars
  PROVE  ClaimsHeld' /\ PurposeKept'
<1>1. ASSUME NEW p \in Processes, Step(p) PROVE ClaimsHeld' /\ PurposeKept'
  <2> DEFINE r == proc[p]
             Fit(s) == ClaimHeld(s) /\ PurposeOf(s)
  <2>1. r \in Process /\ proc \in [Processes -> Process] /\ Fit(r)
    BY DEF TypeOK, ClaimsHeld, PurposeKept
  <2>2. SUFFICES Fit(proc'[p])
    <3>1. \A q \in Processes : q # p => proc'[q] = proc[q]
      BY <1>1, OneProcessSteps DEF StepsAlone
    <3> QED
      BY <3>1 DEF ClaimsHeld, PurposeKept
  <2>3. ASSUME NEW s, proc' = [proc EXCEPT ![p] = s] PROVE proc'[p] = s
    BY <2>1, <2>3
  <2>4. Fit(Away)
    BY DEF Away, ClaimHeld, PurposeOf, Claims
  <2>5. ASSUME End(p) PROVE Fit(proc'[p])
    BY <2>3, <2>4, <2>5 DEF End
  <2>6. ASSUME Refuse(p) PROVE Fit(proc'[p])
    BY <2>5, <2>6 DEF Refuse
  <2>7. ASSUME NEW at, Goto(p, at)
        PROVE  proc'[p] = [r EXCEPT !.at = at]
    BY <2>1, <2>7 DEF Goto
  <2>8. ASSUME NEW at \in {"claimed", "move", "write", "keys"}, Goto(p, at),
                r.at \in Claims,
                at = "move" => r.profile = Default,
                at = "write" => r.kind = "save"
         PROVE  Fit(proc'[p])
    <3>1. proc'[p] = [r EXCEPT !.at = at]
      BY <2>7, <2>8
    <3>2. /\ proc'[p].at = at /\ proc'[p].profile = r.profile /\ proc'[p].held = r.held
          /\ proc'[p].kind = r.kind /\ proc'[p].mount = r.mount
      BY <2>1, <3>1 DEF Process
    <3>3. ClaimHeld(proc'[p])
      BY <2>1, <2>8, <3>2 DEF ClaimHeld, Claims
    <3>4. PurposeOf(proc'[p])
      BY <2>1, <2>8, <3>2 DEF PurposeOf, Claims
    <3> QED
      BY <3>3, <3>4
  <2>9. ASSUME NEW kind \in Kinds, NEW i \in Profiles, NEW m \in Mounts \cup {None},
               Run(p, kind, i, m)
        PROVE  Fit(proc'[p])
    <3>1. proc'[p] = [Away EXCEPT !.at = "global", !.kind = kind, !.profile = i, !.mount = m]
      BY <2>3, <2>9 DEF Run
    <3>2. kind = "save" => m \in Mounts
      BY <2>9 DEF Run
    <3> QED
      BY <3>1, <3>2 DEF Away, ClaimHeld, PurposeOf, Claims
  <2>10. CASE TakeGlobal(p)
    <3>1. CASE Free(p, Global)
      <4>1. proc'[p] = [r EXCEPT !.at = "service", !.held = {Global}]
        BY <2>1, <2>10, <3>1 DEF TakeGlobal
      <4>2. r.profile \in Profiles
        BY <2>1, <2>10 DEF TakeGlobal, ClaimHeld
      <4> QED
        BY <2>1, <4>1, <4>2, <2>10 DEF TakeGlobal, ClaimHeld, PurposeOf, Claims, Process
    <3>2. CASE ~Free(p, Global)
      BY <2>5, <2>10, <3>2 DEF TakeGlobal
    <3> QED
      BY <3>1, <3>2
  <2>11. CASE TakeService(p)
    <3>1. proc'[p] = [r EXCEPT !.at = "claimed", !.held = r.held \cup {Service(r.profile)}]
      BY <2>1, <2>11 DEF TakeService
    <3> QED
      BY <2>1, <2>11, <3>1 DEF TakeService, ClaimHeld, PurposeOf, Claims, Process
  <2>12. CASE AlreadyClaimed(p) \/ MustMigrateFirst(p) \/ MountChanged(p)
    BY <2>6, <2>12 DEF AlreadyClaimed, MustMigrateFirst, MountChanged
  <2>13. CASE CheckMigration(p)
    <3>1. CASE Goto(p, "move")
      BY <2>13, <2>8, <3>1 DEF CheckMigration, Claims
    <3> QED
      BY <2>6, <2>13, <3>1 DEF CheckMigration
  <2>14. CASE MoveEntry(p)
    BY <2>1, <2>14 DEF MoveEntry
  <2>15. CASE Migrated(p)
    BY <2>15, <2>8 DEF Migrated, Claims
  <2>16. CASE Validate(p)
    <3>1. CASE Goto(p, "write")
      BY <2>16, <2>8, <3>1 DEF Validate, At, Claims
    <3> QED
      BY <2>6, <2>16, <3>1 DEF Validate
  <2>17. CASE WriteConfig(p)
    BY <2>17, <2>8 DEF WriteConfig, Claims
  <2>18. CASE WriteKeys(p) \/ Retire(p) \/ Stop(p) \/ Kill(p)
    BY <2>5, <2>18 DEF WriteKeys, Retire, Stop, Kill
  <2>19. CASE Load(p)
    <3>1. CASE Refuse(p)
      BY <2>6, <3>1
    <3>2. CASE ~Refuse(p)
      <4> DEFINE path == target[config[r.profile]]
                 held == IF r.kind = "serve" THEN r.held \ {Global} ELSE r.held
      <4>1. /\ r.at = "claimed"
            /\ config[r.profile] # None
            /\ proc'[p] = [r EXCEPT !.at = "mounts", !.path = path, !.held = held]
        BY <2>1, <2>19, <3>2 DEF Load, At
      <4>2. r.profile \in Profiles /\ Service(r.profile) \in r.held
        BY <2>1, <4>1 DEF ClaimHeld, Claims
      <4>3. path \in Paths
        BY <4>1, <4>2 DEF TypeOK
      <4>4. Service(r.profile) # Global
        BY DEF Service, Global
      <4>5. Service(r.profile) \in held
        BY <4>2, <4>4
      <4> HIDE DEF path, held
      <4> QED
        BY <2>1, <4>1, <4>2, <4>3, <4>5 DEF ClaimHeld, PurposeOf, Claims, Process
    <3> QED
      BY <3>1, <3>2
  <2>20. CASE TakeMount(p)
    <3>1. PICK lock :
            \/ Refuse(p)
            \/ proc' = [proc EXCEPT ![p].held = @ \cup {lock}]
      BY <2>20 DEF TakeMount
    <3>2. CASE proc' = [proc EXCEPT ![p].held = @ \cup {lock}]
      <4>1. proc'[p] = [r EXCEPT !.held = r.held \cup {lock}]
        BY <2>1, <3>2
      <4> QED
        BY <2>1, <2>20, <4>1 DEF TakeMount, ClaimHeld, PurposeOf, Claims, Process
    <3> QED
      BY <2>6, <3>1, <3>2
  <2>21. CASE Mount(p)
    <3>1. \A k \in DOMAIN MountLocks(r.path) : MountLocks(r.path)[k] \in r.held
      BY <2>21 DEF Mount, Claimed, Missing
    <3>2. proc'[p] = [r EXCEPT !.at = "serving"] /\ r.at = "mounts"
      BY <2>7, <2>21 DEF Mount, Claimed
    <3> QED
      BY <2>1, <3>1, <3>2 DEF ClaimHeld, PurposeOf, Claims, Process
  <2> HIDE DEF Fit
  <2> QED
    BY <1>1, <2>9, <2>10, <2>11, <2>12, <2>13, <2>14, <2>15, <2>16, <2>17, <2>18,
       <2>19, <2>20, <2>21 DEF Step
<1>2. CASE UNCHANGED proc
  BY <1>2 DEF ClaimsHeld, PurposeKept
<1> QED
  BY <1>1, <1>2, StepsOfProcesses

(* Only these change the files of the profiles.                              *)
LEMMA FilesChange ==
  ASSUME NEW p \in Processes, Step(p)
  PROVE  MoveEntry(p) \/ WriteConfig(p) \/ Retire(p) \/ UNCHANGED <<old, config, retired>>
<1> USE DEF files, Refuse
<1>1. ASSUME NEW kind \in Kinds, NEW i \in Profiles, NEW m \in Mounts \cup {None},
             Run(p, kind, i, m)
      PROVE  UNCHANGED <<old, config, retired>>
  BY <1>1 DEF Run
<1>2. CASE TakeGlobal(p) \/ TakeService(p) \/ AlreadyClaimed(p) \/ MustMigrateFirst(p)
  BY <1>2 DEF TakeGlobal, TakeService, AlreadyClaimed, MustMigrateFirst
<1>3. CASE CheckMigration(p) \/ Migrated(p) \/ Validate(p) \/ WriteKeys(p)
  BY <1>3 DEF CheckMigration, Migrated, Validate, WriteKeys
<1>4. CASE Load(p) \/ TakeMount(p) \/ Mount(p) \/ MountChanged(p)
  BY <1>4 DEF Load, TakeMount, Mount, MountChanged
<1>5. CASE Stop(p) \/ Kill(p)
  BY <1>5 DEF Stop, Kill
<1> QED
  BY <1>1, <1>2, <1>3, <1>4, <1>5 DEF Step

\* A process begins to move, to write or to claim a mount only after it has
\* looked at the old installation and at what is left of the profile; s is where
\* it comes to.
LooksFirst(r, s) ==
  /\ s.at \in {"write", "mounts", "serving"} => ~Legacy
  /\ s.at \in {"move", "write"} =>
       /\ r.at \in {"claimed", "move", "write"}
       /\ s.profile = r.profile
       /\ r.profile \in Profiles => r.profile \notin retired

LEMMA Enters ==
  ASSUME TypeOK, ConfigGoesLast, RetiredForGood, NEW p \in Processes, Step(p)
  PROVE  LooksFirst(proc[p], proc'[p])
<1> DEFINE r == proc[p]
           Fine(s) == LooksFirst(r, s)
<1>1. r \in Process /\ proc \in [Processes -> Process]
  BY DEF TypeOK
<1>2. ASSUME NEW s, proc' = [proc EXCEPT ![p] = s] PROVE proc'[p] = s
  BY <1>1, <1>2
<1>3. ASSUME End(p) PROVE Fine(proc'[p])
  <2>1. proc'[p] = Away
    BY <1>2, <1>3 DEF End
  <2> QED
    BY <2>1 DEF Away, LooksFirst
<1>4. ASSUME Refuse(p) PROVE Fine(proc'[p])
  BY <1>3, <1>4 DEF Refuse
<1>5. ASSUME NEW at, Goto(p, at) PROVE proc'[p].at = at /\ proc'[p].profile = r.profile
  BY <1>1, <1>5 DEF Goto, Process
<1>6. ASSUME NEW kind \in Kinds, NEW i \in Profiles, NEW m \in Mounts \cup {None},
             Run(p, kind, i, m)
      PROVE  Fine(proc'[p])
  BY <1>2, <1>6 DEF Run, Away, LooksFirst
<1>7. CASE TakeGlobal(p)
  <2>1. CASE proc' = [proc EXCEPT ![p] = [r EXCEPT !.at = "service", !.held = {Global}]]
    BY <1>1, <1>2, <2>1 DEF Process, LooksFirst
  <2> QED
    BY <1>3, <1>7, <2>1 DEF TakeGlobal
<1>8. CASE TakeService(p)
  <2>1. proc' = [proc EXCEPT ![p] =
          [r EXCEPT !.at = "claimed", !.held = r.held \cup {Service(r.profile)}]]
    BY <1>8 DEF TakeService
  <2> QED
    BY <1>1, <1>2, <2>1 DEF Process, LooksFirst
<1>9. CASE AlreadyClaimed(p) \/ MustMigrateFirst(p) \/ MountChanged(p)
  BY <1>4, <1>9 DEF AlreadyClaimed, MustMigrateFirst, MountChanged
<1>10. CASE CheckMigration(p)
  <2>1. CASE Goto(p, "move")
    <3>1. r.at = "claimed" /\ retired = {}
      BY <1>10 DEF CheckMigration, ConfigGoesLast
    <3> QED
      BY <1>5, <2>1, <3>1 DEF LooksFirst
  <2> QED
    BY <1>4, <1>10, <2>1 DEF CheckMigration
<1>11. CASE MoveEntry(p)
  BY <1>11 DEF MoveEntry, RetiredForGood, ConfigGoesLast, LooksFirst
<1>12. CASE Migrated(p)
  BY <1>5, <1>12 DEF Migrated, LooksFirst
<1>13. CASE Validate(p)
  <2>1. CASE Goto(p, "write") /\ Scaffold(r.profile)
    <3>1. r.at = "claimed" /\ ~Legacy
      BY <1>13 DEF Validate, At
    <3>2. r.profile \in Profiles => r.profile \notin retired
      BY <2>1 DEF Scaffold, RetiredForGood
    <3> QED
      BY <1>5, <2>1, <3>1, <3>2 DEF LooksFirst
  <2> QED
    BY <1>4, <1>13, <2>1 DEF Validate
<1>14. CASE WriteConfig(p)
  BY <1>5, <1>14 DEF WriteConfig, LooksFirst
<1>15. CASE WriteKeys(p) \/ Retire(p) \/ Stop(p) \/ Kill(p)
  BY <1>3, <1>15 DEF WriteKeys, Retire, Stop, Kill
<1>16. CASE Load(p)
  <2> DEFINE path == target[config[r.profile]]
             held == IF r.kind = "serve" THEN r.held \ {Global} ELSE r.held
  <2>1. \/ Refuse(p)
        \/ proc' = [proc EXCEPT ![p] =
             [r EXCEPT !.at = "mounts", !.path = path, !.held = held]]
    BY <1>16 DEF Load
  <2> HIDE DEF path, held
  <2>2. ~Legacy
    BY <1>16 DEF Load, At
  <2>3. CASE proc' = [proc EXCEPT ![p] =
               [r EXCEPT !.at = "mounts", !.path = path, !.held = held]]
    BY <1>1, <1>2, <2>2, <2>3 DEF Process, LooksFirst
  <2> QED
    BY <1>4, <2>1, <2>3
<1>17. CASE TakeMount(p)
  <2>1. PICK lock :
          \/ Refuse(p)
          \/ proc' = [proc EXCEPT ![p] = [r EXCEPT !.held = r.held \cup {lock}]]
    BY <1>17 DEF TakeMount
  <2>2. r.at = "mounts" /\ ~Legacy
    BY <1>17 DEF TakeMount, ConfigGoesLast
  <2>3. CASE proc' = [proc EXCEPT ![p] = [r EXCEPT !.held = r.held \cup {lock}]]
    BY <1>1, <1>2, <2>2, <2>3 DEF Process, LooksFirst
  <2> QED
    BY <1>4, <2>1, <2>3
<1>18. CASE Mount(p)
  <2>1. ~Legacy
    BY <1>18 DEF Mount, Claimed, ConfigGoesLast
  <2> QED
    BY <1>5, <1>18, <2>1 DEF Mount, LooksFirst
<1> QED
  BY <1>6, <1>7, <1>8, <1>9, <1>10, <1>11, <1>12, <1>13, <1>14, <1>15, <1>16,
     <1>17, <1>18 DEF Step

(* The old config is moved last, and what is retired gets no config again.   *)
LEMMA FilesStep ==
  ASSUME ProfileInvariant, [Next]_vars
  PROVE  ConfigGoesLast' /\ RetiredForGood'
<1> USE DEF ProfileInvariant
<1>1. ASSUME NEW p \in Processes, Step(p) PROVE ConfigGoesLast' /\ RetiredForGood'
  <2>1. /\ \A q \in Processes : q # p => proc'[q] = proc[q]
        /\ LooksFirst(proc[p], proc'[p])
    BY <1>1, OneProcessSteps, Enters DEF StepsAlone
  <2>2. \A q \in Processes : proc[q].at # "away" => proc[q].profile \in Profiles
    BY DEF ClaimsHeld, ClaimHeld
  <2>3. config \in [Profiles -> Mounts \cup {None}] /\ old \subseteq 1..Entries
    BY DEF TypeOK
  <2>4. CASE UNCHANGED <<old, config, retired>>
    <3>1. ConfigGoesLast'
      BY <2>1, <2>4 DEF ConfigGoesLast, LooksFirst, Legacy
    <3>2. RetiredForGood'
      BY <2>1, <2>2, <2>4 DEF RetiredForGood, LooksFirst
    <3> QED
      BY <3>1, <3>2
  <2>5. CASE MoveEntry(p)
    <3>1. PICK e \in old :
            /\ IsNext(e)
            /\ old' = old \ {e}
            /\ IF e = Entries
               THEN config' = [config EXCEPT ![Default] = LegacyMount]
               ELSE UNCHANGED config
      BY <2>5 DEF MoveEntry
    <3>2. UNCHANGED <<retired, proc>>
      BY <2>5 DEF MoveEntry
    <3>3. Legacy
      BY <3>1 DEF ConfigGoesLast
    <3>4. CASE e = Entries
      <4>1. \A other \in old : other = Entries
        BY <2>3, <3>1, <3>4, ProfileAssumption DEF IsNext
      <4>2. old' = {}
        BY <3>1, <3>4, <4>1
      <4>3. Default \notin retired
        BY <3>3 DEF ConfigGoesLast
      <4>4. RetiredForGood'
        BY <2>3, <3>1, <3>2, <3>4, <4>3 DEF RetiredForGood
      <4>5. ConfigGoesLast'
        BY <3>2, <4>2 DEF ConfigGoesLast, Legacy
      <4> QED
        BY <4>4, <4>5
    <3>5. CASE e # Entries
      <4>1. Legacy'
        BY <3>1, <3>3, <3>5 DEF Legacy
      <4>2. ConfigGoesLast'
        BY <3>1, <3>2, <3>3, <3>5, <4>1 DEF ConfigGoesLast
      <4>3. RetiredForGood'
        BY <3>1, <3>2, <3>5 DEF RetiredForGood
      <4> QED
        BY <4>2, <4>3
    <3> QED
      BY <3>4, <3>5
  <2>6. CASE WriteConfig(p)
    <3>1. /\ proc[p].at = "write"
          /\ config' = [config EXCEPT ![proc[p].profile] = proc[p].mount]
          /\ UNCHANGED <<old, retired>>
      BY <2>6 DEF WriteConfig
    <3>2. ~Legacy /\ proc[p].profile \in Profiles /\ proc[p].profile \notin retired
      BY <2>2, <3>1 DEF ConfigGoesLast, RetiredForGood
    <3>3. ConfigGoesLast'
      BY <2>1, <3>1, <3>2 DEF ConfigGoesLast, Legacy, LooksFirst
    <3>4. \A i \in Profiles : config'[i] # None => i \notin retired'
      BY <2>3, <3>1, <3>2 DEF RetiredForGood
    <3>5. RetiredForGood'
      BY <2>1, <2>2, <3>1, <3>4 DEF RetiredForGood, LooksFirst
    <3> QED
      BY <3>3, <3>5
  <2>7. CASE Retire(p)
    <3>1. /\ proc[p].at = "mounts"
          /\ config' = [config EXCEPT ![proc[p].profile] = None]
          /\ retired' = retired \cup {proc[p].profile}
          /\ UNCHANGED old
      BY <2>7 DEF Retire, Claimed
    <3>2. ~Legacy /\ proc[p].profile \in Profiles
      BY <2>2, <3>1 DEF ConfigGoesLast
    <3>3. ConfigGoesLast'
      BY <2>1, <3>1, <3>2 DEF ConfigGoesLast, Legacy, LooksFirst
    <3>4. \A i \in Profiles : config'[i] # None => i \notin retired'
      BY <2>3, <3>1, <3>2 DEF RetiredForGood
    <3>5. ASSUME NEW q \in Processes, proc'[q].at \in {"move", "write"}
          PROVE  proc'[q].profile \notin retired'
      <4>1. q # p
        BY <2>1, <3>1, <3>5 DEF LooksFirst
      <4>2. proc[q].profile # proc[p].profile
        BY <2>1, <3>1, <3>5, <4>1, OneClaimEach DEF Claims
      <4> QED
        BY <2>1, <3>1, <3>5, <4>1, <4>2 DEF RetiredForGood
    <3> QED
      BY <3>3, <3>4, <3>5 DEF RetiredForGood
  <2> QED
    BY <1>1, <2>4, <2>5, <2>6, <2>7, FilesChange
<1>2. CASE UNCHANGED <<old, config, retired, proc>>
  BY <1>2 DEF ConfigGoesLast, RetiredForGood, Legacy
<1> QED
  BY <1>1, <1>2, StepsOfProcesses

-----------------------------------------------------------------------------
(* The theorems.                                                           *)

LEMMA InitEstablishes == Init => ProfileInvariant
<1> SUFFICES ASSUME Init PROVE ProfileInvariant
  OBVIOUS
<1>1. \A p \in Processes : proc[p] = Away
  BY DEF Init
<1>2. Away \in Process
  BY DEF Away, Process, Places
<1>3. old = {} \/ (Legacy /\ old \subseteq 1..Entries)
  BY ProfileAssumption DEF Init, Legacy
<1>4. TypeOK
  BY <1>2, <1>3, ProfileAssumption DEF Init, TypeOK
<1>5. LocksApart
  BY <1>1 DEF LocksApart, Away
<1>6. ClaimsHeld /\ PurposeKept
  BY <1>1 DEF ClaimsHeld, ClaimHeld, PurposeKept, PurposeOf, Claims, Away
<1>7. ConfigGoesLast
  BY <1>1, <1>3 DEF ConfigGoesLast, Init, Away
<1>8. RetiredForGood
  BY <1>1 DEF RetiredForGood, Init, Away
<1> QED
  BY <1>4, <1>5, <1>6, <1>7, <1>8 DEF ProfileInvariant

LEMMA StepPreserves == ProfileInvariant /\ [Next]_vars => ProfileInvariant'
<1> SUFFICES ASSUME ProfileInvariant, [Next]_vars PROVE ProfileInvariant'
  OBVIOUS
<1>1. TypeOK'
  BY TypeStep DEF ProfileInvariant
<1>2. LocksApart'
  BY LocksStep DEF ProfileInvariant
<1>3. ClaimsHeld' /\ PurposeKept'
  BY ClaimsStep DEF ProfileInvariant
<1>4. ConfigGoesLast' /\ RetiredForGood'
  BY FilesStep
<1> QED
  BY <1>1, <1>2, <1>3, <1>4 DEF ProfileInvariant

(* Every behaviour of the profiles keeps the invariant.                      *)
THEOREM ProfileInvariantHolds == Spec => []ProfileInvariant
  BY InitEstablishes, StepPreserves, PTL DEF Spec

(* The types of the files, the locks and the processes (profiles.py).        *)
THEOREM ProfileTypes == Spec => []TypeOK
<1>1. ProfileInvariant => TypeOK
  BY DEF ProfileInvariant
<1> QED
  BY <1>1, ProfileInvariantHolds, PTL

(* The mounts of two services that serve are apart: whoever serves holds the *)
(* locks of its path and of all above it (_acquire_mount_locks).             *)
THEOREM ServicesRunApart == Spec => []RunningApart
<1>1. ProfileInvariant => RunningApart
  <2> SUFFICES ASSUME ProfileInvariant, NEW p \in Processes, NEW q \in Processes, p # q,
                      Serving(p), Serving(q), Overlap(proc[p].path, proc[q].path)
               PROVE  FALSE
    BY DEF RunningApart
  <2> DEFINE a == proc[p].path
             b == proc[q].path
  <2>1. a \in Paths /\ b \in Paths
    BY DEF ProfileInvariant, ClaimsHeld, ClaimHeld, Serving
  <2>2. ASSUME NEW r \in Processes, Serving(r)
        PROVE  /\ Leaf(proc[r].path) \in proc[r].held
               /\ \A k \in DOMAIN Above[proc[r].path] :
                    Ancestor(Above[proc[r].path][k]) \in proc[r].held
    <3>1. proc[r].path \in Paths
      BY <2>2 DEF ProfileInvariant, ClaimsHeld, ClaimHeld, Serving
    <3>2. \A k \in DOMAIN MountLocks(proc[r].path) :
            MountLocks(proc[r].path)[k] \in proc[r].held
      BY <2>2 DEF ProfileInvariant, ClaimsHeld, ClaimHeld, Serving
    <3> QED
      BY <3>1, <3>2, MountLocksAreLocks
  <2>3. ASSUME NEW r \in Processes, NEW s \in Processes, r # s, NEW path,
               Leaf(path) \in proc[r].held
        PROVE  Leaf(path) \notin proc[s].held /\ Ancestor(path) \notin proc[s].held
    BY <2>3 DEF ProfileInvariant, LocksApart, Leaf, Ancestor
  <2>4. CASE a = b
    BY <2>2, <2>3, <2>4
  <2>5. CASE \E k \in DOMAIN Above[a] : Above[a][k] = b
    BY <2>2, <2>3, <2>5
  <2>6. CASE \E k \in DOMAIN Above[b] : Above[b][k] = a
    BY <2>2, <2>3, <2>6
  <2> QED
    BY <2>4, <2>5, <2>6 DEF Overlap
<1> QED
  BY <1>1, ProfileInvariantHolds, PTL

(* A service runs on the whole of the old installation                       *)
(* (_migrate_default_locked, whose last rename is the config's).             *)
THEOREM MigrationIsWhole == Spec => []MigratedWhole
<1>1. ProfileInvariant => MigratedWhole
  BY DEF ProfileInvariant, ConfigGoesLast, MigratedWhole, Serving
<1> QED
  BY <1>1, ProfileInvariantHolds, PTL

(* A config changes only while nobody serves its profile, and never again    *)
(* once the profile is retired (manage_profile, retire_profile).             *)
THEOREM ConfigsAreExclusive == Spec => ConfigIsExclusive
<1> DEFINE Exclusive ==
      \A i \in Profiles : config'[i] # config[i] =>
        /\ i \notin retired
        /\ \A p \in Processes :
             ~(proc[p].profile = i /\ proc[p].kind = "serve"
               /\ proc[p].at \in {"mounts", "serving"})
<1>1. ProfileInvariant /\ [Next]_vars => [Exclusive]_vars
  <2> SUFFICES ASSUME ProfileInvariant, [Next]_vars,
                      NEW i \in Profiles, config'[i] # config[i]
               PROVE  /\ i \notin retired
                      /\ \A q \in Processes :
                           ~(proc[q].profile = i /\ proc[q].kind = "serve"
                             /\ proc[q].at \in {"mounts", "serving"})
    OBVIOUS
  <2>1. PICK p \in Processes : MoveEntry(p) \/ WriteConfig(p) \/ Retire(p)
    BY StepsOfProcesses, FilesChange
  <2>2. config \in [Profiles -> Mounts \cup {None}]
    BY DEF ProfileInvariant, TypeOK
  <2>3. ASSUME proc[p].at \in Claims, proc[p].profile = i,
               proc[p].kind = "serve" => proc[p].at \notin {"mounts", "serving"},
               NEW q \in Processes
        PROVE  ~(proc[q].profile = i /\ proc[q].kind = "serve"
                 /\ proc[q].at \in {"mounts", "serving"})
    BY <2>3, OneClaimEach DEF ProfileInvariant, Claims
  <2>4. CASE MoveEntry(p)
    <3>1. proc[p].at = "move" /\ i = Default
      BY <2>2, <2>4 DEF MoveEntry
    <3>2. proc[p].profile = i
      BY <3>1 DEF ProfileInvariant, PurposeKept, PurposeOf
    <3>3. i \notin retired
      BY <3>1, <3>2 DEF ProfileInvariant, RetiredForGood
    <3> QED
      BY <2>3, <3>1, <3>2, <3>3 DEF Claims
  <2>5. CASE WriteConfig(p)
    <3>1. proc[p].at = "write" /\ i = proc[p].profile
      BY <2>2, <2>5 DEF WriteConfig
    <3>2. i \notin retired
      BY <3>1 DEF ProfileInvariant, RetiredForGood
    <3> QED
      BY <2>3, <3>1, <3>2 DEF Claims
  <2>6. CASE Retire(p)
    <3>1. proc[p].at = "mounts" /\ proc[p].kind = "retire" /\ i = proc[p].profile
      BY <2>2, <2>6 DEF Retire, Claimed
    <3>2. config[i] # None
      BY <2>2, <2>6, <3>1 DEF Retire
    <3>3. i \notin retired
      BY <3>2 DEF ProfileInvariant, RetiredForGood
    <3> QED
      BY <2>3, <3>1, <3>3 DEF Claims
  <2> QED
    BY <2>1, <2>4, <2>5, <2>6
<1> QED
  BY <1>1, ProfileInvariantHolds, PTL DEF Spec, ConfigIsExclusive
=============================================================================
