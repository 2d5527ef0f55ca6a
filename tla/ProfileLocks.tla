---------------------------- MODULE ProfileLocks ----------------------------
(***************************************************************************)
(* The life of the profiles (profiles.py, and configure, retire-profile    *)
(* and mount of cli.py): processes that serve a profile, save its settings *)
(* or retire it, and the locks that keep them apart.  Nobody waits for a   *)
(* lock: whoever finds one taken gives up and releases its own.  A process *)
(* may die anywhere; its locks go with it, and what it has moved stays.    *)
(*                                                                         *)
(* An installation from before there were profiles is moved entry by entry *)
(* to the profile Default by the first process that finds its config.      *)
(*                                                                         *)
(* A config names a mount, which resolves to a path through links the user *)
(* may change.  Files are one step each: what is written to a temporary    *)
(* name, flushed and renamed is one rename.                                *)
(***************************************************************************)
EXTENDS Naturals, Sequences, FiniteSets

CONSTANTS
  Processes,
  Profiles,
  Default,      \* the profile that takes over the old installation
  Mounts,       \* the mount paths as users write them
  Paths,        \* the paths they resolve to
  Above,        \* Above[p]: the proper ancestors of a path, root first
  Target0,      \* what the mounts resolve to at first
  LegacyMount,  \* the mount in the old config
  Entries,      \* how many entries are moved, the config being the last
  None,
  MaxRuns,      \* bound: processes started
  MaxTrouble    \* bound: processes killed, links changed

ASSUME ProfileAssumption ==
  /\ Default \in Profiles /\ LegacyMount \in Mounts
  /\ None \notin Profiles \cup Mounts \cup Paths
  /\ Above \in [Paths -> Seq(Paths)] /\ Target0 \in [Mounts -> Paths]
  /\ Entries \in Nat \ {0}
  /\ MaxRuns \in Nat /\ MaxTrouble \in Nat

VARIABLES
  old,       \* the entries of the old installation that are where they were
  config,    \* config.json of each profile: the mount it names, or None
  retired,   \* the profiles with config.retired.json
  local,     \* the profiles with state, data or cache directories
  target,    \* what each mount resolves to
  mounted,   \* the paths something is mounted on
  proc,      \* where each process is and which locks it has
  runs, trouble

files == <<old, config, retired, local>>
world == <<target, mounted>>
vars == <<files, world, proc, runs, trouble>>

Kinds == {"serve", "save", "retire"}
Away == [at |-> "away", kind |-> "none", profile |-> None, mount |-> None,
         path |-> None, held |-> {}]

-----------------------------------------------------------------------------
(* The locks: profiles.lock, service.lock of a profile, and one for every  *)
(* path, shared by those who mount below it.                               *)

Global == [on |-> <<"global">>, shared |-> FALSE]
Service(i) == [on |-> <<"service", i>>, shared |-> FALSE]
Leaf(p) == [on |-> <<"mount", p>>, shared |-> FALSE]
Ancestor(p) == [on |-> <<"mount", p>>, shared |-> TRUE]

\* flock with LOCK_NB would succeed.
Free(p, lock) ==
  \A q \in Processes \ {p} : \A other \in proc[q].held :
    other.on = lock.on => other.shared /\ lock.shared

(* Mutation: only the path itself is locked. *)
LeafLock(path) == <<Leaf(path)>>

\* The locks of a mount path, from the root to the path itself.
MountLocks(path) ==
  Append([k \in DOMAIN Above[path] |-> Ancestor(Above[path][k])], Leaf(path))

\* The places in it of those a process has not taken yet.
Missing(p) ==
  LET locks == MountLocks(proc[p].path)
  IN {k \in DOMAIN locks : locks[k] \notin proc[p].held}

Overlap(a, b) ==
  \/ a = b
  \/ \E k \in DOMAIN Above[a] : Above[a][k] = b
  \/ \E k \in DOMAIN Above[b] : Above[b][k] = a

-----------------------------------------------------------------------------
(* The old installation.                                                   *)

Legacy == Entries \in old

-----------------------------------------------------------------------------
Init ==
  /\ old \in SUBSET (1..Entries) /\ (old # {} => Legacy)
  /\ config = [i \in Profiles |-> None]
  /\ retired = {} /\ local = {}
  /\ target = Target0
  /\ mounted \in {{}, IF old = {} THEN {} ELSE {Target0[LegacyMount]}}
  /\ proc = [p \in Processes |-> Away]
  /\ runs = 0 /\ trouble = 0

-----------------------------------------------------------------------------
(* The steps of a process.                                                 *)

Goto(p, at) == proc' = [proc EXCEPT ![p].at = at]
\* It ends, and its locks go.
End(p) == proc' = [proc EXCEPT ![p] = Away]
Refuse(p) == End(p) /\ UNCHANGED <<files, world, runs, trouble>>

\* A process is started.  No profile but Default can be selected while the
\* old config is there.
Run(p, kind, i, m) ==
  /\ proc[p].at = "away" /\ runs < MaxRuns
  /\ Legacy => i = Default
  /\ (m # None) <=> (kind = "save")
  /\ proc' = [proc EXCEPT ![p] =
       [Away EXCEPT !.at = "global", !.kind = kind, !.profile = i, !.mount = m]]
  /\ runs' = runs + 1
  /\ UNCHANGED <<files, world, trouble>>

TakeGlobal(p) ==
  /\ proc[p].at = "global"
  /\ IF Free(p, Global)
     THEN proc' = [proc EXCEPT ![p].at = "service", ![p].held = {Global}]
     ELSE End(p)
  /\ UNCHANGED <<files, world, runs, trouble>>

TakeService(p) ==
  /\ proc[p].at = "service" /\ Free(p, Service(proc[p].profile))
  /\ proc' = [proc EXCEPT ![p].at = "claimed",
                          ![p].held = @ \cup {Service(proc[p].profile)}]
  /\ UNCHANGED <<files, world, runs, trouble>>

AlreadyClaimed(p) ==
  /\ proc[p].at = "service" /\ ~Free(p, Service(proc[p].profile))
  /\ Refuse(p)

At(p, kind) == proc[p].at = "claimed" /\ proc[p].kind = kind /\ ~Legacy

MustMigrateFirst(p) ==
  /\ proc[p].at = "claimed" /\ Legacy
  /\ proc[p].kind = "retire" \/ proc[p].profile # Default
  /\ Refuse(p)

\* _migrate_default_locked: nothing of another profile, nothing mounted, no
\* entry both here and there, then one rename after the other.
CheckMigration(p) ==
  /\ proc[p].at = "claimed" /\ Legacy
  /\ proc[p].kind # "retire" /\ proc[p].profile = Default
  /\ IF /\ config[Default] = None /\ target[LegacyMount] \notin mounted
        /\ \A i \in Profiles \ {Default} :
             config[i] = None /\ i \notin retired \cup local
     THEN Goto(p, "move") /\ UNCHANGED <<files, world, runs, trouble>>
     ELSE Refuse(p)

(* Mutation: the config is moved first. *)
IsLast(e) == \A other \in old : e >= other

IsNext(e) == \A other \in old : e <= other

MoveEntry(p) ==
  /\ proc[p].at = "move"
  /\ \E e \in old :
       /\ IsNext(e)
       /\ old' = old \ {e}
       /\ IF e = Entries
          THEN config' = [config EXCEPT ![Default] = LegacyMount] /\ UNCHANGED local
          ELSE local' = local \cup {Default} /\ UNCHANGED config
  /\ UNCHANGED <<retired, world, proc, runs, trouble>>

Migrated(p) ==
  /\ proc[p].at = "move" /\ old = {}
  /\ Goto(p, "claimed")
  /\ UNCHANGED <<files, world, runs, trouble>>

-----------------------------------------------------------------------------
(* Saving: manage_profile and what its callers do in it.                   *)

\* The mounts of the profiles that have a config are apart.
Apart(i, m) ==
  \A other \in Profiles \ {i} :
    config[other] # None => ~Overlap(target[m], target[config[other]])

(* Mutation: what is left of a retired profile is not looked at. *)
ScaffoldAnywhere(i) == config[i] # None \/ i \notin local

\* A profile without a config may be made where nothing is left of one.
Scaffold(i) == config[i] # None \/ i \notin retired \cup local

Validate(p) ==
  /\ At(p, "save")
  /\ IF Apart(proc[p].profile, proc[p].mount) /\ Scaffold(proc[p].profile)
     THEN Goto(p, "write") /\ UNCHANGED <<files, world, runs, trouble>>
     ELSE Refuse(p)

WriteConfig(p) ==
  /\ proc[p].at = "write"
  /\ config' = [config EXCEPT ![proc[p].profile] = proc[p].mount]
  /\ Goto(p, "keys")
  /\ UNCHANGED <<old, retired, local, world, runs, trouble>>

WriteKeys(p) ==
  /\ proc[p].at = "keys"
  /\ End(p)
  /\ UNCHANGED <<files, world, runs, trouble>>

-----------------------------------------------------------------------------
(* The mount path of a profile is claimed, to serve it or to retire it.    *)

(* Mutation: the mount is taken as it is written. *)
LoadUnresolved(p) ==
  /\ At(p, "serve") \/ At(p, "retire")
  /\ LET i == proc[p].profile IN
     IF config[i] # None /\ (proc[p].kind = "retire" => i \notin retired)
     THEN /\ proc' = [proc EXCEPT
               ![p].at = "mounts", ![p].path = config[i],
               ![p].held = IF proc[p].kind = "serve" THEN @ \ {Global} ELSE @]
          /\ UNCHANGED <<files, world, runs, trouble>>
     ELSE Refuse(p)

\* claim_service lets go of the global lock and reads the config.
Load(p) ==
  /\ At(p, "serve") \/ At(p, "retire")
  /\ LET i == proc[p].profile IN
     IF config[i] # None /\ (proc[p].kind = "retire" => i \notin retired)
     THEN /\ proc' = [proc EXCEPT
               ![p].at = "mounts", ![p].path = target[config[i]],
               ![p].held = IF proc[p].kind = "serve" THEN @ \ {Global} ELSE @]
          /\ UNCHANGED <<files, world, runs, trouble>>
     ELSE Refuse(p)

TakeMount(p) ==
  /\ proc[p].at = "mounts"
  /\ \E k \in Missing(p) :
       /\ \A other \in Missing(p) : k <= other
       /\ LET lock == MountLocks(proc[p].path)[k] IN
          IF Free(p, lock)
          THEN /\ proc' = [proc EXCEPT ![p].held = @ \cup {lock}]
               /\ UNCHANGED <<files, world, runs, trouble>>
          ELSE Refuse(p)

\* The links have not been changed since, and nothing is mounted there.
Claimed(p) == proc[p].at = "mounts" /\ Missing(p) = {}
MayMount(p) ==
  /\ target[config[proc[p].profile]] = proc[p].path
  /\ proc[p].path \notin mounted

Mount(p) ==
  /\ Claimed(p) /\ proc[p].kind = "serve" /\ MayMount(p)
  /\ local' = local \cup {proc[p].profile}
  /\ mounted' = mounted \cup {proc[p].path}
  /\ Goto(p, "serving")
  /\ UNCHANGED <<old, config, retired, target, runs, trouble>>

\* The config is renamed and keeps the name of the profile taken.
Retire(p) ==
  /\ Claimed(p) /\ proc[p].kind = "retire" /\ MayMount(p)
  /\ config' = [config EXCEPT ![proc[p].profile] = None]
  /\ retired' = retired \cup {proc[p].profile}
  /\ End(p)
  /\ UNCHANGED <<old, local, world, runs, trouble>>

MountChanged(p) == Claimed(p) /\ ~MayMount(p) /\ Refuse(p)

\* A service stops: it unmounts and lets go of its locks.
Stop(p) ==
  /\ proc[p].at = "serving"
  /\ mounted' = mounted \ {proc[p].path}
  /\ End(p)
  /\ UNCHANGED <<files, target, runs, trouble>>

-----------------------------------------------------------------------------
(* What nobody can prevent.                                                *)

\* A process is killed.  What it had mounted stays until it is unmounted.
Kill(p) ==
  /\ proc[p].at # "away" /\ trouble < MaxTrouble
  /\ trouble' = trouble + 1
  /\ End(p)
  /\ UNCHANGED <<files, world, runs>>

Serving(p) == proc[p].at = "serving"

Unmount(path) ==
  /\ path \in mounted /\ \A p \in Processes : ~(Serving(p) /\ proc[p].path = path)
  /\ mounted' = mounted \ {path}
  /\ UNCHANGED <<files, target, proc, runs, trouble>>

\* The user changes a link on the way to a mount.
MoveLink(m, path) ==
  /\ trouble < MaxTrouble /\ target[m] # path
  /\ trouble' = trouble + 1
  /\ target' = [target EXCEPT ![m] = path]
  /\ UNCHANGED <<files, mounted, proc, runs>>

-----------------------------------------------------------------------------
Step(p) ==
  \/ \E kind \in Kinds, i \in Profiles, m \in Mounts \cup {None} : Run(p, kind, i, m)
  \/ TakeGlobal(p) \/ TakeService(p) \/ AlreadyClaimed(p) \/ MustMigrateFirst(p)
  \/ CheckMigration(p) \/ MoveEntry(p) \/ Migrated(p)
  \/ Validate(p) \/ WriteConfig(p) \/ WriteKeys(p)
  \/ Load(p) \/ TakeMount(p) \/ Mount(p) \/ Retire(p) \/ MountChanged(p)
  \/ Stop(p) \/ Kill(p)

Next ==
  \/ \E p \in Processes : Step(p)
  \/ \E path \in Paths : Unmount(path)
  \/ \E m \in Mounts, path \in Paths : MoveLink(m, path)

Spec == Init /\ [][Next]_vars

-----------------------------------------------------------------------------
Locks ==
  {Global} \cup {Service(i) : i \in Profiles}
    \cup {Leaf(path) : path \in Paths} \cup {Ancestor(path) : path \in Paths}

Places == {"away", "global", "service", "claimed", "move", "write", "keys",
           "mounts", "serving"}

Process ==
  [at : Places, kind : Kinds \cup {"none"}, profile : Profiles \cup {None},
   mount : Mounts \cup {None}, path : Paths \cup {None}, held : SUBSET Locks]

TypeOK ==
  /\ old \subseteq 1..Entries
  /\ config \in [Profiles -> Mounts \cup {None}]
  /\ retired \subseteq Profiles /\ local \subseteq Profiles
  /\ target \in [Mounts -> Paths] /\ mounted \subseteq Paths
  /\ proc \in [Processes -> Process]
  /\ runs \in 0..MaxRuns /\ trouble \in 0..MaxTrouble

\* Two services that serve at a time have mounts apart, neither one below the
\* other, whatever links have changed since their configs were compared
\* (_acquire_mount_locks).
RunningApart ==
  \A p, q \in Processes :
    p # q /\ Serving(p) /\ Serving(q) => ~Overlap(proc[p].path, proc[q].path)

\* A service of Default runs on the whole of the old installation: none of it
\* is left behind by a migration that was cut short (_migrate_default_locked),
\* nor does another profile live beside it.
MigratedWhole == \A p \in Processes : Serving(p) => old = {}

\* A config is written or retired only while nobody serves the profile or is
\* about to, and a retired profile never has a config again (manage_profile,
\* retire_profile, _prepare_config_scaffold).
ConfigIsExclusive ==
  [][\A i \in Profiles : config'[i] # config[i] =>
       /\ i \notin retired
       /\ \A p \in Processes :
            ~(proc[p].profile = i /\ proc[p].kind = "serve"
              /\ proc[p].at \in {"mounts", "serving"})]_vars
=============================================================================
