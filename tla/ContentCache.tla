---------------------------- MODULE ContentCache ----------------------------
(***************************************************************************)
(* The cache of complete originals (content_cache.py), with those who use  *)
(* it: open files of the mount, which hold an asset from open to release   *)
(* and remember the catalog entry they were opened with; the pin worker    *)
(* and the upload worker, which hydrate without holding it; and eviction.  *)
(*                                                                         *)
(* The tasks are coroutines of one thread: a step here is what runs        *)
(* between two awaits, and in between any other task may run.  Awaits are  *)
(* the wait for somebody else's hydration, the hashing of a cached file in *)
(* a thread, every chunk of a download, and the opening of the file to     *)
(* read it.                                                                *)
(*                                                                         *)
(* A version stands for the size, the checksum and the timestamp the       *)
(* catalog gives an asset at one time, and for the bytes that belong to    *)
(* it.  Access times are not kept: files are evicted in any order.         *)
(***************************************************************************)
EXTENDS Naturals, FiniteSets, Functions

CONSTANTS
  Assets,
  Managed,      \* the assets with a checksum; the rest is in external libraries
  Versions,
  FirstVersion, \* the version of every asset at first
  SizeOf,       \* SizeOf[a][v], in chunks
  Readers,      \* open files of the mount
  PinWorker,
  UploadWorker,
  MaxBytes,     \* the cache's size limit
  Floor,        \* the free space it must leave
  Disk,         \* the size of the file system
  None,         \* no asset, no version, no file
  Damaged,      \* bytes that belong to no version
  MaxTrouble    \* bound: replacements, changes on the server, damage, foreign
                \* files, restarts

Fetchers == {PinWorker, UploadWorker}
Tasks == Readers \cup Fetchers

File == [bytes: Versions \cup {Damaged}, label: Versions]

ASSUME CacheAssumption ==
  /\ IsFiniteSet(Assets) /\ IsFiniteSet(Readers)
  /\ Managed \subseteq Assets
  /\ FirstVersion \in Versions /\ None \notin Versions \cup Assets \cup File
  /\ Damaged \notin Versions
  /\ SizeOf \in [Assets -> [Versions -> Nat \ {0}]]
  /\ Readers \cap Fetchers = {}
  /\ {MaxBytes, Floor, Disk, MaxTrouble} \subseteq Nat /\ Floor <= Disk

VARIABLES
  server,      \* the version of each original on the server
  catalog,     \* the version the catalog knows
  cached,      \* the complete file of each asset
  validated,   \* the version each file is known to be, by its stat
  pending,     \* _pending_discards
  task,        \* where each task is
  moved,       \* tasks hashing a file that has changed under them
  pinned,      \* the pins, in the catalog and in the cache
  pinQueue,    \* pin_pending: the entry the pin worker is to hydrate
  downloads,   \* _downloads_enabled
  foreign,     \* chunks of the disk taken by other programs
  exempt,      \* history: assets last admitted as pinned
  late,        \* history: assets with a file that a hydration begun offline could
               \* not use, and downloads over, as it ended its hash online
  trouble      \* what the environment did so far, bounded by MaxTrouble

state == <<cached, validated, pending, task, moved>>
history == <<exempt, late>>
outside == <<server, catalog, foreign>>
vars == <<state, outside, pinned, pinQueue, downloads, history, trouble>>

Following == {"follow", "wokenOk", "wokenBusy", "rehashOk", "rehashBusy"}
Hashing == {"hash", "hashOffline", "rehashOk", "rehashBusy"}
Leading == {"hash", "hashOffline", "download"}

NoTask == [pc |-> "idle", asset |-> None, ver |-> None, got |-> 0, from |-> None]
Closed == [NoTask EXCEPT !.pc = "closed"]
At(pc, a, v) == [NoTask EXCEPT !.pc = pc, !.asset = a, !.ver = v]

Trouble == trouble < MaxTrouble /\ trouble' = trouble + 1

Init ==
  /\ server = [a \in Assets |-> FirstVersion] /\ catalog = server
  /\ cached = [a \in Assets |-> None]
  /\ validated = [a \in Assets |-> None]
  /\ pending = {} /\ moved = {}
  /\ task = [t \in Tasks |-> IF t \in Readers THEN Closed ELSE NoTask]
  /\ pinned = {} /\ pinQueue = [a \in Assets |-> None]
  /\ downloads \in BOOLEAN
  /\ foreign = 0 /\ exempt = {} /\ late = {} /\ trouble = 0

-----------------------------------------------------------------------------
(* What is on the disk, and who is busy with it. *)

Present(a) == cached[a] # None
Holders(a) == {r \in Readers : task[r].asset = a}
IsOpen(a) == Holders(a) # {}
Leaders(a) == {t \in Tasks : task[t].pc \in Leading /\ task[t].asset = a}
Busy(a) == IsOpen(a) \/ Leaders(a) # {}

FileSizes(files) ==
  [a \in Assets |-> IF files[a] = None THEN 0 ELSE SizeOf[a][files[a].label]]
Total(files) == SumFunctionOnSet(FileSizes(files), Assets)

Downloading == {t \in Tasks : task[t].pc = "download"}
Reservation(t) == SizeOf[task[t].asset][task[t].ver]
Reservations == [t \in Downloading |-> Reservation(t)]
Reserved == SumFunctionOnSet(Reservations, Downloading)
Remaining ==
  SumFunctionOnSet([t \in Downloading |-> Reservation(t) - task[t].got], Downloading)
Written == SumFunctionOnSet([t \in Downloading |-> task[t].got], Downloading)

Taken(files) == foreign + Written + Total(files)
Without(files, S) == [a \in Assets |-> IF a \in S THEN None ELSE files[a]]

(* Mutation: a pin does not protect a file. *)
EvictableUnlessBusy(files, pins) ==
  {a \in Assets : files[a] # None /\ ~Busy(a)}

Evictable(files, pins) ==
  {a \in Assets : files[a] # None /\ a \notin pins /\ ~Busy(a)}

(* Mutation: only the files that are complete count against the limits. *)
FitsUnreserved(files, pins, a, v) ==
  /\ a \in pins \/ Total(files) + SizeOf[a][v] <= MaxBytes
  /\ Disk >= Taken(files) + SizeOf[a][v] + Floor

Fits(files, pins, a, v) ==
  /\ a \in pins \/ Total(files) + Reserved + SizeOf[a][v] <= MaxBytes
  /\ Disk >= Taken(files) + Remaining + SizeOf[a][v] + Floor

(* What _reserve may evict: one file after the other, in any order, until the *)
(* new one fits.                                                              *)
Rooms(files, pins, a, v) ==
  {S \in SUBSET (Evictable(files, pins) \ {a}) :
     /\ Fits(Without(files, S), pins, a, v)
     /\ S = {} \/ \E x \in S : ~Fits(Without(files, S \ {x}), pins, a, v)}

(* _cached_path, as far as it gets without hashing. *)
Mismatch(a, v) ==
  /\ Present(a)
  /\ \/ SizeOf[a][cached[a].label] # SizeOf[a][v]
     \/ a \notin Managed /\ cached[a].label # v
NeedsHash(a, v) ==
  Present(a) /\ ~Mismatch(a, v) /\ a \in Managed /\ validated[a] # v
Hit(a, v) == Present(a) /\ ~Mismatch(a, v) /\ ~NeedsHash(a, v)

(* Stats change with the file, and a touch also changes them: what is known   *)
(* of a file, and a hash in progress, hold only as long as its stat does.      *)
Touching(touched) ==
  /\ validated' = [a \in Assets |->
       IF \E v \in Versions : <<a, v>> \in touched
         THEN CHOOSE v \in Versions : <<a, v>> \in touched
         ELSE IF cached'[a] = cached[a] THEN validated[a] ELSE None]
  /\ moved' = {t \in Tasks :
       /\ task'[t].pc \in Hashing
       /\ \/ t \in moved
          \/ /\ task[t].pc \in Hashing
             /\ LET a == task[t].asset IN
                  \/ cached'[a] # cached[a]
                  \/ \E v \in Versions : <<a, v>> \in touched}

Untouched == Touching({})
Keeping == UNCHANGED <<outside, downloads, late, trouble>>

-----------------------------------------------------------------------------
(* How a hydration goes and ends.  k is the record of the task t in it.       *)

Ended(t, k) == IF t \in Readers THEN At("open", k.asset, k.ver) ELSE NoTask
Served(t, k) == IF t \in Readers THEN At("opening", k.asset, k.ver) ELSE NoTask

Step(t, k) == task' = [task EXCEPT ![t] = k]

(* Mutation: those who wait for a hydration that was refused are forgotten. *)
FinishUnlessBusy(t, k, outcome) ==
  task' = [u \in Tasks |->
    IF u = t THEN k
    ELSE IF /\ task[u].pc = "follow" /\ task[u].asset = task[t].asset
            /\ outcome # "wokenBusy"
      THEN IF outcome = "error" THEN Ended(u, task[u])
           ELSE [task[u] EXCEPT !.pc = outcome]
    ELSE task[u]]

(* The event is set, and those who wait for it see how it went. *)
Finish(t, k, outcome) ==
  task' = [u \in Tasks |->
    IF u = t THEN k
    ELSE IF task[u].pc = "follow" /\ task[u].asset = task[t].asset
      THEN IF outcome = "error" THEN Ended(u, task[u])
           ELSE [task[u] EXCEPT !.pc = outcome]
    ELSE task[u]]

(* The file had to go and nobody held it, or there was none: files is what is *)
(* left.  The hydration downloads the original, if it may and there is room.  *)
Unlinked(k, files) ==
  pending' = IF files = cached THEN pending ELSE pending \ {k.asset}

Admit(t, k, files) ==
  /\ downloads
  /\ \E S \in Rooms(files, pinned', k.asset, k.ver) : cached' = Without(files, S)
  /\ Step(t, At("download", k.asset, k.ver))
  /\ exempt' = IF k.asset \in pinned' THEN exempt \cup {k.asset}
                                     ELSE exempt \ {k.asset}
  /\ Unlinked(k, files) /\ Untouched

NotAdmitted(t, k, files) ==
  /\ ~downloads \/ Rooms(files, pinned', k.asset, k.ver) = {}
  /\ cached' = files
  /\ Finish(t, Ended(t, k), "error")
  /\ Unlinked(k, files) /\ Untouched /\ UNCHANGED exempt

Miss(t, k, files) == Admit(t, k, files) \/ NotAdmitted(t, k, files)

(* The file is the right one: it is touched and served. *)
LeaderServes(t, k) ==
  /\ Finish(t, Served(t, k), "wokenOk")
  /\ UNCHANGED <<cached, pending, exempt>>
  /\ Touching({<<k.asset, k.ver>>})

(* It is not.  _discard leaves a file that somebody holds to the last release. *)
LeaderDiscards(t, k) ==
  IF IsOpen(k.asset)
    THEN /\ pending' = pending \cup {k.asset}
         /\ Finish(t, Ended(t, k), "wokenBusy")
         /\ UNCHANGED <<cached, exempt>> /\ Untouched
    ELSE Miss(t, k, Without(cached, {k.asset}))

FollowerDiscards(t, k) ==
  IF IsOpen(k.asset)
    THEN /\ pending' = pending \cup {k.asset}
         /\ Step(t, Ended(t, k))
         /\ UNCHANGED <<cached, exempt>> /\ Untouched
    ELSE LET files == Without(cached, {k.asset}) IN
         IF k.pc \in {"wokenBusy", "rehashBusy"} \/ Leaders(k.asset) # {}
           THEN /\ cached' = files
                /\ Step(t, IF k.pc \in {"wokenBusy", "rehashBusy"}
                             THEN Ended(t, k)
                             ELSE At("follow", k.asset, k.ver))
                /\ pending' = pending \ {k.asset}
                /\ Untouched /\ UNCHANGED exempt
           ELSE Miss(t, k, files)

StartHash(t, k, pc) ==
  /\ Step(t, [k EXCEPT !.pc = pc])
  /\ UNCHANGED <<cached, pending, exempt>> /\ Untouched

(* hydrate, called by a task that is not in it yet. *)
Hydrate(t, k) ==
  IF Leaders(k.asset) # {}
    THEN /\ Step(t, [k EXCEPT !.pc = "follow"])
         /\ UNCHANGED <<cached, pending, exempt>> /\ Untouched
    ELSE \/ ~Present(k.asset) /\ Miss(t, k, cached)
         \/ Hit(k.asset, k.ver) /\ LeaderServes(t, k)
         \/ /\ NeedsHash(k.asset, k.ver)
            /\ StartHash(t, k, IF downloads THEN "hash" ELSE "hashOffline")
         \/ /\ Mismatch(k.asset, k.ver)
            /\ IF downloads THEN LeaderDiscards(t, k) ELSE Miss(t, k, cached)

-----------------------------------------------------------------------------
(* The steps of a hydration. *)

(* Mutation: one who waited takes what the other one was served. *)
WokenTrusting(t) ==
  LET k == task[t] IN
  /\ UNCHANGED <<pinned, pinQueue>> /\ Keeping
  /\ k.pc \in {"wokenOk", "wokenBusy"}
  /\ Step(t, IF Present(k.asset) THEN Served(t, k) ELSE Ended(t, k))
  /\ UNCHANGED <<cached, pending, exempt>> /\ Untouched

(* A task that waited sees a finished hydration and looks at the file itself. *)
Woken(t) ==
  LET k == task[t] IN
  /\ UNCHANGED <<pinned, pinQueue>> /\ Keeping
  /\ k.pc \in {"wokenOk", "wokenBusy"}
  /\ \/ /\ Hit(k.asset, k.ver)
        /\ Step(t, Served(t, k))
        /\ UNCHANGED <<cached, pending, exempt>>
        /\ Touching({<<k.asset, k.ver>>})
     \/ /\ NeedsHash(k.asset, k.ver)
        /\ StartHash(t, k, IF k.pc = "wokenOk" THEN "rehashOk" ELSE "rehashBusy")
     \/ /\ Mismatch(k.asset, k.ver)
        /\ FollowerDiscards(t, k)
     \/ /\ ~Present(k.asset)
        /\ IF k.pc = "wokenOk"
             THEN Hydrate(t, k)
             ELSE /\ Step(t, Ended(t, k))
                  /\ UNCHANGED <<cached, pending, exempt>> /\ Untouched

HashedRight(t) ==
  t \notin moved /\ cached[task[t].asset].bytes = task[t].ver

HashServes(t) ==
  LET k == task[t] IN
  /\ UNCHANGED <<pinned, pinQueue>> /\ Keeping
  /\ k.pc \in Hashing /\ HashedRight(t)
  /\ IF k.pc \in Leading
       THEN LeaderServes(t, k)
       ELSE /\ Step(t, Served(t, k))
            /\ UNCHANGED <<cached, pending, exempt>>
            /\ Touching({<<k.asset, k.ver>>})

(* Other bytes, or a stat that is no longer the one from before the hash.  A  *)
(* hydration that began while downloads were disabled discards nothing; when   *)
(* they are enabled by now, it downloads over the file that is still there.   *)
HashFails(t) ==
  LET k == task[t] IN
  /\ UNCHANGED <<pinned, pinQueue, outside, downloads, trouble>>
  /\ k.pc \in Hashing /\ ~HashedRight(t)
  /\ IF k.pc = "hash" THEN LeaderDiscards(t, k)
     ELSE IF k.pc = "hashOffline" THEN Miss(t, k, cached)
     ELSE FollowerDiscards(t, k)
  /\ late' = IF k.pc = "hashOffline" /\ task'[t].pc = "download" THEN late \cup {k.asset}
                                                             ELSE late

(* The file went before the thread opened it. *)
HashMissed(t) ==
  LET k == task[t] IN
  /\ UNCHANGED <<pinned, pinQueue>> /\ Keeping
  /\ k.pc \in Hashing /\ t \in moved /\ ~Present(k.asset)
  /\ IF k.pc \in Leading THEN Miss(t, k, cached)
     ELSE IF k.pc = "rehashOk" THEN Hydrate(t, k)
     ELSE /\ Step(t, Ended(t, k))
          /\ UNCHANGED <<cached, pending, exempt>> /\ Untouched

(* The server begins to send the original it has now. *)
Answer(t) ==
  /\ task[t].pc = "download" /\ task[t].from = None
  /\ Step(t, [task[t] EXCEPT !.from = server[task[t].asset]])
  /\ UNCHANGED <<cached, pending, exempt, pinned, pinQueue>>
  /\ Untouched /\ Keeping

Sent(t) == SizeOf[task[t].asset][task[t].from]

(* Mutation: the chunk is written without another look at the disk. *)
WriteChunkBlindly(t) ==
  /\ task[t].pc = "download" /\ task[t].from # None
  /\ task[t].got < Sent(t) /\ task[t].got < Reservation(t)
  /\ Disk > Taken(cached)
  /\ Step(t, [task[t] EXCEPT !.got = @ + 1])
  /\ UNCHANGED <<cached, pending, exempt, pinned, pinQueue>>
  /\ Untouched /\ Keeping

WriteChunk(t) ==
  /\ task[t].pc = "download" /\ task[t].from # None
  /\ task[t].got < Sent(t) /\ task[t].got < Reservation(t)
  /\ Disk >= Taken(cached) + 1 + Floor
  /\ Step(t, [task[t] EXCEPT !.got = @ + 1])
  /\ UNCHANGED <<cached, pending, exempt, pinned, pinQueue>>
  /\ Untouched /\ Keeping

(* The connection fails, too many bytes come, the disk is full, the bytes are *)
(* too few, or their checksum is another one: the temporary file goes.        *)
DownloadFails(t) ==
  LET k == task[t] IN
  /\ k.pc = "download"
  /\ Finish(t, Ended(t, k), "error")
  /\ UNCHANGED <<cached, pending, exempt, pinned, pinQueue>>
  /\ Untouched /\ Keeping

Complete(t) ==
  LET k == task[t] IN
  /\ k.pc = "download" /\ k.from # None
  /\ k.got = Sent(t) /\ k.got = Reservation(t)
  /\ k.asset \in Managed => k.from = k.ver

PublishFile(t) ==
  LET k == task[t] IN
  /\ Complete(t)
  /\ cached' = [cached EXCEPT ![k.asset] = [bytes |-> k.from, label |-> k.ver]]
  /\ Finish(t, Served(t, k), "wokenOk")
  /\ Touching({<<k.asset, k.ver>>})
  /\ UNCHANGED <<pending, exempt, pinned, pinQueue>> /\ Keeping

-----------------------------------------------------------------------------
(* Open files. *)

Open(r) ==
  /\ task[r].pc = "closed"
  /\ \E a \in Assets : Step(r, At("open", a, catalog[a]))
  /\ UNCHANGED <<cached, pending, exempt, pinned, pinQueue>>
  /\ Untouched /\ Keeping

Read(r) ==
  /\ UNCHANGED <<pinned, pinQueue>> /\ Keeping
  /\ task[r].pc = "open"
  /\ Hydrate(r, task[r])

(* The file has been opened by its path, and its bytes are returned. *)
Deliver(r) ==
  /\ task[r].pc = "opening"
  /\ Step(r, At("open", task[r].asset, task[r].ver))
  /\ UNCHANGED <<cached, pending, exempt, pinned, pinQueue>>
  /\ Untouched /\ Keeping

(* Mutation: whoever closes the file first discards it. *)
CloseAndDiscard(r) ==
  LET a == task[r].asset IN
  /\ task[r].pc = "open"
  /\ Step(r, Closed)
  /\ cached' = IF a \in pending THEN Without(cached, {a}) ELSE cached
  /\ pending' = pending \ {a}
  /\ UNCHANGED <<exempt, pinned, pinQueue>>
  /\ Untouched /\ Keeping

(* Mutation: the discard that was put off is not made up for. *)
CloseOnly(r) ==
  /\ task[r].pc = "open"
  /\ Step(r, Closed)
  /\ UNCHANGED <<cached, pending, exempt, pinned, pinQueue>>
  /\ Untouched /\ Keeping

(* release: the last one makes up for the discard that was put off. *)
Close(r) ==
  LET a == task[r].asset IN
  /\ task[r].pc = "open"
  /\ Step(r, Closed)
  /\ IF Holders(a) = {r} /\ a \in pending
       THEN cached' = Without(cached, {a}) /\ pending' = pending \ {a}
       ELSE UNCHANGED <<cached, pending>>
  /\ UNCHANGED <<exempt, pinned, pinQueue>>
  /\ Untouched /\ Keeping

-----------------------------------------------------------------------------
(* Pins. *)

(* describe: judged by size and timestamp alone. *)
IsCached(a, v) == Present(a) /\ cached[a].label = v

Pin(a) ==
  /\ ~(a \in pinned /\ IsCached(a, catalog[a]))
  /\ pinned' = pinned \cup {a}
  /\ pinQueue' = [pinQueue EXCEPT ![a] = catalog[a]]
  /\ UNCHANGED <<state, exempt>> /\ Keeping

Unpin(a) ==
  /\ pinned' = pinned \ {a}
  /\ pinQueue' = [pinQueue EXCEPT ![a] = None]
  /\ UNCHANGED <<state, exempt>> /\ Keeping

(* The pin worker takes the next entry and hydrates it, if it is still pinned. *)
TakePin ==
  /\ task[PinWorker] = NoTask
  /\ UNCHANGED pinned /\ Keeping
  /\ \E a \in Assets :
       /\ pinQueue[a] # None
       /\ pinQueue' = [pinQueue EXCEPT ![a] = None]
       /\ IF a \in pinned
            THEN Hydrate(PinWorker, At("idle", a, pinQueue[a]))
            ELSE UNCHANGED <<state, exempt>>

(* The upload worker moves a pin from a replaced asset to its replacement. *)
TransferPin(a, b) ==
  /\ task[UploadWorker] = NoTask /\ downloads
  /\ a # b
  /\ Trouble
  /\ IF a \in pinned
       THEN /\ pinned' = (pinned \ {a}) \cup {b}
            /\ Hydrate(UploadWorker, At("idle", b, catalog[b]))
       ELSE /\ pinned' = pinned \ {a, b}
            /\ UNCHANGED <<state, exempt>>
  /\ UNCHANGED <<outside, downloads, late, pinQueue>>

-----------------------------------------------------------------------------
(* Eviction. *)

Evict(a) ==
  /\ a \in Evictable(cached, pinned)
  /\ cached' = Without(cached, {a})
  /\ UNCHANGED <<task, pending, exempt, pinned, pinQueue>>
  /\ Untouched /\ Keeping

(* evict_to_limits: any file may have expired, and it goes on while a limit   *)
(* is crossed.                                                                *)
Reduced(S) ==
  LET files == Without(cached, S) IN
  /\ S \subseteq Evictable(cached, pinned)
  /\ \/ S = Evictable(cached, pinned)
     \/ Total(files) <= MaxBytes /\ Disk >= Taken(files) + Floor
  /\ cached' = files

EvictToLimits ==
  /\ \E S \in SUBSET Assets : Reduced(S)
  /\ cached' # cached
  /\ UNCHANGED <<task, pending, exempt, pinned, pinQueue>>
  /\ Untouched /\ Keeping

-----------------------------------------------------------------------------
(* The service around the cache, and the world around the service. *)

(* The offline worker has refreshed the catalog: downloads are enabled, pins   *)
(* without their file are queued, and the limits are applied.                 *)
GoOnline ==
  /\ ~downloads
  /\ downloads' = TRUE
  /\ pinQueue' = [a \in Assets |->
       IF a \in pinned /\ ~IsCached(a, catalog[a]) THEN catalog[a] ELSE pinQueue[a]]
  /\ \E S \in SUBSET Assets : Reduced(S)
  /\ UNCHANGED <<task, pending, exempt, outside, pinned, late, trouble>>
  /\ Untouched

Refresh ==
  /\ catalog' = server
  /\ UNCHANGED <<state, server, foreign, pinned, pinQueue, downloads, history,
                 trouble>>

Change(a) ==
  /\ Trouble
  /\ \E v \in Versions \ {server[a]} : server' = [server EXCEPT ![a] = v]
  /\ UNCHANGED <<state, catalog, foreign, pinned, pinQueue, downloads, history>>

(* Somebody writes into a file of the cache, but not while it is being read. *)
Damage(a) ==
  /\ Present(a) /\ cached[a].bytes # Damaged
  /\ \A r \in Holders(a) : task[r].pc # "opening"
  /\ Trouble
  /\ cached' = [cached EXCEPT ![a].bytes = Damaged]
  /\ UNCHANGED <<task, pending, exempt, pinned, pinQueue, outside, downloads,
                 late>>
  /\ Untouched

FillDisk ==
  /\ Disk > Taken(cached)
  /\ Trouble
  /\ foreign' = foreign + 1
  /\ UNCHANGED <<state, server, catalog, pinned, pinQueue, downloads, history>>

(* The service starts again: offline, or after a full refresh.  Files opened   *)
(* in the old mount are gone with it, and so are temporary files.             *)
Restart ==
  /\ Trouble
  /\ task' = [t \in Tasks |-> IF t \in Readers THEN Closed ELSE NoTask]
  /\ validated' = [a \in Assets |-> None]
  /\ pending' = {} /\ moved' = {}
  /\ downloads' \in BOOLEAN
  /\ catalog' = IF downloads' THEN server ELSE catalog
  /\ pinQueue' = [a \in Assets |->
       IF downloads' /\ a \in pinned /\ ~IsCached(a, catalog'[a]) THEN catalog'[a] ELSE None]
  /\ UNCHANGED <<cached, server, foreign, pinned, history>>

-----------------------------------------------------------------------------
Progress(t) ==
  \/ Woken(t) \/ HashServes(t) \/ HashFails(t) \/ HashMissed(t)
  \/ Answer(t) \/ WriteChunk(t) \/ DownloadFails(t) \/ PublishFile(t)

Next ==
  \/ \E t \in Tasks : Progress(t)
  \/ \E r \in Readers : Open(r) \/ Read(r) \/ Deliver(r) \/ Close(r)
  \/ TakePin \/ EvictToLimits \/ GoOnline \/ Refresh \/ FillDisk \/ Restart
  \/ \E a \in Assets :
       \/ Pin(a) \/ Unpin(a) \/ Evict(a) \/ Change(a) \/ Damage(a)
       \/ \E b \in Assets : TransferPin(a, b)

Spec == Init /\ [][Next]_vars

(* A hash ends, a download goes on or times out, and a file gets opened. *)
Fairness ==
  /\ \A t \in Tasks : WF_vars(Progress(t))
  /\ \A r \in Readers : WF_vars(Deliver(r))

LiveSpec == Spec /\ Fairness
-----------------------------------------------------------------------------
(* The type invariant. *)
TypeOK ==
  /\ server \in [Assets -> Versions] /\ catalog \in [Assets -> Versions]
  /\ cached \in [Assets -> File \cup {None}]
  /\ validated \in [Assets -> Versions \cup {None}]
  /\ task \in [Tasks ->
       [pc: {"idle", "closed", "open", "opening"} \cup Following \cup Leading,
        asset: Assets \cup {None}, ver: Versions \cup {None}, got: Nat,
        from: Versions \cup {None}]]
  /\ \A a \in Assets : Cardinality(Leaders(a)) <= 1
  /\ \A a \in pending : IsOpen(a)
  /\ pending \cup pinned \cup exempt \cup late \subseteq Assets
  /\ moved \subseteq {t \in Tasks : task[t].pc \in Hashing}
  /\ pinQueue \in [Assets -> Versions \cup {None}]
  /\ downloads \in BOOLEAN /\ foreign \in 0..Disk /\ trouble \in 0..MaxTrouble

(* What is read through an open file are the bytes of the catalog entry it    *)
(* was opened with, whoever downloaded or checked them, although the file is   *)
(* opened by its path some time after it was (content_cache.py:200-212).      *)
(* Not so for an asset that a late download, begun offline, may replace: its   *)
(* file can be another one when it is opened.                                 *)
BytesAreRight ==
  \A r \in Readers :
    LET k == task[r] IN
    k.pc = "opening" /\ k.asset \notin late =>
      /\ Present(k.asset)
      /\ IF k.asset \in Managed THEN cached[k.asset].bytes = k.ver
                                ELSE cached[k.asset].label = k.ver

(* Concurrent hydrations never admit more than the cache's size limit: what   *)
(* was admitted unpinned fits into it, with the rooms reserved for what is    *)
(* still to come (content_cache.py:440-490).                                  *)
WithinBudget ==
  Total(Without(cached, exempt))
    + SumFunctionOnSet(Reservations, {t \in Downloading : task[t].asset \notin exempt})
  <= MaxBytes

(* As long as nobody else fills the disk, what all downloads have still to     *)
(* write leaves the floor free, so that no download is given up half way      *)
(* (content_cache.py:447-463).                                                *)
RoomReserved == foreign = 0 => Disk >= Taken(cached) + Remaining + Floor

(* Whatever others write to the disk meanwhile, no write of the cache crosses  *)
(* the floor (content_cache.py:288-294).                                      *)
TakenNext == foreign' + Written' + Total(cached')

FloorKept ==
  [][TakenNext > Taken(cached) /\ foreign' = foreign =>
       Disk >= TakenNext + Floor]_vars

(* While a file of the mount is open, nothing takes or changes the bytes under *)
(* it: no eviction, no other entry of the asset, no hydration that finds the   *)
(* file unfit (content_cache.py:429-435).  There is one exception, and no       *)
(* other step is one: a hydration that began its hash of the file while         *)
(* downloads were disabled, and could not use it, was admitted because they had *)
(* been enabled meanwhile, and now publishes over the file (179-188, 313).      *)
SomebodyHolds(a) == \E r \in Readers : task[r].asset = a /\ task'[r].asset = a
Spoiled(a) == cached'[a] # None /\ cached'[a].bytes = Damaged
LatePublishes(a) ==
  /\ a \in late
  /\ \E t \in Downloading : task[t].asset = a /\ task'[t].pc # "download"

OpenBytesStay ==
  [][\A a \in Assets :
       Present(a) /\ SomebodyHolds(a) =>
         cached'[a] = cached[a] \/ Spoiled(a) \/ LatePublishes(a)]_vars

(* The test's name: "metadata change cannot replace bytes held by an open     *)
(* handle" (tests/test_content_cache.py:527).                                 *)
RightFor(a, v) == cached[a] = [bytes |-> v, label |-> v]
ReadsIt(r, a) == task[r].asset = a /\ RightFor(a, task[r].ver)

OpenBytesKept ==
  [][\A a \in Assets :
       (\E r \in Readers : ReadsIt(r, a) /\ task'[r].asset = a) =>
         cached'[a] = cached[a] \/ Spoiled(a)]_vars

(* The file of a pinned asset goes only if somebody comes with another entry   *)
(* of it or hashes an earlier file: no limit, no other download and no         *)
(* eviction takes it (content_cache.py:214-264, 465-485).                     *)
OnlyWants(a, v, tasks, queue) ==
  /\ \A t \in Tasks : tasks[t].asset = a => tasks[t].ver = v
  /\ queue[a] \in {None, v}

PinnedStays ==
  [][\A a \in (pinned \cap pinned') \ pending :
       /\ RightFor(a, catalog[a])
       /\ \A t \in moved : task[t].asset # a
       /\ OnlyWants(a, catalog[a], task, pinQueue)
       /\ OnlyWants(a, catalog[a], task', pinQueue')
       => cached'[a] = cached[a] \/ Spoiled(a)]_vars

(* CONTEXT.md:76: a Pin is there "to keep an asset's original Hydrated and    *)
(* exempt from Eviction".                                                     *)
PinKeepsHydrated ==
  [][\A a \in pinned \cap pinned' :
       RightFor(a, catalog[a]) /\ catalog'[a] = catalog[a] =>
         cached'[a] = cached[a] \/ Spoiled(a)]_vars

(* A read of an open file ends, whether it runs the hydration or waits for    *)
(* one that succeeds, fails or is refused: as nothing is evicted under it, it  *)
(* does not have to start over for ever (content_cache.py:155-198).           *)
ReadEnds ==
  \A r \in Readers :
    task[r].pc \in Following \cup Leading \cup {"opening"} ~>
      task[r].pc \in {"open", "closed"}
=============================================================================
