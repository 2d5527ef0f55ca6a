--------------------------- MODULE CatalogRefresh ---------------------------
(***************************************************************************)
(* The catalog kept in step with the server (app.py, catalog.py, the       *)
(* refresh tasks of service.py and library.py).                            *)
(*                                                                         *)
(* The server lists its assets in pages of an offset search, so what it    *)
(* changes between two pages shifts the pages that follow.  A complete     *)
(* refresh sweeps the list until two sweeps in a row found the same        *)
(* assets and replaces the catalog with the last one; an incremental one   *)
(* reads what has changed since a cursor, less an overlap, and only adds.  *)
(* Both stage pages in a table of the database while they hold the         *)
(* catalog's lock, a fair queue they share with the upload that publishes  *)
(* its asset and with trash and restore, whose answers may be lost.        *)
(*                                                                         *)
(* Assets are numbered in the order of the search.  A row has what the     *)
(* properties tell apart: the time of its last change, whether it is       *)
(* trashed, and the motion part of a Live Photo.  A time unit is the time  *)
(* of a refresh.                                                           *)
(***************************************************************************)
EXTENDS Naturals, Sequences, FiniteSets

CONSTANTS
  N,            \* how many assets there ever are
  Motion,       \* Motion[a]: the motion asset of a still, or 0
  Listed0,      \* the assets of the server at first
  Ours,         \* the assets this client may upload, trash or restore
  PageSize,
  Overlap,      \* two refresh intervals
  MaxSweeps,    \* MAX_REFRESH_SWEEPS
  MaxTime,      \* bound: the clock
  MaxChanges,   \* bound: changes on the server, by others or by this client
  MaxFaults     \* bound: failed requests and restarts

Assets == 1..N
None == 0       \* no asset

ASSUME RefreshAssumption ==
  /\ {N, Overlap, MaxTime, MaxChanges, MaxFaults} \subseteq Nat
  /\ {PageSize, MaxSweeps} \subseteq Nat \ {0}
  /\ Motion \in [Assets -> Assets \cup {None}]
  /\ Listed0 \subseteq Assets /\ Ours \subseteq Assets
  /\ \A a \in Listed0 : Motion[a] \in Listed0 \cup {None}

VARIABLES
  now,           \* the server's clock
  listed,        \* the assets its search returns
  server,        \* the row of every asset on the server
  changes, faults,
  rows,          \* the table assets
  link,          \* the assets linked in the view All
  incoming,      \* the table incoming_assets
  highWater, pages,     \* the cursor and the page budget
  trusted,       \* a trusted profile is stored
  service,       \* "down", "starting", "offline", "online"
  requests,      \* the one-slot channel of the refresh task
  fullRequested,
  lockQueue,     \* catalog_lock: its holder, then those who wait
  scan,          \* the refresh under way
  upload,        \* the detail the upload worker is about to publish
  mutation,      \* the trash or restore under way
  since,         \* history: the assets listed always, and ever, since the
                 \* refresh began, and whether one came back
  shifted        \* history: an asset went while a delta was read, or went and
                 \* came back in the last complete refresh

serverVars == <<now, listed, server, changes>>
tables == <<rows, link, highWater, pages>>
taskVars == <<requests, fullRequested, lockQueue, scan, upload, mutation>>
vars == <<serverVars, faults, tables, incoming, trusted, service, taskVars,
          since, shifted>>

Row == [upd : 0..MaxTime, trashed : BOOLEAN, motion : Assets \cup {None}]
Table == UNION {[D -> Row] : D \in SUBSET Assets}
NoRows == [a \in {} |-> None]

Tasks == {"refresh", "upload", "mutation"}
NoSweep == {None}           \* previous_ids before the first sweep
Idle == [step |-> "idle", full |-> FALSE, fallback |-> FALSE, sweep |-> 0,
         page |-> 1, lower |-> 0, high |-> 0, seen |-> {},
         previous |-> NoSweep, start |-> 0]
NoSince == [always |-> {}, ever |-> {}, returned |-> FALSE]
NoUpload == [step |-> "idle", asset |-> None, detail |-> None, start |-> 0]
NoMutation == [step |-> "idle", kind |-> "none", asset |-> None, start |-> 0]

-----------------------------------------------------------------------------
(* The lock: trio.Lock hands it to whoever has waited longest.             *)

Holds(t) == lockQueue # <<>> /\ Head(lockQueue) = t
Wait(t) == lockQueue' = Append(lockQueue, t)
Released == lockQueue' = Tail(lockQueue)

(* What the catalog's tables become.                                       *)

\* The rows of `new' in place of those a table has of their assets.
Upsert(new, table) ==
  [a \in DOMAIN new \cup DOMAIN table |-> IF a \in DOMAIN new THEN new[a] ELSE table[a]]

\* An asset has a place of its own unless it is trashed or some row names it
\* as its motion part.
Standalone(table) ==
  {a \in DOMAIN table : /\ ~table[a].trashed
                        /\ \A s \in DOMAIN table : table[s].motion # a}

\* The links after the assets of `changed' have been projected again.
Project(changed, table) ==
  (link \ changed) \cup (changed \cap Standalone(table))

LivePhotosAreValid(table) ==
  \A s \in DOMAIN table : table[s].motion \in DOMAIN table \cup {None}

(* Mutation: the motion parts named before are looked up after the upsert. *)
AffectedAfter(new) == DOMAIN new \cup {new[a].motion : a \in DOMAIN new}

\* The assets an upsert projects again: the changed ones, the motion parts
\* they name now, and those they named before.
Affected(new) ==
  LET named(table) == {table[a].motion : a \in DOMAIN new \cap DOMAIN table}
  IN DOMAIN new \cup named(new) \cup named(rows)

PutRow(a, row) == rows' = Upsert([b \in {a} |-> row], rows)

-----------------------------------------------------------------------------
(* The server's offset search: page p of the assets that match.            *)

(* Mutation: the lower bound of a delta excludes the time it names. *)
MatchingAfter == {a \in listed : scan.full \/ server[a].upd > scan.lower}

Matching == {a \in listed : scan.full \/ server[a].upd >= scan.lower}
PageOf(found, p) ==
  {a \in found : Cardinality({b \in found : b < a}) \div PageSize = p - 1}
HasNext(found, p) == Cardinality(found) > p * PageSize

MaxOf(S) == CHOOSE x \in S : \A y \in S : y <= x

-----------------------------------------------------------------------------
Init ==
  /\ now = 0 /\ listed = Listed0 /\ changes = 0 /\ faults = 0
  /\ server = [a \in Assets |-> [upd |-> 0, trashed |-> FALSE, motion |-> Motion[a]]]
  /\ rows = NoRows /\ link = {} /\ incoming = NoRows
  /\ highWater = 0 /\ pages = 0 /\ trusted = FALSE
  /\ service = "down" /\ requests = "empty" /\ fullRequested = FALSE
  /\ lockQueue = <<>> /\ scan = Idle /\ upload = NoUpload /\ mutation = NoMutation
  /\ since = NoSince
  /\ shifted = FALSE

-----------------------------------------------------------------------------
(* The server, as other clients change it.                                 *)

\* Every update of an asset sets its time of change; the history follows.
Update(a, row, list) ==
  /\ listed' = list
  /\ server' = [server EXCEPT ![a] = [row EXCEPT !.upd = now]]
  /\ since' = IF scan.step = "read" /\ scan.full
              THEN [always |-> since.always \cap list,
                    ever |-> since.ever \cup list,
                    returned |-> \/ since.returned
                                 \/ (list \ listed) \cap since.ever # {}]
              ELSE since
  /\ shifted' = \/ shifted
                \/ ~ (listed \subseteq list) /\ scan.step = "read" /\ ~scan.full
  /\ UNCHANGED now

Counted == changes < MaxChanges /\ changes' = changes + 1

Change(a, row, list) == Counted /\ Update(a, row, list)

Unchanged == UNCHANGED <<faults, tables, incoming, trusted, service, taskVars>>

\* Another client uploads an asset, or unlocks it: it is listed from now on.
\* A Live Photo comes after its motion part.
Appear(a) ==
  /\ a \in Assets \ listed
  /\ server[a].motion \in listed \cup {None}
  /\ Change(a, server[a], listed \cup {a})
  /\ Unchanged

\* An asset is deleted for good, or locked.
Vanish(a) ==
  /\ a \in listed
  /\ \A s \in listed : server[s].motion # a
  /\ Change(a, server[a], listed \ {a})
  /\ Unchanged

\* Another client trashes or restores an asset.
Toggle(a) ==
  /\ a \in listed
  /\ Change(a, [server[a] EXCEPT !.trashed = ~@], listed)
  /\ Unchanged

\* The Live Photo is taken apart: its motion part is an asset of its own.
Unlink(a) ==
  /\ a \in listed /\ server[a].motion # None
  /\ Change(a, [server[a] EXCEPT !.motion = None], listed)
  /\ Unchanged

\* When what is not yet in the catalog was asked of the server.
Reads ==
  {t.start : t \in {r \in {scan, upload, mutation} : r.step \in {"read", "sent"}}}

\* A sweep, a delta, a wait to publish an upload are shorter than the overlap.
Tick ==
  /\ now < MaxTime
  /\ \A t \in Reads : now - t < Overlap
  /\ now' = now + 1
  /\ UNCHANGED <<listed, server, changes, since, shifted>> /\ Unchanged

-----------------------------------------------------------------------------
(* A refresh.  `Requested' is one that waits for the lock, and `Run' what   *)
(* the refresh task does with it.                                          *)

Requested(full, fallback) ==
  [Idle EXCEPT !.step = "wait", !.full = full, !.fallback = fallback]

Fresh == since' = [always |-> listed, ever |-> listed, returned |-> FALSE]

\* begin_refresh and the first request of a sweep.
Begin(full) ==
  /\ incoming' = NoRows
  /\ scan' = [scan EXCEPT
       !.step = "read", !.page = 1, !.sweep = IF full THEN 1 ELSE 0,
       !.start = now, !.seen = {}, !.previous = NoSweep,
       !.lower = IF ~full /\ highWater > Overlap THEN highWater - Overlap ELSE 0,
       !.high = IF full THEN 0 ELSE highWater]

BeginFull ==
  /\ scan.step = "wait" /\ scan.full /\ Holds("refresh")
  /\ Begin(TRUE) /\ Fresh
  /\ UNCHANGED <<serverVars, faults, tables, trusted, service, requests,
                 fullRequested, lockQueue, upload, mutation, shifted>>

BeginDelta ==
  /\ scan.step = "wait" /\ ~scan.full /\ Holds("refresh") /\ pages >= 1
  /\ Begin(FALSE)
  /\ UNCHANGED <<serverVars, faults, tables, trusted, service, requests,
                 fullRequested, lockQueue, upload, mutation, since, shifted>>

\* One page is answered and staged, the later row of an asset winning.
Page == PageOf(Matching, scan.page)
Staged == Upsert([a \in Page |-> server[a]], incoming)
Seen == IF scan.full THEN scan.seen \cup Page ELSE {}
High == MaxOf({scan.high} \cup {server[a].upd : a \in Page})
Duplicate == scan.full /\ Page \cap scan.seen # {}
More == HasNext(Matching, scan.page)
OverBudget == ~scan.full /\ More /\ scan.page >= pages

ReadPage ==
  /\ scan.step = "read" /\ ~Duplicate /\ More /\ ~OverBudget
  /\ incoming' = Staged
  /\ scan' = [scan EXCEPT !.page = @ + 1, !.seen = Seen, !.high = High]
  /\ UNCHANGED <<serverVars, faults, tables, trusted, service, requests,
                 fullRequested, lockQueue, upload, mutation, since, shifted>>

LastPage == scan.step = "read" /\ ~Duplicate /\ ~More

\* The sweep found other assets than the one before: another is made.
NextSweep ==
  /\ LastPage /\ scan.full
  /\ Seen # scan.previous /\ scan.sweep < MaxSweeps
  /\ incoming' = NoRows
  /\ scan' = [scan EXCEPT !.page = 1, !.sweep = @ + 1, !.seen = {},
                          !.high = 0, !.start = now, !.previous = Seen]
  /\ UNCHANGED <<serverVars, faults, tables, trusted, service, requests,
                 fullRequested, lockQueue, upload, mutation, since, shifted>>

\* finish_refresh and finish_incremental: one transaction, which is rolled
\* back when a row names a motion part there is no row for.
Publish(table, links, high, count) ==
  /\ LivePhotosAreValid(table)
  /\ rows' = table /\ link' = links
  /\ highWater' = high /\ pages' = count
  /\ incoming' = NoRows

(* Mutation: the first complete sweep is taken. *)
FinishFirstSweep ==
  /\ LastPage /\ scan.full
  /\ Publish(Staged, Standalone(Staged), High, scan.page)
  /\ scan' = [Idle EXCEPT !.step = "albums", !.full = TRUE]
  /\ lockQueue' = Append(Tail(lockQueue), "refresh")
  /\ shifted' = since.returned /\ since' = NoSince
  /\ UNCHANGED <<serverVars, faults, trusted, service, requests,
                 fullRequested, upload, mutation>>

FinishFull ==
  /\ LastPage /\ scan.full /\ Seen = scan.previous
  /\ Publish(Staged, Standalone(Staged), High, scan.page)
  /\ scan' = [Idle EXCEPT !.step = "albums", !.full = TRUE,
                          !.fallback = scan.fallback]
  /\ lockQueue' = Append(Tail(lockQueue), "refresh")
  /\ shifted' = since.returned /\ since' = NoSince
  /\ UNCHANGED <<serverVars, faults, trusted, service, requests,
                 fullRequested, upload, mutation>>

FinishDelta ==
  /\ LastPage /\ ~scan.full
  /\ Publish(Upsert(Staged, rows), Project(Affected(Staged), Upsert(Staged, rows)),
             MaxOf({highWater, High}), pages)
  /\ scan' = Idle /\ Released
  /\ UNCHANGED <<serverVars, faults, trusted, service, requests,
                 fullRequested, upload, mutation, since, shifted>>

\* reconcile_album_people ends a complete refresh, under the lock again: the
\* profile is stored, and whoever ran the refresh goes on, the start and the
\* offline worker with the service online.
Reconcile ==
  /\ scan.step = "albums" /\ Holds("refresh")
  /\ trusted' = TRUE
  /\ service' = "online"
  /\ fullRequested' = (fullRequested /\ service # "offline")
  /\ scan' = Idle /\ Released
  /\ UNCHANGED <<serverVars, faults, tables, incoming, requests, upload,
                 mutation, since, shifted>>

-----------------------------------------------------------------------------
(* A refresh that fails.  Its pages stay in incoming_assets.               *)

Rows == DOMAIN rows

\* The service goes down and its tasks with it.
Down ==
  /\ service' = "down" /\ requests' = "empty" /\ fullRequested' = FALSE
  /\ lockQueue' = <<>> /\ scan' = Idle
  /\ upload' = NoUpload /\ mutation' = NoMutation

(* Mutation: the lock outlives the refresh that failed. *)
QuitHolding == UNCHANGED lockQueue

\* A refresh that fails lets go of the lock.
Quit == Released

\* The refresh task makes one complete refresh of one that was refused, and
\* forgets one that failed otherwise.
FailOnline(kind) ==
  /\ service = "online"
  /\ IF kind = "refused" /\ ~scan.fallback
     THEN /\ scan' = Requested(TRUE, TRUE)
          /\ lockQueue' = Append(Tail(lockQueue), "refresh")
     ELSE scan' = Idle /\ Quit
  /\ UNCHANGED <<service, requests, fullRequested, upload, mutation>>

\* Without its server a service starts from what it trusts, or goes on with
\* it; any other failure is the end of it.
FailElsewhere(kind) ==
  /\ service \in {"starting", "offline"}
  /\ IF /\ kind = "unavailable"
        /\ service = "offline" \/ (trusted /\ pages >= 1 /\ Rows # {})
     THEN /\ service' = "offline" /\ scan' = Idle /\ Quit
          /\ UNCHANGED <<requests, fullRequested, upload, mutation>>
     ELSE Down

Fail(kind) ==
  /\ FailOnline(kind) \/ FailElsewhere(kind)
  /\ since' = NoSince
  /\ UNCHANGED <<serverVars, tables, trusted, shifted>>

\* A request is not answered, answered with what the client rejects, or
\* refused otherwise: the pages, the albums, or the validation that comes
\* first where the service is not online and nobody else wants the lock.
RequestFails(kind) ==
  /\ Holds("refresh")
  /\ \/ scan.step \in {"read", "albums"}
     \/ scan.step = "wait" /\ service # "online"
  /\ faults < MaxFaults /\ faults' = faults + 1
  /\ Fail(kind)
  /\ UNCHANGED incoming

\* A page repeats an asset of the sweep, a delta would need more pages than
\* a complete refresh, or there has been none: ImmichResponseError,
\* ImmichPageLimitError, FullRefreshRequired.
Refused ==
  /\ \/ scan.step = "read" /\ (Duplicate \/ OverBudget)
     \/ scan.step = "wait" /\ ~scan.full /\ Holds("refresh") /\ pages = 0
  /\ incoming' = IF scan.step = "read" /\ OverBudget THEN Staged ELSE incoming
  /\ Fail("refused")
  /\ UNCHANGED faults

\* The sweeps never agree, or a row names a motion part that is not there.
Unsettled == LastPage /\ scan.full /\ Seen # scan.previous /\ scan.sweep = MaxSweeps

Invalid ==
  /\ LastPage /\ (scan.full => Seen = scan.previous)
  /\ ~LivePhotosAreValid(IF scan.full THEN Staged ELSE Upsert(Staged, rows))

GiveUp ==
  /\ Unsettled \/ Invalid
  /\ incoming' = Staged
  /\ Fail("other")
  /\ UNCHANGED faults

-----------------------------------------------------------------------------
(* Who asks for a refresh.                                                 *)

Unasked == UNCHANGED <<serverVars, faults, tables, incoming, trusted, upload,
                       mutation, since, shifted>>

\* The service starts, with a complete refresh before it mounts.
Start ==
  /\ service = "down"
  /\ service' = "starting"
  /\ scan' = Requested(TRUE, FALSE) /\ Wait("refresh")
  /\ UNCHANGED <<requests, fullRequested>> /\ Unasked

(* Mutation: what was asked for while the channel was full is forgotten. *)
TakeLast ==
  /\ requests # "empty" /\ scan = Idle
  /\ scan' = Requested(requests = "full" \/ service = "offline", FALSE)
  /\ requests' = "empty"
  /\ fullRequested' = (fullRequested /\ service = "offline")
  /\ Wait("refresh")
  /\ UNCHANGED service /\ Unasked

\* The refresh task takes a request; offline every one is complete.
Take ==
  /\ requests # "empty" /\ scan = Idle
  /\ scan' = Requested(requests = "full" \/ fullRequested \/ service = "offline",
                       FALSE)
  /\ requests' = "empty"
  /\ fullRequested' = (fullRequested /\ service = "offline")
  /\ Wait("refresh")
  /\ UNCHANGED service /\ Unasked

\* send_nowait: a full slot already asks for a refresh.
Send(kind) == requests' = IF requests = "empty" THEN kind ELSE requests

\* _periodic_refresh, every few minutes and every day.
AskDelta ==
  /\ service = "online" /\ Send("delta")
  /\ UNCHANGED <<service, fullRequested, lockQueue, scan>> /\ Unasked

AskFull ==
  /\ service = "online" /\ Send("full") /\ fullRequested' = TRUE
  /\ UNCHANGED <<service, lockQueue, scan>> /\ Unasked

\* _offline_retries.
RetryOffline ==
  /\ service = "offline" /\ Send("full")
  /\ UNCHANGED <<service, fullRequested, lockQueue, scan>> /\ Unasked

\* The process dies.
Crash ==
  /\ service # "down" /\ faults < MaxFaults
  /\ faults' = faults + 1 /\ Down /\ since' = NoSince
  /\ UNCHANGED <<serverVars, tables, incoming, trusted, shifted>>

-----------------------------------------------------------------------------
(* The upload worker and its asset.                                        *)

\* It has uploaded an asset and reads its detail, which must be visible.
ReadDetail(a) ==
  /\ service = "online" /\ upload = NoUpload
  /\ a \in listed \cap Ours /\ ~server[a].trashed
  /\ upload' = [step |-> "read", asset |-> a, detail |-> server[a], start |-> now]
  /\ Wait("upload")
  /\ UNCHANGED <<serverVars, faults, tables, incoming, trusted, service,
                 requests, fullRequested, scan, mutation, since, shifted>>

\* add_uploaded, once it has the lock.
AddUploaded ==
  /\ Holds("upload") /\ upload.step = "read"
  /\ PutRow(upload.asset, upload.detail)
  /\ link' = Project(Affected([b \in {upload.asset} |-> upload.detail]), rows')
  /\ upload' = NoUpload /\ Released
  /\ UNCHANGED <<serverVars, faults, highWater, pages, incoming, trusted,
                 service, requests, fullRequested, scan, mutation, since,
                 shifted>>

(* Trash and restore: the library's calls under the lock.                  *)

\* A file is unlinked, or a restore is asked for.
Ask(kind, a) ==
  /\ service = "online" /\ mutation = NoMutation /\ Counted
  /\ IF kind = "trash" THEN a \in link ELSE a \in Rows /\ rows[a].trashed
  /\ mutation' = [step |-> "asked", kind |-> kind, asset |-> a, start |-> 0]
  /\ Wait("mutation")
  /\ UNCHANGED <<now, listed, server, faults, tables, incoming, trusted, service,
                 requests, fullRequested, scan, upload, since, shifted>>

\* The row is looked at again under the lock.
StillMeant ==
  LET a == mutation.asset
  IN /\ a \in Rows
     /\ mutation.kind = "restore" =>
          rows[a].trashed /\ \A s \in Rows : rows[s].motion # a

\* The server does it.
Carry ==
  /\ Holds("mutation") /\ mutation.step = "asked" /\ StillMeant
  /\ mutation.asset \in listed
  /\ Update(mutation.asset,
            [server[mutation.asset] EXCEPT !.trashed = mutation.kind = "trash"],
            listed)
  /\ mutation' = [mutation EXCEPT !.step = "sent", !.start = now]
  /\ UNCHANGED <<changes, faults, tables, incoming, trusted, service, requests,
                 fullRequested, lockQueue, scan, upload>>

\* A restore ends with a request for a delta, whatever came of it.
Ended ==
  /\ mutation' = NoMutation /\ Released
  /\ IF mutation.kind = "restore" THEN Send("delta") ELSE UNCHANGED requests
  /\ UNCHANGED <<serverVars, highWater, pages, incoming, trusted, service,
                 fullRequested, scan, upload, since, shifted>>

\* Its answer is there: mark_trashed, mark_restored.
Mark ==
  /\ Holds("mutation") /\ mutation.step = "sent"
  /\ PutRow(mutation.asset,
            [rows[mutation.asset] EXCEPT !.trashed = mutation.kind = "trash"])
  /\ link' = Project({mutation.asset}, rows')
  /\ Ended
  /\ UNCHANGED faults

\* The answer is lost after the server has done it.
AnswerLost ==
  /\ Holds("mutation") /\ mutation.step = "sent"
  /\ faults < MaxFaults /\ faults' = faults + 1
  /\ Ended
  /\ UNCHANGED <<rows, link>>

\* Not asked after all, or refused by the server.
NotCarried ==
  /\ Holds("mutation") /\ mutation.step = "asked"
  /\ ~StillMeant \/ mutation.asset \notin listed
  /\ Ended
  /\ UNCHANGED <<faults, rows, link>>

-----------------------------------------------------------------------------
Server ==
  \/ \E a \in Assets : Appear(a) \/ Vanish(a) \/ Toggle(a) \/ Unlink(a)
  \/ Tick

Refresh ==
  \/ BeginFull \/ BeginDelta \/ ReadPage \/ NextSweep
  \/ FinishFull \/ FinishDelta \/ Reconcile
  \/ Refused \/ GiveUp

Mutate == Carry \/ Mark \/ NotCarried

Next ==
  \/ Server
  \/ Refresh
  \/ \E kind \in {"refused", "unavailable", "other"} : RequestFails(kind)
  \/ Start \/ Take \/ AskDelta \/ AskFull \/ RetryOffline \/ Crash
  \/ \E a \in Assets : ReadDetail(a)
  \/ AddUploaded
  \/ \E kind \in {"trash", "restore"}, a \in Ours : Ask(kind, a)
  \/ Mutate \/ AnswerLost

\* systemd restarts the service, the refresh task and the holders of the lock
\* go on, and the timers run; nothing obliges a user or a server.
Fairness ==
  /\ WF_vars(Start) /\ WF_vars(Take) /\ WF_vars(Refresh)
  /\ WF_vars(AskFull) /\ WF_vars(RetryOffline)
  /\ WF_vars(AddUploaded) /\ WF_vars(Mutate)

Spec == Init /\ [][Next]_vars /\ Fairness

-----------------------------------------------------------------------------
TypeOK ==
  /\ now \in 0..MaxTime /\ listed \subseteq Assets
  /\ server \in [Assets -> Row]
  /\ changes \in 0..MaxChanges /\ faults \in 0..MaxFaults
  /\ rows \in Table /\ incoming \in Table /\ link \subseteq Rows
  /\ highWater \in 0..MaxTime /\ pages \in 0..N + 1 /\ trusted \in BOOLEAN
  /\ service \in {"down", "starting", "offline", "online"}
  /\ requests \in {"empty", "delta", "full"} /\ fullRequested \in BOOLEAN
  /\ scan.step \in {"idle", "wait", "read", "albums"}
  /\ upload = NoUpload \/ upload \in [step : {"read"}, asset : Ours, detail : Row, start : 0..MaxTime]
  /\ mutation = NoMutation \/ mutation \in
       [step : {"asked", "sent"}, kind : {"trash", "restore"}, asset : Ours,
        start : 0..MaxTime]
  /\ \A t \in Tasks : Cardinality({i \in DOMAIN lockQueue : lockQueue[i] = t}) <= 1

\* A complete refresh (refresh_catalog) drops no asset that the server has
\* listed since the refresh began, and keeps or adds none that it has not
\* listed since then, whatever shifted the pages of its sweeps or an earlier
\* refresh left in the staging table.  An asset that goes and comes back within
\* the refresh can hide another in both sweeps, and is left out.
AbsenceIsReal ==
  [][FinishFull => \/ since.returned
                   \/ /\ since.always \subseteq DOMAIN rows'
                      /\ DOMAIN rows' \subseteq since.ever]_vars

Agrees(a) ==
  /\ (a \in Rows) <=> (a \in listed)
  /\ a \in listed => /\ rows[a].trashed = server[a].trashed
                     /\ rows[a].motion = server[a].motion

\* What the catalog does not have right of a listed asset has changed within
\* the overlap of the cursor, so that the next delta asks for it: the cursor
\* (refresh_catalog_incremental, finish_incremental) never runs ahead of a
\* change that was missed between pages, made by an answer that was lost, or
\* overwritten by the older detail of an upload.  Only a delta during which an
\* asset went, or a complete refresh during which one went and came back, may
\* have skipped another.
CursorCovers ==
  pages >= 1 /\ ~shifted =>
    \A a \in listed : Agrees(a) \/ server[a].upd + Overlap >= highWater

\* The links of the mount are those of the rows, however they were changed:
\* an upsert, a deletion, a Live Photo that is taken apart (_project_asset,
\* _replace_namespace).
LinksMatchRows == link = Standalone(rows)

\* When the server and the network have come to rest the catalog agrees with
\* the server for good: no lost answer, failed refresh, coalesced request or
\* skipped page is forever.
Converges == <>[](service = "online" /\ \A a \in Assets : Agrees(a))

\* docs/research/immich-3-incremental-refresh.md: when the sweeps differ or one
\* fails, the current catalog is kept and the refresh is retried later.  A
\* mounted service goes on when its sweeps do not settle.
UnsettledIsRetried == [][service = "offline" /\ Unsettled => service' # "down"]_vars
=============================================================================
