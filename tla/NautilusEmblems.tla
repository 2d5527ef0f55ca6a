--------------------------- MODULE NautilusEmblems ---------------------------
(***************************************************************************)
(* The emblems of nautilus_extension.py.  Nautilus asks the extension for  *)
(* the state of a file; the extension answers from a cache that lives for  *)
(* two seconds, or queues the request, sends one batch at a time from a    *)
(* worker thread to the service of one profile, and completes the requests *)
(* of the batch in a callback on the main loop.  Menu actions run in       *)
(* subprocesses and invalidate the file when they end; a file that is      *)
(* busy is invalidated again after the life of its cache entry.            *)
(*                                                                         *)
(* Nautilus, the subprocesses and the services are external: what the      *)
(* extension sees of them is modelled.  One request per file is            *)
(* outstanding at a time, as Nautilus keeps one object per file.           *)
(***************************************************************************)
EXTENDS Naturals, Sequences, FiniteSets, Functions

CONSTANTS
  Files,          \* the files that Nautilus shows
  ProfileOf,      \* the profile whose mount holds a file
  Oversized,      \* files whose URI does not fit into a request by itself
  MaxBatch,       \* _MAX_BATCH_URIS
  MaxCache,       \* _MAX_CACHE_ITEMS
  Used,           \* the files that somebody closes, reopens or acts on
  MaxLooks,       \* how often they do
  MaxFailures,    \* failing threads and requests
  None            \* no state, no process

States == [pinned : BOOLEAN, cached : BOOLEAN, busy : BOOLEAN]

ASSUME EmblemsAssumption ==
  /\ MaxBatch \in Nat \ {0}
  /\ MaxCache \in Nat
  /\ Oversized \subseteq Files
  /\ Used \subseteq Files
  /\ None \notin States \cup {"asking", "answered"}

-----------------------------------------------------------------------------
(* Parts of sequences.                                                       *)

\* The n-th of a set of indexes, from the smallest.
Nth(I, n) == CHOOSE i \in I : Cardinality({k \in I : k <= i}) = n

\* The elements of s at the indexes I, in their order.
Pick(s, I) == [n \in 1 .. Cardinality(I) |-> s[Nth(I, n)]]

-----------------------------------------------------------------------------
VARIABLES
  pending,        \* _pending, the files of the queued updates in order
  inflight,       \* _inflight, each with whether its update is completed
  idle,           \* _idle_source: a call of _start_batch is scheduled
  worker,         \* the thread: None, "asking" or "answered"
  answer,         \* the states it has brought
  cache,          \* _cache: files and states, the least recently used first
  timers,         \* _busy_refreshes and their timeouts
  waiting,        \* files whose update Nautilus waits for
  invalid,        \* files Nautilus will ask about
  shown,          \* the emblems of a file
  process,        \* the action subprocess of a file
  truth,          \* what the service would answer
  returned,       \* history: files whose update was cancelled in a batch
  looks, failures

extension == <<pending, inflight, idle, worker, answer, cache, timers>>
nautilus == <<waiting, invalid, shown>>
outside == <<process, truth>>
counters == <<returned, looks, failures>>
vars == <<extension, nautilus, outside, counters>>

Batch == {inflight[i].file : i \in DOMAIN inflight}

\* The files whose update is still to be completed.
Open(updates) ==
  {updates[i].file : i \in {k \in DOMAIN updates : ~updates[k].completed}}

TypeOK ==
  /\ pending \in Seq(Files) /\ IsInjective(pending)
  /\ inflight \in Seq([file : Files, completed : BOOLEAN])
  /\ \A f, g \in Batch : ProfileOf[f] = ProfileOf[g]
  /\ Len(inflight) <= MaxBatch
  /\ idle \in BOOLEAN
  /\ worker \in {None, "asking", "answered"}
  /\ (worker = None) = (inflight = <<>>)
  /\ DOMAIN answer \subseteq Batch
  /\ cache \in Seq([file : Files, state : States])
  /\ Len(cache) <= MaxCache
  /\ timers \subseteq Files
  /\ Range(pending) \subseteq waiting
  /\ waiting \subseteq Files /\ invalid \subseteq Files
  /\ shown \in [Files -> States \cup {None}]
  /\ truth \in [Files -> States]

Init ==
  /\ pending = <<>> /\ inflight = <<>> /\ idle = FALSE /\ worker = None
  /\ answer = <<>> /\ cache = <<>> /\ timers = {}
  /\ waiting = {} /\ invalid = Files /\ shown = [f \in Files |-> None]
  /\ process = [f \in Files |-> None]
  /\ truth = [f \in Files |-> [pinned |-> FALSE, cached |-> FALSE, busy |-> FALSE]]
  /\ returned = {} /\ looks = 0 /\ failures = 0

-----------------------------------------------------------------------------
(* The cache.  An entry whose two seconds are over is dropped by _cached_state   *)
(* when it meets it; without a clock, any entry may turn out to be too old.      *)

Forget(c, f) == Pick(c, {i \in DOMAIN c : c[i].file # f})

Cached(f) ==
  LET hits == {i \in DOMAIN cache : cache[i].file = f}
  IN IF hits = {} THEN None ELSE cache[CHOOSE i \in hits : TRUE].state

Use(c, f, s) == Append(Forget(c, f), [file |-> f, state |-> s])

\* The states of a batch become the newest entries; the oldest fall out.
Store(states) ==
  LET kept == Pick(cache, {i \in DOMAIN cache : cache[i].file \notin DOMAIN states})
      answered == Pick(inflight, {i \in DOMAIN inflight : inflight[i].file \in DOMAIN states})
      all == kept \o [i \in DOMAIN answered |->
                        [file |-> answered[i].file, state |-> states[answered[i].file]]]
      excess == IF Len(all) > MaxCache THEN Len(all) - MaxCache ELSE 0
  IN SubSeq(all, excess + 1, Len(all))

-----------------------------------------------------------------------------
(* Nautilus. *)

\* Somebody opens the folder of a file.
Look(f) ==
  /\ looks < MaxLooks /\ looks' = looks + 1
  /\ invalid' = invalid \cup {f}
  /\ UNCHANGED <<extension, waiting, shown, outside, returned, failures>>

\* update_file_info_full: answered from the cache, or, without an entry or with
\* one that is too old, queued for a batch.
AskCached(f) ==
  /\ f \in invalid \ waiting
  /\ Cached(f) # None
  /\ cache' = Use(cache, f, Cached(f))
  /\ shown' = [shown EXCEPT ![f] = Cached(f)]
  /\ invalid' = invalid \ {f}
  /\ UNCHANGED <<pending, inflight, idle, worker, answer, timers, waiting, outside, counters>>

AskService(f) ==
  /\ f \in invalid \ waiting
  /\ cache' = Forget(cache, f)
  /\ pending' = Append(pending, f)
  /\ idle' = (idle \/ worker = None)
  /\ waiting' = waiting \cup {f}
  /\ invalid' = invalid \ {f}
  /\ UNCHANGED <<inflight, worker, answer, timers, shown, outside, counters>>

Completed(f) ==
  [i \in DOMAIN inflight |->
     IF inflight[i].file = f THEN [inflight[i] EXCEPT !.completed = TRUE] ELSE inflight[i]]

\* A mutation: a cancelled update stays in the queue.
CancelUpdateInPlace(f) ==
  /\ f \in waiting
  /\ f \in invalid \/ looks < MaxLooks
  /\ looks' = IF f \in invalid THEN looks ELSE looks + 1
  /\ waiting' = waiting \ {f}
  /\ inflight' = Completed(f)
  /\ UNCHANGED <<pending, idle, worker, answer, cache, timers, invalid, shown, outside, returned, failures>>

\* cancel_update: Nautilus gives up a request, because nobody looks at the
\* file any more or because it was invalidated in the meantime.  An update of
\* a batch stays in it, completed.
CancelUpdate(f) ==
  /\ f \in waiting
  /\ f \in invalid \/ looks < MaxLooks
  /\ looks' = IF f \in invalid THEN looks ELSE looks + 1
  /\ waiting' = waiting \ {f}
  /\ shown' = IF f \in invalid THEN shown ELSE [shown EXCEPT ![f] = None]
  /\ IF f \in Range(pending)
       THEN /\ pending' = Pick(pending, {i \in DOMAIN pending : pending[i] # f})
            /\ UNCHANGED <<inflight, returned>>
       ELSE /\ inflight' = Completed(f)
            /\ returned' = returned \cup {f}
            /\ UNCHANGED pending
  /\ UNCHANGED <<idle, worker, answer, cache, timers, invalid, outside, failures>>

-----------------------------------------------------------------------------
(* Batches. *)

\* The queued updates of the first one's profile, by their places in the queue.
Own == {i \in DOMAIN pending : ProfileOf[pending[i]] = ProfileOf[pending[1]]}

\* Those of one request: in order, up to the first that does not fit.
Taken ==
  {i \in Own : LET upto == {k \in Own : k <= i}
               IN /\ Cardinality(upto) <= MaxBatch
                  /\ \A k \in upto : pending[k] \notin Oversized}

Selected == Pick(pending, Taken)

\* A mutation: nothing starts the next batch.
FinishIdle(updates, states, queue) ==
  LET open == Open(updates)
      known == open \cap DOMAIN states
  IN /\ shown' = [f \in Files |-> IF f \in known THEN states[f]
                                  ELSE IF f \in open THEN None ELSE shown[f]]
     /\ timers' = timers \cup {f \in known : states[f].busy}
     /\ waiting' = waiting \ open
     /\ inflight' = <<>> /\ worker' = None /\ answer' = <<>>
     /\ idle' = idle

\* _finish_batch: the states go to the files whose update Nautilus still waits
\* for, and a busy one is looked at again later.
Finish(updates, states, queue) ==
  LET open == Open(updates)
      known == open \cap DOMAIN states
  IN /\ shown' = [f \in Files |-> IF f \in known THEN states[f]
                                  ELSE IF f \in open THEN None ELSE shown[f]]
     /\ timers' = timers \cup {f \in known : states[f].busy}
     /\ waiting' = waiting \ open
     /\ inflight' = <<>> /\ worker' = None /\ answer' = <<>>
     /\ idle' = (idle \/ queue # <<>>)

\* _start_batch with nothing to do.
StartNothing ==
  /\ idle /\ (pending = <<>> \/ worker # None)
  /\ idle' = FALSE
  /\ UNCHANGED <<pending, inflight, worker, answer, cache, timers, nautilus, outside, counters>>

\* _start_batch on an update that fits into no request.
DropOversized ==
  /\ idle /\ pending # <<>> /\ worker = None
  /\ Taken = {}
  /\ pending' = Tail(pending)
  /\ waiting' = waiting \ {Head(pending)}
  /\ shown' = [shown EXCEPT ![Head(pending)] = None]
  /\ idle' = (Tail(pending) # <<>>)
  /\ UNCHANGED <<inflight, worker, answer, cache, timers, invalid, outside, counters>>

NewBatch == [i \in DOMAIN Selected |-> [file |-> Selected[i], completed |-> FALSE]]

StartBatch ==
  /\ idle /\ pending # <<>> /\ worker = None
  /\ Taken # {}
  /\ pending' = Pick(pending, DOMAIN pending \ Taken)
  /\ inflight' = NewBatch
  /\ worker' = "asking"
  /\ idle' = FALSE
  /\ UNCHANGED <<answer, cache, timers, nautilus, outside, counters>>

\* The thread does not start, and the batch is finished without an answer.
StartFails ==
  /\ idle /\ pending # <<>> /\ worker = None
  /\ Taken # {}
  /\ failures < MaxFailures /\ failures' = failures + 1
  /\ pending' = Pick(pending, DOMAIN pending \ Taken)
  /\ shown' = [f \in Files |-> IF f \in Range(Selected) THEN None ELSE shown[f]]
  /\ waiting' = waiting \ Range(Selected)
  /\ idle' = (pending' # <<>>)
  /\ UNCHANGED <<inflight, worker, answer, cache, timers, invalid, outside, returned, looks>>

\* _describe, in the thread: the service answers, or the request fails.
Describe ==
  /\ worker = "asking"
  /\ worker' = "answered"
  /\ \/ /\ answer' = Restrict(truth, Batch)
        /\ UNCHANGED failures
     \/ /\ failures < MaxFailures /\ failures' = failures + 1
        /\ answer' = <<>>
  /\ UNCHANGED <<pending, inflight, idle, cache, timers, nautilus, outside, returned, looks>>

FinishBatch ==
  /\ worker = "answered"
  /\ Finish(inflight, answer, pending)
  /\ cache' = Store(answer)
  /\ UNCHANGED <<pending, invalid, outside, counters>>

\* A mutation: the refresh leaves the cached state.
RefreshCached(f) ==
  /\ f \in timers
  /\ timers' = timers \ {f}
  /\ invalid' = invalid \cup {f}
  /\ UNCHANGED <<cache, pending, inflight, idle, worker, answer, waiting, shown, outside, counters>>

\* _refresh_state, when a timeout of _schedule_refresh is over.
RefreshState(f) ==
  /\ f \in timers
  /\ timers' = timers \ {f}
  /\ cache' = Forget(cache, f)
  /\ invalid' = invalid \cup {f}
  /\ UNCHANGED <<pending, inflight, idle, worker, answer, waiting, shown, outside, counters>>

-----------------------------------------------------------------------------
(* Actions of the menu, and the service. *)

\* get_file_items goes by the cached state s.
Offered(s) ==
  IF s # None /\ s.pinned
    THEN {"unpin"} \cup (IF s.cached \/ s.busy THEN {} ELSE {"pin"})
    ELSE {"pin", "evict"}

\* _launch, and for a pin _schedule_refresh.
Activate(f, action) ==
  /\ looks < MaxLooks /\ looks' = looks + 1
  /\ process[f] = None
  /\ \E s \in {Cached(f), None} :
       /\ action \in Offered(s)
       /\ cache' = IF s = None THEN Forget(cache, f) ELSE Use(cache, f, s)
  /\ process' = [process EXCEPT ![f] = action]
  /\ timers' = IF action = "pin" THEN timers \cup {f} ELSE timers
  /\ UNCHANGED <<pending, inflight, idle, worker, answer, nautilus, truth, returned, failures>>

\* The service carries out what the subprocess asks for, or refuses.  A pin
\* starts a hydration, which the subprocess waits for.
Pin(s) == IF s.pinned /\ s.cached THEN s ELSE [s EXCEPT !.pinned = TRUE, !.busy = TRUE]
Unpin(s, busy) == [s EXCEPT !.pinned = FALSE, !.busy = busy]
Evict(s) == IF s.pinned \/ s.busy THEN s ELSE [s EXCEPT !.cached = FALSE]

CarryOut(f) ==
  /\ process[f] \in {"pin", "unpin", "evict"}
  /\ \/ UNCHANGED truth
     \/ process[f] = "pin" /\ truth' = [truth EXCEPT ![f] = Pin(@)]
     \/ process[f] = "evict" /\ truth' = [truth EXCEPT ![f] = Evict(@)]
     \/ \E busy \in {FALSE, truth[f].busy} :
          /\ process[f] = "unpin"
          /\ truth' = [truth EXCEPT ![f] = Unpin(@, busy)]
  /\ process' = [process EXCEPT ![f] = "done"]
  /\ UNCHANGED <<extension, nautilus, counters>>

\* _action_finished: the subprocess has ended, with or without what it waited for.
ActionFinished(f) ==
  /\ process[f] = "done"
  /\ process' = [process EXCEPT ![f] = None]
  /\ cache' = Forget(cache, f)
  /\ invalid' = invalid \cup {f}
  /\ UNCHANGED <<pending, inflight, idle, worker, answer, timers, waiting, shown, truth, counters>>

\* Another program reads a file that is not cached, and a hydration ends.
ReadElsewhere(f) ==
  /\ looks < MaxLooks /\ looks' = looks + 1
  /\ ~truth[f].cached /\ ~truth[f].busy
  /\ truth' = [truth EXCEPT ![f].busy = TRUE]
  /\ UNCHANGED <<extension, nautilus, process, returned, failures>>

Hydrate(s, cached) == [s EXCEPT !.busy = FALSE, !.cached = cached]

Hydrated(f) ==
  /\ truth[f].busy
  /\ \E cached \in {TRUE, truth[f].cached} :
       truth' = [truth EXCEPT ![f] = Hydrate(@, cached)]
  /\ UNCHANGED <<extension, nautilus, process, counters>>

-----------------------------------------------------------------------------
MainLoop == StartNothing \/ DropOversized \/ StartBatch \/ StartFails \/ FinishBatch

OfUser(f) ==
  \/ Look(f) \/ CancelUpdate(f) \/ ReadElsewhere(f)
  \/ \E action \in {"pin", "unpin", "evict"} : Activate(f, action)

OfFile(f) ==
  \/ AskCached(f) \/ AskService(f) \/ RefreshState(f)
  \/ CarryOut(f) \/ ActionFinished(f) \/ Hydrated(f)

Next ==
  \/ MainLoop \/ Describe
  \/ \E f \in Files : OfFile(f)
  \/ \E f \in Used : OfUser(f)

Spec == Init /\ [][Next]_vars

\* The main loop runs its callbacks and timeouts, a request ends by its
\* timeout at the latest, Nautilus asks for what was invalidated, and a
\* hydration ends.
LiveSpec ==
  /\ Spec
  /\ WF_vars(MainLoop) /\ WF_vars(Describe)
  /\ \A f \in Files :
       /\ WF_vars(AskCached(f) \/ AskService(f))
       /\ WF_vars(RefreshState(f)) /\ WF_vars(Hydrated(f))

-----------------------------------------------------------------------------
(* Properties. *)

\* No update is lost or counted twice: Nautilus waits for the files that are
\* queued and for those of the batch whose update is open, which are others,
\* and while one is queued a batch is scheduled or on its way
\* (nautilus_extension.py:282-287, 318-346, 436-440).
UpdatesAccounted ==
  /\ waiting = Range(pending) \cup Open(inflight)
  /\ Range(pending) \cap Open(inflight) = {}
  /\ \A i, k \in DOMAIN inflight : inflight[i].file = inflight[k].file => i = k
  /\ pending # <<>> => idle \/ worker # None

\* Every update that update_file_info_full leaves in progress is completed,
\* whatever fails, is too large, is cancelled or belongs to another profile:
\* nobody asks for ever, so in the end Nautilus waits for nothing.
EveryUpdateCompletes == []<>(waiting = {})

ShowsBusy(f) == shown[f] # None /\ shown[f].busy

\* Whoever shows busy will look again: a timeout is set, Nautilus is about to
\* ask, or it waits for an answer.  Of a file whose update was cancelled while
\* its batch was on the way this is not said (nautilus_extension.py:137-158,
\* 413-430).
BusyIsWatched ==
  \A f \in Files :
    ShowsBusy(f) => f \in timers \cup invalid \cup waiting \cup returned

\* A busy emblem does not outlive the hydration, however answers, menu
\* actions and refreshes overlap; of a file whose update was cancelled while
\* its batch was on the way this is not said.
BusyPasses == []<>(\A f \in Files : ShowsBusy(f) => f \in returned)

\* The same of every file.
BusyAlwaysPasses == []<>(\A f \in Files : ~ShowsBusy(f))

=============================================================================
