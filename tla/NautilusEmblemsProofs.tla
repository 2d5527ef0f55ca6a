------------------------ MODULE NautilusEmblemsProofs ------------------------
(***************************************************************************)
(* Theorems about the emblems: the types, the account of the requests and  *)
(* the watch over every busy emblem, for any files, profiles and bounds.   *)
(***************************************************************************)
EXTENDS NautilusEmblems, FiniteSetTheorems, TLAPS

-----------------------------------------------------------------------------
(* Picking elements of a sequence. *)

\* The ranks of a finite set of indexes are 1, 2, ... up to its size.
LEMMA NthOf ==
  ASSUME NEW n \in Nat, NEW I \in SUBSET (1 .. n)
  PROVE  /\ IsFiniteSet(I)
         /\ Cardinality(I) \in 0 .. n
         /\ \A m \in 1 .. Cardinality(I) :
              /\ Nth(I, m) \in I
              /\ Cardinality({k \in I : k <= Nth(I, m)}) = m
         /\ \A i \in I : \E m \in 1 .. Cardinality(I) : Nth(I, m) = i
<1> DEFINE UpTo(i) == {k \in I : k <= i}
           c == Cardinality(I)
           rank == [i \in I |-> Cardinality(UpTo(i))]
<1>0. \A i \in I : i \in Nat
  OBVIOUS
<1>1. IsFiniteSet(I) /\ c \in 0 .. n
  <2>1. IsFiniteSet(1 .. n) /\ Cardinality(1 .. n) = n
    BY FS_Interval
  <2>2. IsFiniteSet(I) /\ c <= n
    BY <2>1, FS_Subset
  <2> QED BY <2>2, FS_CardinalityType
<1>2. \A i \in I : /\ IsFiniteSet(UpTo(i))
                   /\ Cardinality(UpTo(i)) \in 1 .. c
  <2> TAKE i \in I
  <2>1. i \in UpTo(i) /\ UpTo(i) \in SUBSET I
    BY <1>0
  <2>2. IsFiniteSet(UpTo(i)) /\ Cardinality(UpTo(i)) <= c
    BY <1>1, <2>1, FS_Subset
  <2>3. Cardinality(UpTo(i)) \in Nat
    BY <2>2, FS_CardinalityType
  <2>4. Cardinality(UpTo(i)) # 0
    BY <2>1, <2>2, FS_EmptySet
  <2> QED BY <1>1, <2>2, <2>3, <2>4
<1>3. \A i, j \in I : i < j => Cardinality(UpTo(i)) < Cardinality(UpTo(j))
  <2> SUFFICES ASSUME NEW i \in I, NEW j \in I, i < j
               PROVE  Cardinality(UpTo(i)) < Cardinality(UpTo(j))
    OBVIOUS
  <2>1. UpTo(i) \in SUBSET UpTo(j) /\ j \in UpTo(j) /\ j \notin UpTo(i)
    <3>1. i \in Nat /\ j \in Nat /\ \A k \in I : k \in Nat
      BY <1>0
    <3>2. \A k \in I : k <= i => k <= j
      BY <3>1
    <3>3. j <= j /\ ~(j <= i)
      BY <3>1
    <3> QED BY <3>2, <3>3
  <2>2. /\ Cardinality(UpTo(i)) <= Cardinality(UpTo(j))
        /\ Cardinality(UpTo(j)) = Cardinality(UpTo(i)) => UpTo(j) = UpTo(i)
    BY <1>2, <2>1, FS_Subset
  <2> QED BY <1>2, <2>1, <2>2
<1>4. \A i, j \in I : rank[i] = rank[j] => i = j
  <2> SUFFICES ASSUME NEW i \in I, NEW j \in I, rank[i] = rank[j]
               PROVE  i = j
    OBVIOUS
  <2>1. /\ Cardinality(UpTo(i)) = Cardinality(UpTo(j))
        /\ Cardinality(UpTo(i)) \in Nat
    BY <1>2
  <2>2. i \in Nat /\ j \in Nat
    BY <1>0
  <2>3. ~(i < j) /\ ~(j < i)
    BY <1>3, <2>1
  <2> QED BY <2>2, <2>3
<1>5. rank \in Injection(I, 1 .. c)
  BY <1>2, <1>4 DEF Injection, IsInjective
<1>6. IsFiniteSet(1 .. c) /\ Cardinality(1 .. c) = c
  BY <1>1, FS_Interval
<1>7. rank \in Surjection(I, 1 .. c)
  BY <1>5, <1>6, FS_Injection
<1>8. \A m \in 1 .. c : \E i \in I : Cardinality(UpTo(i)) = m
  BY <1>7 DEF Surjection
<1>9. \A m \in 1 .. c : Nth(I, m) \in I /\ Cardinality(UpTo(Nth(I, m))) = m
  BY <1>8 DEF Nth
<1>10. \A i \in I : Nth(I, Cardinality(UpTo(i))) = i
  <2> TAKE i \in I
  <2>1. Cardinality(UpTo(i)) \in 1 .. c
    BY <1>2
  <2>2. PICK k \in I : /\ k = Nth(I, Cardinality(UpTo(i)))
                       /\ Cardinality(UpTo(k)) = Cardinality(UpTo(i))
    BY <1>9, <2>1
  <2>3. rank[k] = rank[i]
    BY <2>2
  <2> QED BY <1>4, <2>2, <2>3
<1> QED BY <1>1, <1>2, <1>9, <1>10

\* What Pick returns.
LEMMA Picked ==
  ASSUME NEW S, NEW s \in Seq(S), NEW I \in SUBSET DOMAIN s
  PROVE  /\ Pick(s, I) \in Seq(S)
         /\ Len(Pick(s, I)) = Cardinality(I)
         /\ IsFiniteSet(I)
         /\ Cardinality(I) \in 0 .. Len(s)
         /\ \A n \in DOMAIN Pick(s, I) : \E i \in I : Pick(s, I)[n] = s[i]
         /\ \A i \in I : \E n \in DOMAIN Pick(s, I) : Pick(s, I)[n] = s[i]
         /\ IsInjective(s) => IsInjective(Pick(s, I))
<1> DEFINE c == Cardinality(I)
<1>1. Len(s) \in Nat /\ I \in SUBSET (1 .. Len(s))
  OBVIOUS
<1>2. /\ IsFiniteSet(I) /\ c \in 0 .. Len(s)
      /\ \A m \in 1 .. c : /\ Nth(I, m) \in I
                           /\ Cardinality({k \in I : k <= Nth(I, m)}) = m
      /\ \A i \in I : \E m \in 1 .. c : Nth(I, m) = i
  BY <1>1, NthOf
<1>3. \A m, k \in 1 .. c : Nth(I, m) = Nth(I, k) => m = k
  BY <1>2
<1> HIDE DEF c
<1>4. Pick(s, I) = [m \in 1 .. c |-> s[Nth(I, m)]]
  BY DEF Pick, c
<1>5. Pick(s, I) \in Seq(S) /\ Len(Pick(s, I)) = c
  <2>1. c \in Nat
    BY <1>1, <1>2
  <2>2. \A m \in 1 .. c : s[Nth(I, m)] \in S
    <3>1. \A i \in DOMAIN s : s[i] \in S
      OBVIOUS
    <3> QED BY <1>2, <3>1
  <2> QED BY <1>4, <2>1, <2>2
<1>6. IsInjective(s) => IsInjective(Pick(s, I))
  <2> SUFFICES ASSUME IsInjective(s), NEW m \in 1 .. c, NEW k \in 1 .. c,
                      s[Nth(I, m)] = s[Nth(I, k)]
               PROVE  m = k
    BY <1>4 DEF IsInjective
  <2>1. Nth(I, m) \in DOMAIN s /\ Nth(I, k) \in DOMAIN s
    BY <1>2
  <2>2. Nth(I, m) = Nth(I, k)
    BY <2>1 DEF IsInjective
  <2> QED BY <1>3, <2>2
<1> QED BY <1>2, <1>4, <1>5, <1>6 DEF c

\* Picking all indexes but some leaves the other elements, and of an injective
\* sequence no element is in both parts.
LEMMA PickedRange ==
  ASSUME NEW S, NEW s \in Seq(S), NEW I \in SUBSET DOMAIN s
  PROVE  /\ Range(Pick(s, I)) = {s[i] : i \in I}
         /\ Range(s) = Range(Pick(s, I)) \cup Range(Pick(s, DOMAIN s \ I))
         /\ IsInjective(s) =>
              Range(Pick(s, I)) \cap Range(Pick(s, DOMAIN s \ I)) = {}
<1>1. \A J \in SUBSET DOMAIN s : Range(Pick(s, J)) = {s[i] : i \in J}
  <2> TAKE J \in SUBSET DOMAIN s
  <2>1. /\ \A n \in DOMAIN Pick(s, J) : \E i \in J : Pick(s, J)[n] = s[i]
        /\ \A i \in J : \E n \in DOMAIN Pick(s, J) : Pick(s, J)[n] = s[i]
    BY Picked
  <2> QED BY <2>1 DEF Range
<1>2. DOMAIN s \ I \in SUBSET DOMAIN s
  OBVIOUS
<1> QED BY <1>1, <1>2 DEF Range, IsInjective

-----------------------------------------------------------------------------
(* The inductive invariant. *)

Updates == [file : Files, completed : BOOLEAN]

Entries == [file : Files, state : States]

\* The queue and the batch.
QueueOK ==
  /\ pending \in Seq(Files) /\ IsInjective(pending)
  /\ inflight \in Seq(Updates)
  /\ \A f, g \in Batch : ProfileOf[f] = ProfileOf[g]
  /\ Len(inflight) <= MaxBatch
  /\ idle \in BOOLEAN
  /\ worker \in {None, "asking", "answered"}
  /\ (worker = None) = (inflight = <<>>)
  /\ waiting \subseteq Files

\* The answer and the cache.
CacheOK ==
  /\ answer \in [DOMAIN answer -> States]
  /\ DOMAIN answer \subseteq Batch
  /\ cache \in Seq(Entries)
  /\ Len(cache) <= MaxCache

\* What Nautilus shows and the service knows.
SeenOK ==
  /\ timers \subseteq Files
  /\ invalid \subseteq Files
  /\ shown \in [Files -> States \cup {None}]
  /\ truth \in [Files -> States]

\* A busy entry of the cache is refreshed, unless a cancelled update brought it.
CacheIsWatched ==
  /\ \A i \in DOMAIN inflight : inflight[i].completed => inflight[i].file \in returned
  /\ \A i \in DOMAIN cache : cache[i].state.busy => cache[i].file \in timers \cup returned

IInv ==
  /\ QueueOK
  /\ UpdatesAccounted
  /\ CacheOK
  /\ SeenOK
  /\ CacheIsWatched
  /\ BusyIsWatched

LEMMA IInvTypes == IInv => TypeOK
  BY DEF IInv, QueueOK, CacheOK, SeenOK, UpdatesAccounted, TypeOK, Updates, Entries

LEMMA InitIInv == Init => IInv
<1> SUFFICES ASSUME Init
             PROVE  IInv
  OBVIOUS
<1> USE EmblemsAssumption
<1>1. Batch = {} /\ Open(inflight) = {} /\ Range(pending) = {}
  BY DEF Init, Batch, Open, Range
<1>2. QueueOK
  <2>1. pending \in Seq(Files) /\ IsInjective(pending)
    BY DEF Init, IsInjective
  <2>2. inflight \in Seq(Updates) /\ Len(inflight) <= MaxBatch
    BY DEF Init
  <2>3. /\ idle \in BOOLEAN /\ worker = None /\ inflight = <<>>
        /\ waiting \subseteq Files
    BY DEF Init
  <2> QED BY <1>1, <2>1, <2>2, <2>3 DEF QueueOK
<1>3. UpdatesAccounted
  BY <1>1 DEF Init, UpdatesAccounted
<1>4. CacheOK
  BY <1>1 DEF Init, CacheOK
<1>5. SeenOK
  BY DEF Init, SeenOK, States
<1>6. CacheIsWatched
  BY DEF Init, CacheIsWatched
<1>7. BusyIsWatched
  BY DEF Init, BusyIsWatched, ShowsBusy
<1> QED BY <1>2, <1>3, <1>4, <1>5, <1>6, <1>7 DEF IInv

-----------------------------------------------------------------------------
(* The batches. *)

\* The updates taken for a batch: one profile, at most MaxBatch.
LEMMA TakenIs ==
  ASSUME QueueOK
  PROVE  /\ Taken \in SUBSET DOMAIN pending
         /\ \A i, k \in Taken : ProfileOf[pending[i]] = ProfileOf[pending[k]]
         /\ Cardinality(Taken) <= MaxBatch
<1> USE EmblemsAssumption
<1> DEFINE c == Cardinality(Taken)
<1>1. Taken \in SUBSET DOMAIN pending /\ Own \in SUBSET DOMAIN pending
  BY DEF Taken, Own
<1>2. \A i, k \in Taken : ProfileOf[pending[i]] = ProfileOf[pending[k]]
  BY DEF Taken, Own
<1>3. Len(pending) \in Nat /\ DOMAIN pending = 1 .. Len(pending)
  BY DEF QueueOK
<1>4. /\ IsFiniteSet(Taken) /\ c \in Nat
      /\ \A m \in 1 .. c : /\ Nth(Taken, m) \in Taken
                           /\ Cardinality({k \in Taken : k <= Nth(Taken, m)}) = m
  BY <1>1, <1>3, NthOf
<1>5. c = 0 => c <= MaxBatch
  OBVIOUS
<1>6. c # 0 => c <= MaxBatch
  <2> HAVE c # 0
  <2> DEFINE last == Nth(Taken, c)
             upto == {k \in Own : k <= last}
             low == {k \in Taken : k <= last}
  <2>1. last \in Taken /\ Cardinality(low) = c
    BY <1>4
  <2>2. Cardinality(upto) <= MaxBatch
    BY <2>1 DEF Taken
  <2>3. upto \in SUBSET (1 .. Len(pending)) /\ low \in SUBSET upto
    BY <1>1, <1>3 DEF Taken
  <2>4. IsFiniteSet(upto) /\ Cardinality(upto) \in Nat
    BY <1>3, <2>3, NthOf
  <2>5. Cardinality(low) <= Cardinality(upto)
    BY <2>3, <2>4, FS_Subset
  <2> QED BY <1>4, <2>1, <2>2, <2>4, <2>5
<1> QED BY <1>1, <1>2, <1>5, <1>6

\* What is taken and what is left are the queue.
LEMMA ChosenIs ==
  ASSUME QueueOK,
         NEW left, left = Pick(pending, DOMAIN pending \ Taken)
  PROVE  /\ Selected \in Seq(Files) /\ IsInjective(Selected)
         /\ Len(Selected) <= MaxBatch
         /\ Taken # {} => Selected # <<>>
         /\ \A f, g \in Range(Selected) : ProfileOf[f] = ProfileOf[g]
         /\ left \in Seq(Files) /\ IsInjective(left)
         /\ Range(pending) = Range(Selected) \cup Range(left)
         /\ Range(Selected) \cap Range(left) = {}
<1>1. /\ Taken \in SUBSET DOMAIN pending
      /\ \A i, k \in Taken : ProfileOf[pending[i]] = ProfileOf[pending[k]]
      /\ Cardinality(Taken) <= MaxBatch
  BY TakenIs
<1>2. /\ pending \in Seq(Files) /\ IsInjective(pending)
      /\ DOMAIN pending \ Taken \in SUBSET DOMAIN pending
  BY DEF QueueOK
<1>3. /\ Selected \in Seq(Files) /\ IsInjective(Selected)
      /\ Len(Selected) = Cardinality(Taken)
      /\ IsFiniteSet(Taken)
  BY <1>1, <1>2, Picked DEF Selected
<1>4. left \in Seq(Files) /\ IsInjective(left)
  BY <1>2, Picked
<1>5. Taken # {} => Selected # <<>>
  BY <1>3, FS_EmptySet
<1>6. /\ Range(Selected) = {pending[i] : i \in Taken}
      /\ Range(pending) = Range(Selected) \cup Range(left)
      /\ Range(Selected) \cap Range(left) = {}
  BY <1>1, <1>2, PickedRange DEF Selected
<1>7. \A f, g \in Range(Selected) : ProfileOf[f] = ProfileOf[g]
  BY <1>1, <1>6
<1>8. Len(Selected) <= MaxBatch
  BY <1>1, <1>3
<1> QED BY <1>3, <1>4, <1>5, <1>6, <1>7, <1>8

\* A new batch has the selected files, all of them open.
LEMMA NewBatchIs ==
  ASSUME QueueOK
  PROVE  /\ NewBatch \in Seq(Updates)
         /\ Len(NewBatch) = Len(Selected)
         /\ DOMAIN NewBatch = DOMAIN Selected
         /\ \A i \in DOMAIN NewBatch : /\ NewBatch[i].file = Selected[i]
                                       /\ NewBatch[i].completed = FALSE
         /\ Open(NewBatch) = Range(Selected)
<1>1. Selected \in Seq(Files)
  BY ChosenIs
<1>2. /\ NewBatch \in Seq(Updates)
      /\ Len(NewBatch) = Len(Selected)
      /\ DOMAIN NewBatch = DOMAIN Selected
  <2>1. \A i \in DOMAIN Selected :
          [file |-> Selected[i], completed |-> FALSE] \in Updates
    BY <1>1 DEF Updates
  <2>2. DOMAIN Selected = 1 .. Len(Selected) /\ Len(Selected) \in Nat
    BY <1>1
  <2> QED BY <2>1, <2>2 DEF NewBatch
<1>3. \A i \in DOMAIN NewBatch : /\ NewBatch[i].file = Selected[i]
                                 /\ NewBatch[i].completed = FALSE
  BY <1>2 DEF NewBatch
<1> QED BY <1>2, <1>3 DEF Open, Range

\* Completing the update of a file.
LEMMA CompletedIs ==
  ASSUME NEW f, inflight \in Seq(Updates)
  PROVE  /\ Completed(f) \in Seq(Updates)
         /\ Len(Completed(f)) = Len(inflight)
         /\ DOMAIN Completed(f) = DOMAIN inflight
         /\ \A i \in DOMAIN inflight :
              /\ Completed(f)[i].file = inflight[i].file
              /\ Completed(f)[i].completed =
                   (inflight[i].completed \/ inflight[i].file = f)
         /\ Open(Completed(f)) = Open(inflight) \ {f}
<1>1. \A i \in DOMAIN inflight : inflight[i] \in Updates
  OBVIOUS
<1>2. /\ Completed(f) \in Seq(Updates)
      /\ Len(Completed(f)) = Len(inflight)
      /\ DOMAIN Completed(f) = DOMAIN inflight
  <2>1. \A i \in DOMAIN inflight :
          [inflight[i] EXCEPT !.completed = TRUE] \in Updates
    BY <1>1 DEF Updates
  <2>2. DOMAIN inflight = 1 .. Len(inflight) /\ Len(inflight) \in Nat
    OBVIOUS
  <2>3. \A i \in DOMAIN inflight : Completed(f)[i] \in Updates
    BY <1>1, <2>1 DEF Completed
  <2>4. Completed(f) = [i \in 1 .. Len(inflight) |-> Completed(f)[i]]
    BY <2>2 DEF Completed
  <2> QED BY <2>2, <2>3, <2>4
<1>3. \A i \in DOMAIN inflight :
        /\ Completed(f)[i].file = inflight[i].file
        /\ Completed(f)[i].completed = (inflight[i].completed \/ inflight[i].file = f)
  BY <1>1 DEF Completed, Updates
<1> QED BY <1>2, <1>3 DEF Open

-----------------------------------------------------------------------------
(* The queue and the account of the updates. *)

\* The steps that leave the queue and the batch alone.
LEMMA QuietQueue ==
  ASSUME QueueOK, UpdatesAccounted,
         UNCHANGED <<pending, inflight, idle, worker, waiting>>
  PROVE  QueueOK' /\ UpdatesAccounted'
<1>1. Batch' = Batch /\ Open(inflight)' = Open(inflight)
  BY DEF Batch, Open
<1> QED BY <1>1 DEF QueueOK, UpdatesAccounted

\* An idle extension without a thread has no batch.
LEMMA NoBatch ==
  ASSUME QueueOK, worker = None
  PROVE  inflight = <<>> /\ Batch = {} /\ Open(inflight) = {}
  BY DEF QueueOK, Batch, Open

LEMMA AskServiceQueue ==
  ASSUME QueueOK, UpdatesAccounted, NEW f \in Files, AskService(f)
  PROVE  QueueOK' /\ UpdatesAccounted'
<1>1. /\ pending' = Append(pending, f) /\ waiting' = waiting \cup {f}
      /\ idle' = (idle \/ worker = None)
      /\ inflight' = inflight /\ worker' = worker /\ f \notin waiting
  BY DEF AskService
<1>2. Batch' = Batch /\ Open(inflight)' = Open(inflight)
  BY <1>1 DEF Batch, Open
<1>3. f \notin Range(pending) /\ f \notin Open(inflight)
  BY <1>1 DEF UpdatesAccounted
<1>4. /\ pending' \in Seq(Files) /\ IsInjective(pending')
      /\ Range(pending)' = Range(pending) \cup {f}
  <2>1. /\ pending \in Seq(Files) /\ Len(pending) \in Nat
        /\ DOMAIN pending = 1 .. Len(pending)
        /\ \A i, k \in 1 .. Len(pending) : pending[i] = pending[k] => i = k
        /\ \A i \in 1 .. Len(pending) : pending[i] # f
    BY <1>3 DEF QueueOK, IsInjective, Range
  <2>2. /\ pending' \in Seq(Files)
        /\ DOMAIN pending' = 1 .. Len(pending) + 1
        /\ \A i \in 1 .. Len(pending) : pending'[i] = pending[i]
        /\ pending'[Len(pending) + 1] = f
    BY <1>1, <2>1
  <2>3. IsInjective(pending')
    <3> SUFFICES ASSUME NEW i \in 1 .. Len(pending) + 1, NEW k \in 1 .. Len(pending) + 1,
                        pending'[i] = pending'[k]
                 PROVE  i = k
      BY <2>2 DEF IsInjective
    <3>1. i \in 1 .. Len(pending) \/ i = Len(pending) + 1
      BY <2>1
    <3>2. k \in 1 .. Len(pending) \/ k = Len(pending) + 1
      BY <2>1
    <3> QED BY <2>1, <2>2, <3>1, <3>2
  <2>4. \A i \in 1 .. Len(pending) + 1 : i \in 1 .. Len(pending) \/ i = Len(pending) + 1
    BY <2>1
  <2>5. 1 .. Len(pending) \subseteq 1 .. Len(pending) + 1
        /\ Len(pending) + 1 \in 1 .. Len(pending) + 1
    BY <2>1
  <2>6. Range(pending)' = Range(pending) \cup {f}
    BY <2>1, <2>2, <2>4, <2>5 DEF Range
  <2> QED BY <2>2, <2>3, <2>6
<1>5. QueueOK'
  BY <1>1, <1>2, <1>4 DEF QueueOK
<1>6. waiting' = Range(pending)' \cup Open(inflight)'
  BY <1>1, <1>2, <1>4 DEF UpdatesAccounted
<1>7. Range(pending)' \cap Open(inflight)' = {}
  BY <1>2, <1>3, <1>4 DEF UpdatesAccounted
<1>8. /\ \A i, k \in DOMAIN inflight' : inflight'[i].file = inflight'[k].file => i = k
      /\ idle' \/ worker' # None
  BY <1>1 DEF UpdatesAccounted
<1> QED BY <1>5, <1>6, <1>7, <1>8 DEF UpdatesAccounted

LEMMA CancelUpdateQueue ==
  ASSUME QueueOK, UpdatesAccounted, NEW f \in Files, CancelUpdate(f)
  PROVE  QueueOK' /\ UpdatesAccounted'
<1>1. /\ f \in waiting /\ waiting' = waiting \ {f}
      /\ idle' = idle /\ worker' = worker
  BY DEF CancelUpdate
<1>2. CASE f \in Range(pending)
  <2> DEFINE kept == {i \in DOMAIN pending : pending[i] # f}
  <2>1. inflight' = inflight /\ pending' = Pick(pending, kept)
    BY <1>2 DEF CancelUpdate
  <2>2. Batch' = Batch /\ Open(inflight)' = Open(inflight)
    BY <2>1 DEF Batch, Open
  <2>3. kept \in SUBSET DOMAIN pending /\ pending \in Seq(Files) /\ IsInjective(pending)
    BY DEF QueueOK
  <2>4. pending' \in Seq(Files) /\ IsInjective(pending')
    BY <2>1, <2>3, Picked
  <2>5. Range(pending)' = Range(pending) \ {f}
    <3> HIDE DEF kept
    <3>1. /\ \A n \in DOMAIN pending' : \E i \in kept : pending'[n] = pending[i]
          /\ \A i \in kept : \E n \in DOMAIN pending' : pending'[n] = pending[i]
      BY <2>1, <2>3, Picked
    <3>2. Range(pending)' = {pending[i] : i \in kept}
      BY <3>1 DEF Range
    <3> QED BY <3>2 DEF Range, kept
  <2>6. QueueOK'
    BY <1>1, <2>1, <2>2, <2>4 DEF QueueOK
  <2>7. /\ waiting' = Range(pending)' \cup Open(inflight)'
        /\ Range(pending)' \cap Open(inflight)' = {}
    BY <1>1, <1>2, <2>2, <2>5 DEF UpdatesAccounted
  <2>8. pending # <<>>
    BY <1>2 DEF Range
  <2>9. idle' \/ worker' # None
    BY <1>1, <2>8 DEF UpdatesAccounted
  <2> QED BY <2>1, <2>6, <2>7, <2>9 DEF UpdatesAccounted
<1>3. CASE f \notin Range(pending)
  <2>1. inflight' = Completed(f) /\ pending' = pending
    BY <1>3 DEF CancelUpdate
  <2>2. /\ inflight' \in Seq(Updates)
        /\ Len(inflight') = Len(inflight)
        /\ DOMAIN inflight' = DOMAIN inflight
        /\ \A i \in DOMAIN inflight : inflight'[i].file = inflight[i].file
        /\ Open(inflight') = Open(inflight) \ {f}
    BY <2>1, CompletedIs DEF QueueOK
  <2>3. Batch' = Batch
    BY <2>2 DEF Batch
  <2>4. (inflight' = <<>>) = (inflight = <<>>)
    <3>1. inflight \in Seq(Updates)
      BY DEF QueueOK
    <3> QED BY <2>2, <3>1
  <2>5. QueueOK'
    BY <1>1, <2>1, <2>2, <2>3, <2>4 DEF QueueOK
  <2>6. /\ waiting' = Range(pending)' \cup Open(inflight)'
        /\ Range(pending)' \cap Open(inflight)' = {}
    BY <1>1, <1>3, <2>1, <2>2 DEF UpdatesAccounted
  <2>7. \A i, k \in DOMAIN inflight' : inflight'[i].file = inflight'[k].file => i = k
    BY <2>2 DEF UpdatesAccounted
  <2>8. pending' # <<>> => idle' \/ worker' # None
    BY <1>1, <2>1 DEF UpdatesAccounted
  <2> QED BY <2>5, <2>6, <2>7, <2>8 DEF UpdatesAccounted
<1> QED BY <1>2, <1>3

LEMMA DropOversizedQueue ==
  ASSUME QueueOK, UpdatesAccounted, DropOversized
  PROVE  /\ QueueOK' /\ UpdatesAccounted'
         /\ Head(pending) \in Range(pending)
<1>1. /\ pending # <<>> /\ worker = None
      /\ pending' = Tail(pending) /\ waiting' = waiting \ {Head(pending)}
      /\ idle' = (Tail(pending) # <<>>) /\ inflight' = inflight /\ worker' = worker
  BY DEF DropOversized
<1>2. inflight = <<>> /\ Batch' = Batch /\ Open(inflight) = {} /\ Open(inflight)' = {}
  BY <1>1, NoBatch DEF Batch, Open
<1>3. /\ pending \in Seq(Files) /\ Len(pending) \in Nat /\ Len(pending) > 0
      /\ DOMAIN pending = 1 .. Len(pending)
      /\ \A i, k \in 1 .. Len(pending) : pending[i] = pending[k] => i = k
  BY <1>1 DEF QueueOK, IsInjective
<1>4. /\ pending' \in Seq(Files)
      /\ DOMAIN pending' = 1 .. Len(pending) - 1
      /\ \A i \in 1 .. Len(pending) - 1 : pending'[i] = pending[i + 1]
      /\ Head(pending) = pending[1]
  BY <1>1, <1>3
<1>5. IsInjective(pending')
  <2> SUFFICES ASSUME NEW i \in 1 .. Len(pending) - 1, NEW k \in 1 .. Len(pending) - 1,
                      pending'[i] = pending'[k]
               PROVE  i = k
    BY <1>4 DEF IsInjective
  <2>1. i + 1 \in 1 .. Len(pending) /\ k + 1 \in 1 .. Len(pending)
    BY <1>3
  <2>2. i + 1 = k + 1
    BY <1>3, <1>4, <2>1
  <2> QED BY <2>2
<1>6. Range(pending)' = Range(pending) \ {Head(pending)}
  <2>1. 1 \in 1 .. Len(pending)
    BY <1>3
  <2>2. \A i \in 1 .. Len(pending) - 1 :
          i + 1 \in 1 .. Len(pending) /\ i + 1 # 1 /\ pending'[i] = pending[i + 1]
    BY <1>3, <1>4
  <2>3. \A i \in 1 .. Len(pending) - 1 : pending'[i] \in Range(pending) \ {Head(pending)}
    BY <1>3, <1>4, <2>1, <2>2 DEF Range
  <2>4. \A i \in 1 .. Len(pending) :
          pending[i] # Head(pending) => \E k \in 1 .. Len(pending) - 1 : pending'[k] = pending[i]
    <3> SUFFICES ASSUME NEW i \in 1 .. Len(pending), pending[i] # Head(pending)
                 PROVE  \E k \in 1 .. Len(pending) - 1 : pending'[k] = pending[i]
      OBVIOUS
    <3>1. i # 1
      BY <1>4
    <3>2. i - 1 \in 1 .. Len(pending) - 1 /\ (i - 1) + 1 = i
      BY <1>3, <3>1
    <3>3. pending'[i - 1] = pending[i]
      BY <2>2, <3>2
    <3> QED BY <3>2, <3>3
  <2>5. Range(pending)' \subseteq Range(pending) \ {Head(pending)}
    BY <1>4, <2>3 DEF Range
  <2>6. Range(pending) \ {Head(pending)} \subseteq Range(pending)'
    <3> SUFFICES ASSUME NEW i \in 1 .. Len(pending), pending[i] # Head(pending)
                 PROVE  pending[i] \in Range(pending')
      BY <1>3 DEF Range
    <3> QED BY <1>4, <2>4 DEF Range
  <2> QED BY <2>5, <2>6
<1>7. QueueOK'
  BY <1>1, <1>2, <1>4, <1>5 DEF QueueOK
<1>8. Head(pending) \in Range(pending)
  BY <1>3, <1>4 DEF Range
<1>9. UpdatesAccounted'
  BY <1>1, <1>2, <1>6 DEF UpdatesAccounted
<1> QED BY <1>7, <1>8, <1>9

LEMMA StartBatchQueue ==
  ASSUME QueueOK, UpdatesAccounted, StartBatch
  PROVE  QueueOK' /\ UpdatesAccounted'
<1> USE EmblemsAssumption
<1>1. /\ Taken # {} /\ worker = None
      /\ pending' = Pick(pending, DOMAIN pending \ Taken)
      /\ inflight' = NewBatch /\ worker' = "asking" /\ idle' = FALSE
      /\ waiting' = waiting
  BY DEF StartBatch, nautilus
<1>2. inflight = <<>> /\ Open(inflight) = {}
  BY <1>1, NoBatch
<1>3. /\ Selected \in Seq(Files) /\ IsInjective(Selected)
      /\ Len(Selected) <= MaxBatch
      /\ Selected # <<>>
      /\ \A f, g \in Range(Selected) : ProfileOf[f] = ProfileOf[g]
      /\ pending' \in Seq(Files) /\ IsInjective(pending')
      /\ Range(pending) = Range(Selected) \cup Range(pending')
      /\ Range(Selected) \cap Range(pending') = {}
  BY <1>1, ChosenIs
<1>4. /\ inflight' \in Seq(Updates)
      /\ Len(inflight') = Len(Selected)
      /\ DOMAIN inflight' = DOMAIN Selected
      /\ \A i \in DOMAIN inflight' : inflight'[i].file = Selected[i]
      /\ Open(inflight') = Range(Selected)
  BY <1>1, NewBatchIs
<1>5. Batch' = Range(Selected)
  BY <1>4 DEF Batch, Range
<1>6. inflight' # <<>> /\ worker' # None
  BY <1>1, <1>3, <1>4
<1>7. QueueOK'
  BY <1>1, <1>3, <1>4, <1>5, <1>6 DEF QueueOK
<1>8. \A i, k \in DOMAIN inflight' : inflight'[i].file = inflight'[k].file => i = k
  BY <1>3, <1>4 DEF IsInjective
<1>9. /\ waiting' = Range(pending') \cup Open(inflight')
      /\ Range(pending') \cap Open(inflight') = {}
  BY <1>1, <1>2, <1>3, <1>4 DEF UpdatesAccounted
<1>10. UpdatesAccounted'
  BY <1>6, <1>8, <1>9 DEF UpdatesAccounted
<1> QED BY <1>7, <1>10

LEMMA StartFailsQueue ==
  ASSUME QueueOK, UpdatesAccounted, StartFails
  PROVE  QueueOK' /\ UpdatesAccounted'
<1>1. /\ Taken # {} /\ worker = None
      /\ pending' = Pick(pending, DOMAIN pending \ Taken)
      /\ waiting' = waiting \ Range(Selected)
      /\ idle' = (pending' # <<>>)
      /\ inflight' = inflight /\ worker' = worker
  BY DEF StartFails
<1>2. inflight = <<>> /\ Batch' = Batch /\ Open(inflight) = {} /\ Open(inflight)' = {}
  BY <1>1, NoBatch DEF Batch, Open
<1>3. /\ pending' \in Seq(Files) /\ IsInjective(pending')
      /\ Range(pending) = Range(Selected) \cup Range(pending')
      /\ Range(Selected) \cap Range(pending') = {}
  BY <1>1, ChosenIs
<1>4. QueueOK'
  BY <1>1, <1>2, <1>3 DEF QueueOK
<1>5. waiting' = Range(pending')
  BY <1>1, <1>2, <1>3 DEF UpdatesAccounted
<1>6. UpdatesAccounted'
  BY <1>1, <1>2, <1>5 DEF UpdatesAccounted
<1> QED BY <1>4, <1>6

LEMMA FinishBatchQueue ==
  ASSUME QueueOK, UpdatesAccounted, FinishBatch
  PROVE  QueueOK' /\ UpdatesAccounted'
<1> USE EmblemsAssumption
<1>1. /\ pending' = pending /\ inflight' = <<>> /\ worker' = None
      /\ waiting' = waiting \ Open(inflight)
      /\ idle' = (idle \/ pending # <<>>)
  BY DEF FinishBatch, Finish
<1>2. Batch' = {} /\ Open(inflight)' = {}
  BY <1>1 DEF Batch, Open
<1>3. inflight' \in Seq(Updates) /\ Len(inflight') = 0
  BY <1>1
<1>4. QueueOK'
  BY <1>1, <1>2, <1>3 DEF QueueOK
<1>5. waiting' = Range(pending)
  BY <1>1 DEF UpdatesAccounted
<1>6. Range(pending)' = Range(pending)
  BY <1>1 DEF Range
<1>7. \A i, k \in DOMAIN inflight' : inflight'[i].file = inflight'[k].file => i = k
  BY <1>1
<1>8. UpdatesAccounted'
  BY <1>1, <1>2, <1>5, <1>6, <1>7 DEF UpdatesAccounted
<1> QED BY <1>4, <1>8

\* The steps that change the order of the thread and the main loop only.
LEMMA TurnQueue ==
  ASSUME QueueOK, UpdatesAccounted, StartNothing \/ Describe
  PROVE  QueueOK' /\ UpdatesAccounted'
<1> USE EmblemsAssumption
<1>1. UNCHANGED <<pending, inflight, waiting>>
  BY DEF StartNothing, Describe, nautilus
<1>2. Batch' = Batch /\ Open(inflight)' = Open(inflight)
  BY <1>1 DEF Batch, Open
<1>3. CASE StartNothing
  <2>1. /\ pending = <<>> \/ worker # None
        /\ idle' = FALSE /\ worker' = worker
    BY <1>3 DEF StartNothing
  <2> QED BY <1>1, <1>2, <2>1 DEF QueueOK, UpdatesAccounted
<1>4. CASE Describe
  <2>1. worker = "asking" /\ worker' = "answered" /\ idle' = idle
    BY <1>4 DEF Describe
  <2> QED BY <1>1, <1>2, <2>1 DEF QueueOK, UpdatesAccounted
<1> QED BY <1>3, <1>4

\* The steps of the menu, the cache and the service that the queue does not notice.
Quiet(f) ==
  \/ Look(f) \/ AskCached(f) \/ RefreshState(f) \/ CarryOut(f)
  \/ ActionFinished(f) \/ ReadElsewhere(f) \/ Hydrated(f)
  \/ \E action \in {"pin", "unpin", "evict"} : Activate(f, action)

LEMMA EveryStep ==
  ASSUME [Next]_vars
  PROVE  \/ StartNothing \/ DropOversized \/ StartBatch \/ StartFails
         \/ FinishBatch \/ Describe
         \/ \E f \in Files : AskService(f) \/ CancelUpdate(f) \/ Quiet(f)
         \/ UNCHANGED vars
  BY EmblemsAssumption DEF Next, MainLoop, OfFile, OfUser, Quiet

LEMMA QuietLeaves ==
  ASSUME NEW f \in Files, Quiet(f)
  PROVE  UNCHANGED <<pending, inflight, idle, worker, waiting, answer, returned>>
<1>1. CASE Look(f)
  BY <1>1 DEF Look, extension
<1>2. CASE AskCached(f)
  BY <1>2 DEF AskCached, counters
<1>3. CASE RefreshState(f)
  BY <1>3 DEF RefreshState, counters
<1>4. CASE CarryOut(f)
  BY <1>4 DEF CarryOut, extension, nautilus, counters
<1>5. CASE ActionFinished(f)
  BY <1>5 DEF ActionFinished, counters
<1>6. CASE ReadElsewhere(f)
  BY <1>6 DEF ReadElsewhere, extension, nautilus
<1>7. CASE Hydrated(f)
  BY <1>7 DEF Hydrated, extension, nautilus, counters
<1>8. CASE \E action \in {"pin", "unpin", "evict"} : Activate(f, action)
  BY <1>8 DEF Activate, nautilus
<1> QED BY <1>1, <1>2, <1>3, <1>4, <1>5, <1>6, <1>7, <1>8 DEF Quiet

LEMMA QueueStep ==
  ASSUME IInv, [Next]_vars
  PROVE  QueueOK' /\ UpdatesAccounted'
<1>1. QueueOK /\ UpdatesAccounted
  BY DEF IInv
<1>2. CASE \E f \in Files : AskService(f) \/ CancelUpdate(f) \/ Quiet(f)
  BY <1>1, <1>2, AskServiceQueue, CancelUpdateQueue, QuietLeaves, QuietQueue
<1>3. CASE UNCHANGED vars
  BY <1>1, <1>3, QuietQueue DEF vars, extension, nautilus
<1> QED
  BY <1>1, <1>2, <1>3, EveryStep, TurnQueue, DropOversizedQueue, StartBatchQueue,
     StartFailsQueue, FinishBatchQueue

-----------------------------------------------------------------------------
(* The cache. *)

\* Forgetting a file leaves entries of the cache, none of them of the file.
LEMMA Forgotten ==
  ASSUME NEW f, cache \in Seq(Entries)
  PROVE  /\ Forget(cache, f) \in Seq(Entries)
         /\ Len(Forget(cache, f)) <= Len(cache)
         /\ (\E i \in DOMAIN cache : cache[i].file = f) =>
              Len(Forget(cache, f)) < Len(cache)
         /\ \A n \in DOMAIN Forget(cache, f) :
              \E i \in DOMAIN cache : /\ Forget(cache, f)[n] = cache[i]
                                      /\ cache[i].file # f
<1> DEFINE kept == {i \in DOMAIN cache : cache[i].file # f}
           c == Forget(cache, f)
<1>1. kept \in SUBSET DOMAIN cache /\ c = Pick(cache, kept)
  BY DEF Forget
<1>2. Len(cache) \in Nat /\ DOMAIN cache = 1 .. Len(cache)
  OBVIOUS
<1>3. /\ c \in Seq(Entries) /\ Len(c) = Cardinality(kept) /\ IsFiniteSet(kept)
      /\ Cardinality(kept) \in 0 .. Len(cache)
      /\ \A n \in DOMAIN c : \E i \in kept : c[n] = cache[i]
  <2> HIDE DEF kept, c
  <2> QED BY <1>1, Picked
<1>4. (\E i \in DOMAIN cache : cache[i].file = f) => Len(c) < Len(cache)
  <2> HAVE \E i \in DOMAIN cache : cache[i].file = f
  <2>1. kept # DOMAIN cache
    OBVIOUS
  <2>2. IsFiniteSet(DOMAIN cache) /\ Cardinality(DOMAIN cache) = Len(cache)
    <3>1. IsFiniteSet(1 .. Len(cache)) /\ Cardinality(1 .. Len(cache)) = Len(cache)
      <4>1. \A n \in Nat : IsFiniteSet(1 .. n) /\ Cardinality(1 .. n) = n
        BY FS_Interval
      <4> QED BY <1>2, <4>1
    <3> QED BY <1>2, <3>1
  <2>3. Cardinality(kept) # Len(cache)
    BY <1>1, <2>1, <2>2, FS_Subset
  <2> QED BY <1>2, <1>3, <2>3
<1> QED BY <1>2, <1>3, <1>4

\* The cached state of a file is that of an entry.
LEMMA CachedIs ==
  ASSUME NEW f, cache \in Seq(Entries), Cached(f) # None
  PROVE  \E i \in DOMAIN cache : cache[i].file = f /\ cache[i].state = Cached(f)
  BY DEF Cached

\* Using a cached state moves its entry to the end.
LEMMA UsedIs ==
  ASSUME NEW f \in Files, CacheOK, Cached(f) # None
  PROVE  /\ Cached(f) \in States
         /\ Use(cache, f, Cached(f)) \in Seq(Entries)
         /\ Len(Use(cache, f, Cached(f))) <= MaxCache
         /\ \A n \in DOMAIN Use(cache, f, Cached(f)) :
              \E i \in DOMAIN cache :
                /\ Use(cache, f, Cached(f))[n].file = cache[i].file
                /\ Use(cache, f, Cached(f))[n].state = cache[i].state
<1> DEFINE rest == Forget(cache, f)
           last == [file |-> f, state |-> Cached(f)]
<1>1. cache \in Seq(Entries) /\ Len(cache) \in Nat /\ Len(cache) <= MaxCache
  BY DEF CacheOK
<1>2. PICK h \in DOMAIN cache : cache[h].file = f /\ cache[h].state = Cached(f)
  BY <1>1, CachedIs
<1>3. cache[h] \in Entries
  BY <1>1
<1>4. Cached(f) \in States /\ last \in Entries
  BY <1>2, <1>3 DEF Entries
<1>5. /\ rest \in Seq(Entries) /\ Len(rest) < Len(cache)
      /\ \A n \in DOMAIN rest : \E i \in DOMAIN cache : rest[n] = cache[i]
  BY <1>1, <1>2, Forgotten
<1> HIDE DEF rest, last
<1>6. Use(cache, f, Cached(f)) = Append(rest, last)
  BY DEF Use, rest, last
<1>7. /\ Append(rest, last) \in Seq(Entries)
      /\ Len(Append(rest, last)) <= MaxCache
  BY <1>1, <1>4, <1>5, EmblemsAssumption
<1>8. ASSUME NEW n \in DOMAIN Append(rest, last)
      PROVE  \E i \in DOMAIN cache : /\ Append(rest, last)[n].file = cache[i].file
                                     /\ Append(rest, last)[n].state = cache[i].state
  <2>1. n \in DOMAIN rest \/ Append(rest, last)[n] = last
    BY <1>4, <1>5
  <2>2. CASE n \in DOMAIN rest
    <3>1. Append(rest, last)[n] = rest[n]
      BY <1>4, <1>5, <2>2
    <3> QED BY <1>5, <2>2, <3>1
  <2>3. CASE Append(rest, last)[n] = last
    BY <1>2, <2>3 DEF last
  <2> QED BY <2>1, <2>2, <2>3
<1> QED BY <1>4, <1>6, <1>7, <1>8

\* Storing an answer keeps entries of other files and adds those of the answer.
LEMMA StoredIs ==
  ASSUME CacheOK, QueueOK
  PROVE  /\ Store(answer) \in Seq(Entries)
         /\ Len(Store(answer)) <= MaxCache
         /\ \A n \in DOMAIN Store(answer) :
              \/ \E i \in DOMAIN cache : Store(answer)[n] = cache[i]
              \/ /\ Store(answer)[n].file \in DOMAIN answer
                 /\ Store(answer)[n].state = answer[Store(answer)[n].file]
<1> USE EmblemsAssumption
<1> DEFINE old == {i \in DOMAIN cache : cache[i].file \notin DOMAIN answer}
           new == {i \in DOMAIN inflight : inflight[i].file \in DOMAIN answer}
           kept == Pick(cache, old)
           answered == Pick(inflight, new)
           fresh == [i \in DOMAIN answered |->
                       [file |-> answered[i].file, state |-> answer[answered[i].file]]]
           all == kept \o fresh
           excess == IF Len(all) > MaxCache THEN Len(all) - MaxCache ELSE 0
<1>1. /\ cache \in Seq(Entries) /\ old \in SUBSET DOMAIN cache
      /\ inflight \in Seq(Updates) /\ new \in SUBSET DOMAIN inflight
      /\ \A g \in DOMAIN answer : g \in Files /\ answer[g] \in States
  <2>1. inflight \in Seq(Updates)
    BY DEF QueueOK
  <2>2. \A i \in DOMAIN inflight : inflight[i].file \in Files
    <3>1. \A i \in DOMAIN inflight : inflight[i] \in Updates
      BY <2>1
    <3> QED BY <3>1 DEF Updates
  <2>3. Batch \subseteq Files
    BY <2>2 DEF Batch
  <2> QED BY <2>1, <2>3 DEF CacheOK
<1>2. /\ kept \in Seq(Entries)
      /\ \A n \in DOMAIN kept : \E i \in DOMAIN cache : kept[n] = cache[i]
  <2> HIDE DEF old
  <2>1. /\ kept \in Seq(Entries)
        /\ \A n \in DOMAIN kept : \E i \in old : kept[n] = cache[i]
    BY <1>1, Picked
  <2> QED BY <1>1, <2>1
<1>3. /\ answered \in Seq(Updates)
      /\ \A n \in DOMAIN answered : answered[n].file \in DOMAIN answer
  <2>1. /\ answered \in Seq(Updates)
        /\ \A n \in DOMAIN answered : \E i \in new : answered[n] = inflight[i]
    BY <1>1, Picked
  <2> QED BY <2>1
<1> HIDE DEF old, new, kept, answered
<1>4. \A n \in DOMAIN answered :
        [file |-> answered[n].file, state |-> answer[answered[n].file]] \in Entries
  BY <1>1, <1>3 DEF Entries
<1>5. /\ DOMAIN answered = 1 .. Len(answered) /\ Len(answered) \in Nat
  BY <1>3
<1>6. fresh \in Seq(Entries)
  BY <1>4, <1>5
<1>7. \A n \in DOMAIN fresh : /\ fresh[n].file \in DOMAIN answer
                              /\ fresh[n].state = answer[fresh[n].file]
  BY <1>3, <1>5
<1> HIDE DEF fresh
<1>8. /\ all \in Seq(Entries) /\ Len(all) \in Nat
      /\ \A n \in 1 .. Len(all) : \/ \E k \in DOMAIN kept : all[n] = kept[k]
                                  \/ \E k \in DOMAIN fresh : all[n] = fresh[k]
  <2>1. /\ all \in Seq(Entries) /\ Len(all) = Len(kept) + Len(fresh)
        /\ Len(kept) \in Nat /\ Len(fresh) \in Nat
    BY <1>2, <1>6
  <2>2. ASSUME NEW n \in 1 .. Len(all)
        PROVE  \/ \E k \in DOMAIN kept : all[n] = kept[k]
               \/ \E k \in DOMAIN fresh : all[n] = fresh[k]
    <3>1. CASE n <= Len(kept)
      BY <1>2, <1>6, <2>1, <3>1
    <3>2. CASE n > Len(kept)
      <4>1. n - Len(kept) \in DOMAIN fresh
        BY <1>6, <2>1, <3>2
      <4>2. all[n] = fresh[n - Len(kept)]
        BY <1>2, <1>6, <2>1, <3>2
      <4> QED BY <4>1, <4>2
    <3> QED BY <2>1, <3>1, <3>2
  <2> QED BY <2>1, <2>2
<1> HIDE DEF all
<1>9. excess \in Nat /\ excess <= Len(all) /\ Len(all) - excess <= MaxCache
  BY <1>8
<1> HIDE DEF excess
<1>10. Store(answer) = SubSeq(all, excess + 1, Len(all))
  BY DEF Store, all, excess, kept, fresh, answered, old, new
<1>11. /\ Store(answer) \in Seq(Entries)
       /\ Len(Store(answer)) = Len(all) - excess
       /\ \A n \in DOMAIN Store(answer) :
            n + excess \in 1 .. Len(all) /\ Store(answer)[n] = all[n + excess]
  BY <1>8, <1>9, <1>10
<1>12. ASSUME NEW n \in DOMAIN Store(answer)
       PROVE  \/ \E i \in DOMAIN cache : Store(answer)[n] = cache[i]
              \/ /\ Store(answer)[n].file \in DOMAIN answer
                 /\ Store(answer)[n].state = answer[Store(answer)[n].file]
  <2>1. \/ \E k \in DOMAIN kept : Store(answer)[n] = kept[k]
        \/ \E k \in DOMAIN fresh : Store(answer)[n] = fresh[k]
    BY <1>8, <1>11
  <2>2. CASE \E k \in DOMAIN kept : Store(answer)[n] = kept[k]
    BY <1>2, <2>2
  <2>3. CASE \E k \in DOMAIN fresh : Store(answer)[n] = fresh[k]
    BY <1>7, <2>3
  <2> QED BY <2>1, <2>2, <2>3
<1> QED BY <1>9, <1>11, <1>12

LEMMA CacheStays ==
  ASSUME CacheOK, CacheIsWatched,
         UNCHANGED <<cache, inflight, answer, returned>>, timers \subseteq timers'
  PROVE  CacheOK' /\ CacheIsWatched'
<1>1. Batch' = Batch
  BY DEF Batch
<1> QED BY <1>1 DEF CacheOK, CacheIsWatched

LEMMA CacheForgets ==
  ASSUME CacheOK, CacheIsWatched, NEW f, cache' = Forget(cache, f),
         UNCHANGED <<inflight, answer, returned>>, timers \ {f} \subseteq timers'
  PROVE  CacheOK' /\ CacheIsWatched'
<1>1. Batch' = Batch
  BY DEF Batch
<1>2. cache \in Seq(Entries) /\ Len(cache) \in Nat /\ Len(cache) <= MaxCache
  BY DEF CacheOK
<1>3. /\ cache' \in Seq(Entries) /\ Len(cache') <= Len(cache)
      /\ \A n \in DOMAIN cache' :
           \E i \in DOMAIN cache : cache'[n] = cache[i] /\ cache[i].file # f
  BY <1>2, Forgotten
<1>4. Len(cache') <= MaxCache
  <2>1. Len(cache') \in Nat
    BY <1>3
  <2> QED BY <1>2, <1>3, <2>1, EmblemsAssumption
<1>5. CacheOK'
  BY <1>1, <1>3, <1>4 DEF CacheOK
<1>6. \A n \in DOMAIN cache' :
        cache'[n].state.busy => cache'[n].file \in timers' \cup returned'
  BY <1>3 DEF CacheIsWatched
<1> QED BY <1>5, <1>6 DEF CacheIsWatched

LEMMA CacheUses ==
  ASSUME CacheOK, CacheIsWatched, NEW f \in Files, Cached(f) # None,
         cache' = Use(cache, f, Cached(f)),
         UNCHANGED <<inflight, answer, returned>>, timers \subseteq timers'
  PROVE  /\ CacheOK' /\ CacheIsWatched'
         /\ Cached(f) \in States
         /\ Cached(f).busy => f \in timers' \cup returned'
<1>1. Batch' = Batch
  BY DEF Batch
<1>2. /\ Cached(f) \in States
      /\ cache' \in Seq(Entries)
      /\ Len(cache') <= MaxCache
      /\ \A n \in DOMAIN cache' :
           \E i \in DOMAIN cache : /\ cache'[n].file = cache[i].file
                                   /\ cache'[n].state = cache[i].state
  BY UsedIs
<1>3. CacheOK'
  BY <1>1, <1>2 DEF CacheOK
<1>4. \A n \in DOMAIN cache' :
        cache'[n].state.busy => cache'[n].file \in timers' \cup returned'
  BY <1>2 DEF CacheIsWatched
<1>5. Cached(f).busy => f \in timers' \cup returned'
  <2>1. PICK i \in DOMAIN cache : cache[i].file = f /\ cache[i].state = Cached(f)
    BY CachedIs DEF CacheOK
  <2> QED BY <2>1 DEF CacheIsWatched
<1> QED BY <1>2, <1>3, <1>4, <1>5 DEF CacheIsWatched

\* A step that shows nothing new keeps the watch if it drops no watcher of a file
\* that may be shown busy.
LEMMA WatchStays ==
  ASSUME BusyIsWatched, shown' = shown,
         timers \cup invalid \cup waiting \cup returned
           \subseteq timers' \cup invalid' \cup waiting' \cup returned'
  PROVE  BusyIsWatched'
  BY DEF BusyIsWatched, ShowsBusy

-----------------------------------------------------------------------------
(* The steps on what is cached and seen. *)

Rest == CacheOK /\ SeenOK /\ CacheIsWatched /\ BusyIsWatched

LEMMA LookRest ==
  ASSUME IInv, NEW f \in Files, Look(f)
  PROVE  Rest'
<1>1. /\ invalid' = invalid \cup {f}
      /\ UNCHANGED <<cache, inflight, answer, returned, timers, waiting, shown, truth>>
  BY DEF Look, extension, outside
<1>2. CacheOK' /\ CacheIsWatched'
  BY <1>1, CacheStays DEF IInv
<1>3. BusyIsWatched'
  BY <1>1, WatchStays DEF IInv
<1>4. SeenOK'
  BY <1>1 DEF IInv, SeenOK
<1> QED BY <1>2, <1>3, <1>4 DEF Rest

LEMMA AskCachedRest ==
  ASSUME IInv, NEW f \in Files, AskCached(f)
  PROVE  Rest'
<1>1. /\ Cached(f) # None /\ cache' = Use(cache, f, Cached(f))
      /\ shown' = [shown EXCEPT ![f] = Cached(f)]
      /\ invalid' = invalid \ {f}
      /\ UNCHANGED <<inflight, answer, returned, timers, waiting, truth>>
  BY DEF AskCached, outside, counters
<1>2. /\ CacheOK' /\ CacheIsWatched'
      /\ Cached(f) \in States
      /\ Cached(f).busy => f \in timers' \cup returned'
  BY <1>1, CacheUses DEF IInv
<1>3. shown \in [Files -> States \cup {None}]
  BY DEF IInv, SeenOK
<1>4. SeenOK'
  BY <1>1, <1>2, <1>3 DEF IInv, SeenOK
<1>5. BusyIsWatched'
  <2> SUFFICES ASSUME NEW g \in Files, shown'[g] # None, shown'[g].busy
               PROVE  g \in timers' \cup invalid' \cup waiting' \cup returned'
    BY DEF BusyIsWatched, ShowsBusy
  <2>1. CASE g = f
    BY <1>1, <1>2, <1>3, <2>1
  <2>2. CASE g # f
    <3>1. shown'[g] = shown[g]
      BY <1>1, <1>3, <2>2
    <3> QED BY <1>1, <2>2, <3>1 DEF IInv, BusyIsWatched, ShowsBusy
  <2> QED BY <2>1, <2>2
<1> QED BY <1>2, <1>4, <1>5 DEF Rest

LEMMA ForgettingRest ==
  ASSUME IInv, NEW f \in Files, RefreshState(f) \/ ActionFinished(f)
  PROVE  Rest'
<1>1. /\ cache' = Forget(cache, f) /\ invalid' = invalid \cup {f}
      /\ timers \ {f} \subseteq timers' /\ timers' \subseteq timers
      /\ UNCHANGED <<inflight, answer, returned, waiting, shown, truth>>
  BY DEF RefreshState, ActionFinished, outside, counters
<1>2. CacheOK' /\ CacheIsWatched'
  BY <1>1, CacheForgets DEF IInv
<1>3. BusyIsWatched'
  BY <1>1, WatchStays DEF IInv
<1>4. SeenOK'
  BY <1>1 DEF IInv, SeenOK
<1> QED BY <1>2, <1>3, <1>4 DEF Rest

LEMMA ActivateRest ==
  ASSUME IInv, NEW f \in Files, NEW action, Activate(f, action)
  PROVE  Rest'
<1>1. PICK s \in {Cached(f), None} :
        cache' = IF s = None THEN Forget(cache, f) ELSE Use(cache, f, s)
  BY DEF Activate
<1>2. /\ timers \subseteq timers' /\ timers' \subseteq timers \cup {f}
      /\ UNCHANGED <<inflight, answer, returned, waiting, invalid, shown, truth>>
  BY DEF Activate, nautilus
<1>3. CacheOK' /\ CacheIsWatched'
  <2>1. CASE s = None
    <3>1. cache' = Forget(cache, f) /\ timers \ {f} \subseteq timers'
      BY <1>1, <1>2, <2>1
    <3> QED BY <1>2, <3>1, CacheForgets DEF IInv
  <2>2. CASE s # None
    <3>1. Cached(f) # None /\ cache' = Use(cache, f, Cached(f))
      BY <1>1, <2>2
    <3> QED BY <1>2, <3>1, CacheUses DEF IInv
  <2> QED BY <2>1, <2>2
<1>4. BusyIsWatched'
  BY <1>2, WatchStays DEF IInv
<1>5. SeenOK'
  BY <1>2 DEF IInv, SeenOK
<1> QED BY <1>3, <1>4, <1>5 DEF Rest

\* What the service and other programs do changes the truth only.
LEMMA OutsideRest ==
  ASSUME IInv, NEW f \in Files, CarryOut(f) \/ ReadElsewhere(f) \/ Hydrated(f)
  PROVE  Rest'
<1>1. UNCHANGED <<cache, inflight, answer, returned, timers, waiting, invalid, shown>>
  BY DEF CarryOut, ReadElsewhere, Hydrated, extension, nautilus, counters
<1>2. CacheOK' /\ CacheIsWatched'
  BY <1>1, CacheStays DEF IInv
<1>3. BusyIsWatched'
  BY <1>1, WatchStays DEF IInv
<1>4. truth \in [Files -> States] /\ truth[f] \in States
  BY DEF IInv, SeenOK
<1>5. truth' \in [Files -> States]
  <2>1. /\ Pin(truth[f]) \in States /\ Evict(truth[f]) \in States
        /\ \A b \in BOOLEAN : Unpin(truth[f], b) \in States /\ Hydrate(truth[f], b) \in States
        /\ [truth[f] EXCEPT !.busy = TRUE] \in States
        /\ truth[f].busy \in BOOLEAN /\ truth[f].cached \in BOOLEAN
    BY <1>4 DEF Pin, Evict, Unpin, Hydrate, States
  <2>2. CASE CarryOut(f)
    BY <1>4, <2>1, <2>2 DEF CarryOut
  <2>3. CASE ReadElsewhere(f)
    BY <1>4, <2>1, <2>3 DEF ReadElsewhere
  <2>4. CASE Hydrated(f)
    BY <1>4, <2>1, <2>4 DEF Hydrated
  <2> QED BY <2>2, <2>3, <2>4
<1>6. SeenOK'
  BY <1>1, <1>5 DEF IInv, SeenOK
<1> QED BY <1>2, <1>3, <1>6 DEF Rest

LEMMA AskServiceRest ==
  ASSUME IInv, NEW f \in Files, AskService(f)
  PROVE  Rest'
<1>1. /\ cache' = Forget(cache, f)
      /\ invalid' = invalid \ {f} /\ waiting' = waiting \cup {f}
      /\ UNCHANGED <<inflight, answer, returned, timers, shown, truth>>
  BY DEF AskService, outside, counters
<1>2. CacheOK' /\ CacheIsWatched'
  BY <1>1, CacheForgets DEF IInv
<1>3. BusyIsWatched'
  BY <1>1, WatchStays DEF IInv
<1>4. SeenOK'
  BY <1>1 DEF IInv, SeenOK
<1> QED BY <1>2, <1>3, <1>4 DEF Rest

LEMMA CancelUpdateRest ==
  ASSUME IInv, NEW f \in Files, CancelUpdate(f)
  PROVE  Rest'
<1>1. /\ waiting' = waiting \ {f}
      /\ shown' = IF f \in invalid THEN shown ELSE [shown EXCEPT ![f] = None]
      /\ UNCHANGED <<cache, answer, timers, invalid, truth>>
  BY DEF CancelUpdate, outside
<1>2. inflight \in Seq(Updates) /\ shown \in [Files -> States \cup {None}]
  BY DEF IInv, QueueOK, SeenOK
<1>3. /\ DOMAIN inflight' = DOMAIN inflight
      /\ \A i \in DOMAIN inflight :
           /\ inflight'[i].file = inflight[i].file
           /\ inflight'[i].completed => inflight[i].completed \/ inflight[i].file \in returned'
      /\ returned \subseteq returned'
  <2>1. CASE f \in Range(pending)
    BY <2>1 DEF CancelUpdate
  <2>2. CASE f \notin Range(pending)
    <3>1. inflight' = Completed(f) /\ returned' = returned \cup {f}
      BY <2>2 DEF CancelUpdate
    <3> QED BY <1>2, <3>1, CompletedIs
  <2> QED BY <2>1, <2>2
<1>4. Batch' = Batch
  BY <1>3 DEF Batch
<1>5. CacheOK'
  BY <1>1, <1>4 DEF IInv, CacheOK
<1>6. CacheIsWatched'
  BY <1>1, <1>3 DEF IInv, CacheIsWatched
<1>7. SeenOK'
  BY <1>1, <1>2 DEF IInv, SeenOK
<1>8. BusyIsWatched'
  <2> SUFFICES ASSUME NEW g \in Files, shown'[g] # None, shown'[g].busy
               PROVE  g \in timers' \cup invalid' \cup waiting' \cup returned'
    BY DEF BusyIsWatched, ShowsBusy
  <2>1. CASE g = f
    BY <1>1, <1>2, <2>1
  <2>2. CASE g # f
    <3>1. shown'[g] = shown[g]
      BY <1>1, <1>2, <2>2
    <3> QED BY <1>1, <1>3, <2>2, <3>1 DEF IInv, BusyIsWatched, ShowsBusy
  <2> QED BY <2>1, <2>2
<1> QED BY <1>5, <1>6, <1>7, <1>8 DEF Rest

\* A step that gives up files and shows nothing of them keeps the watch.
LEMMA UnseenRest ==
  ASSUME IInv, NEW gone, gone \subseteq Files,
         shown' = [g \in Files |-> IF g \in gone THEN None ELSE shown[g]],
         waiting' = waiting \ gone,
         UNCHANGED <<cache, inflight, answer, timers, invalid, truth, returned>>
  PROVE  Rest'
<1>1. CacheOK' /\ CacheIsWatched'
  BY CacheStays DEF IInv
<1>2. SeenOK'
  BY DEF IInv, SeenOK
<1>3. BusyIsWatched'
  BY DEF IInv, BusyIsWatched, ShowsBusy
<1> QED BY <1>1, <1>2, <1>3 DEF Rest

LEMMA DropOversizedRest ==
  ASSUME IInv, DropOversized
  PROVE  Rest'
<1>1. /\ shown' = [shown EXCEPT ![Head(pending)] = None]
      /\ waiting' = waiting \ {Head(pending)}
      /\ UNCHANGED <<cache, inflight, answer, timers, invalid, truth, returned>>
  BY DEF DropOversized, outside, counters
<1>2. pending # <<>> /\ pending \in Seq(Files) /\ shown \in [Files -> States \cup {None}]
  BY DEF IInv, QueueOK, SeenOK, DropOversized
<1>3. Head(pending) \in Files
  BY <1>2
<1>4. shown' = [g \in Files |-> IF g \in {Head(pending)} THEN None ELSE shown[g]]
  BY <1>1, <1>2
<1> QED BY <1>1, <1>3, <1>4, UnseenRest

LEMMA StartFailsRest ==
  ASSUME IInv, StartFails
  PROVE  Rest'
<1>1. /\ shown' = [g \in Files |-> IF g \in Range(Selected) THEN None ELSE shown[g]]
      /\ waiting' = waiting \ Range(Selected)
      /\ UNCHANGED <<cache, inflight, answer, timers, invalid, truth, returned>>
  BY DEF StartFails, outside
<1>2. Selected \in Seq(Files)
  BY ChosenIs DEF IInv
<1>3. Range(Selected) \subseteq Files
  BY <1>2 DEF Range
<1> QED BY <1>1, <1>3, UnseenRest

LEMMA StartBatchRest ==
  ASSUME IInv, StartBatch
  PROVE  Rest'
<1>1. /\ worker = None /\ inflight' = NewBatch
      /\ UNCHANGED <<cache, answer, timers, invalid, waiting, shown, truth, returned>>
  BY DEF StartBatch, nautilus, outside, counters
<1>2. Batch = {}
  BY <1>1, NoBatch DEF IInv
<1>3. DOMAIN answer \subseteq Batch'
  BY <1>2 DEF IInv, CacheOK
<1>4. CacheOK'
  BY <1>1, <1>3 DEF IInv, CacheOK
<1>5. \A i \in DOMAIN inflight' : inflight'[i].completed = FALSE
  BY <1>1, NewBatchIs DEF IInv
<1>6. CacheIsWatched'
  BY <1>1, <1>5 DEF IInv, CacheIsWatched
<1>7. BusyIsWatched'
  BY <1>1, WatchStays DEF IInv
<1>8. SeenOK'
  BY <1>1 DEF IInv, SeenOK
<1> QED BY <1>4, <1>6, <1>7, <1>8 DEF Rest

LEMMA DescribeRest ==
  ASSUME IInv, Describe
  PROVE  Rest'
<1>1. UNCHANGED <<cache, inflight, timers, invalid, waiting, shown, truth, returned>>
  BY DEF Describe, nautilus, outside
<1>2. Batch \subseteq Files
  <2>1. \A i \in DOMAIN inflight : inflight[i] \in Updates
    BY DEF IInv, QueueOK
  <2> QED BY <2>1 DEF Batch, Updates
<1>3. truth \in [Files -> States]
  BY DEF IInv, SeenOK
<1>4. answer' \in [DOMAIN answer' -> States] /\ DOMAIN answer' \subseteq Batch
  <2>1. CASE answer' = Restrict(truth, Batch)
    BY <1>2, <1>3, <2>1 DEF Restrict
  <2>2. CASE answer' = <<>>
    BY <2>2
  <2> QED BY <2>1, <2>2 DEF Describe
<1>5. Batch' = Batch
  BY <1>1 DEF Batch
<1>6. CacheOK'
  BY <1>1, <1>4, <1>5 DEF IInv, CacheOK
<1>7. CacheIsWatched'
  BY <1>1 DEF IInv, CacheIsWatched
<1>8. BusyIsWatched'
  BY <1>1, WatchStays DEF IInv
<1>9. SeenOK'
  BY <1>1 DEF IInv, SeenOK
<1> QED BY <1>6, <1>7, <1>8, <1>9 DEF Rest

LEMMA FinishBatchRest ==
  ASSUME IInv, FinishBatch
  PROVE  Rest'
<1> DEFINE open == Open(inflight)
           known == open \cap DOMAIN answer
<1>1. /\ shown' = [f \in Files |-> IF f \in known THEN answer[f]
                                   ELSE IF f \in open THEN None ELSE shown[f]]
      /\ timers' = timers \cup {f \in known : answer[f].busy}
      /\ waiting' = waiting \ open
      /\ inflight' = <<>> /\ answer' = <<>> /\ cache' = Store(answer)
      /\ UNCHANGED <<invalid, truth, returned>>
  BY DEF FinishBatch, Finish, outside, counters
<1>2. /\ inflight \in Seq(Updates)
      /\ \A i \in DOMAIN inflight : inflight[i].file \in Files /\ inflight[i].completed \in BOOLEAN
  <2>1. inflight \in Seq(Updates)
    BY DEF IInv, QueueOK
  <2>2. \A i \in DOMAIN inflight : inflight[i] \in Updates
    BY <2>1
  <2> QED BY <2>1, <2>2 DEF Updates
<1>3. open \subseteq Files /\ Batch \subseteq open \cup returned
  <2>1. \A i \in DOMAIN inflight : inflight[i].completed => inflight[i].file \in returned
    BY DEF IInv, CacheIsWatched
  <2> QED BY <1>2, <2>1 DEF Open, Batch
<1>4. \A f \in DOMAIN answer : answer[f] \in States /\ f \in Batch
  BY DEF IInv, CacheOK
<1> HIDE DEF open
<1>5. CacheOK'
  <2>1. Store(answer) \in Seq(Entries) /\ Len(Store(answer)) <= MaxCache
    BY StoredIs DEF IInv
  <2>2. answer' \in [DOMAIN answer' -> States] /\ DOMAIN answer' = {}
    BY <1>1
  <2> QED BY <1>1, <2>1, <2>2 DEF CacheOK
<1>6. CacheIsWatched'
  <2> SUFFICES ASSUME NEW n \in DOMAIN cache', cache'[n].state.busy
               PROVE  cache'[n].file \in timers' \cup returned'
    BY <1>1 DEF CacheIsWatched
  <2>1. \/ \E i \in DOMAIN cache : cache'[n] = cache[i]
        \/ /\ cache'[n].file \in DOMAIN answer
           /\ cache'[n].state = answer[cache'[n].file]
    BY <1>1, StoredIs DEF IInv
  <2>2. CASE \E i \in DOMAIN cache : cache'[n] = cache[i]
    BY <1>1, <2>2 DEF IInv, CacheIsWatched
  <2>3. CASE /\ cache'[n].file \in DOMAIN answer
             /\ cache'[n].state = answer[cache'[n].file]
    <3>1. cache'[n].file \in open \cup returned
      BY <1>3, <1>4, <2>3
    <3> QED BY <1>1, <2>3, <3>1
  <2> QED BY <2>1, <2>2, <2>3
<1>7. SeenOK'
  <2>1. /\ timers \subseteq Files /\ invalid \subseteq Files
        /\ shown \in [Files -> States \cup {None}] /\ truth \in [Files -> States]
    BY DEF IInv, SeenOK
  <2>2. timers' \subseteq Files
    BY <1>1, <1>3, <2>1
  <2>3. shown' \in [Files -> States \cup {None}]
    BY <1>1, <1>4, <2>1
  <2> QED BY <1>1, <2>1, <2>2, <2>3 DEF SeenOK
<1>8. BusyIsWatched'
  <2> SUFFICES ASSUME NEW f \in Files, shown'[f] # None, shown'[f].busy
               PROVE  f \in timers' \cup invalid' \cup waiting' \cup returned'
    BY DEF BusyIsWatched, ShowsBusy
  <2>1. CASE f \in known
    BY <1>1, <2>1
  <2>2. CASE f \in open \ known
    BY <1>1, <2>2
  <2>3. CASE f \notin open
    <3>1. shown'[f] = shown[f]
      BY <1>1, <2>3
    <3>2. f \in timers \cup invalid \cup waiting \cup returned
      BY <3>1 DEF IInv, BusyIsWatched, ShowsBusy
    <3> QED BY <1>1, <2>3, <3>2
  <2> QED BY <2>1, <2>2, <2>3
<1> QED BY <1>5, <1>6, <1>7, <1>8 DEF Rest

LEMMA RestStep ==
  ASSUME IInv, [Next]_vars
  PROVE  Rest'
<1>1. CASE \E f \in Files : AskService(f) \/ CancelUpdate(f) \/ Quiet(f)
  <2>1. PICK f \in Files : AskService(f) \/ CancelUpdate(f) \/ Quiet(f)
    BY <1>1
  <2>2. CASE AskService(f) \/ CancelUpdate(f)
    BY <2>2, AskServiceRest, CancelUpdateRest
  <2>3. CASE Quiet(f)
    BY <2>3, LookRest, AskCachedRest, ForgettingRest, ActivateRest, OutsideRest DEF Quiet
  <2> QED BY <2>1, <2>2, <2>3
<1>2. CASE StartNothing \/ UNCHANGED vars
  <2>1. UNCHANGED <<cache, inflight, answer, timers, invalid, waiting, shown, truth, returned>>
    BY <1>2 DEF StartNothing, vars, extension, nautilus, outside, counters
  <2>2. CacheOK' /\ CacheIsWatched'
    BY <2>1, CacheStays DEF IInv
  <2>3. BusyIsWatched'
    BY <2>1, WatchStays DEF IInv
  <2>4. SeenOK'
    BY <2>1 DEF IInv, SeenOK
  <2> QED BY <2>2, <2>3, <2>4 DEF Rest
<1> QED
  BY <1>1, <1>2, EveryStep, DropOversizedRest, StartFailsRest, StartBatchRest,
     DescribeRest, FinishBatchRest

-----------------------------------------------------------------------------
(* The theorems. *)

LEMMA IInvStep == IInv /\ [Next]_vars => IInv'
  BY QueueStep, RestStep DEF IInv, Rest

LEMMA SpecIInv == Spec => []IInv
  BY InitIInv, IInvStep, PTL DEF Spec

\* The queue, the batch, the cache and the emblems keep their types: the queue
\* holds no file twice, a batch is of one profile and never longer than
\* _MAX_BATCH_URIS, there is a thread exactly while there is a batch, and the
\* cache never exceeds _MAX_CACHE_ITEMS (nautilus_extension.py:282-352, 413-422).
THEOREM EmblemsAreTyped == Spec => []TypeOK
  BY SpecIInv, IInvTypes, PTL

\* Nautilus waits for exactly the queued files and the open ones of the batch,
\* whatever is cancelled, too large or not answered, and a queued update always
\* has a batch scheduled or on its way (nautilus_extension.py:282-287, 318-346,
\* 436-440).
THEOREM UpdatesAreAccounted == Spec => []UpdatesAccounted
<1>1. IInv => UpdatesAccounted
  BY DEF IInv
<1> QED BY SpecIInv, <1>1, PTL

\* A file that shows busy has a timeout, or Nautilus is going to ask or waits
\* for an answer; only a cancelled update of a batch can break it
\* (nautilus_extension.py:137-158, 413-430).
THEOREM BusyIsAlwaysWatched == Spec => []BusyIsWatched
<1>1. IInv => BusyIsWatched
  BY DEF IInv
<1> QED BY SpecIInv, <1>1, PTL
=============================================================================
