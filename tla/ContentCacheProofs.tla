------------------------- MODULE ContentCacheProofs -------------------------
(***************************************************************************)
(* Theorems about ContentCache, for every library, every number of open    *)
(* files, all sizes, limits and disks, and every bound.                    *)
(***************************************************************************)
EXTENDS ContentCache, FiniteSetTheorems, TLAPS

-----------------------------------------------------------------------------
(* The inductive invariant.                                                *)

TaskRecord ==
  [pc: {"idle", "closed", "open", "opening"} \cup Following \cup Leading,
   asset: Assets \cup {None}, ver: Versions \cup {None}, got: Nat,
   from: Versions \cup {None}]

CacheTypes ==
  /\ server \in [Assets -> Versions] /\ catalog \in [Assets -> Versions]
  /\ cached \in [Assets -> File \cup {None}]
  /\ validated \in [Assets -> Versions \cup {None}]
  /\ task \in [Tasks -> TaskRecord]
  /\ pending \cup pinned \cup exempt \cup late \subseteq Assets
  /\ moved \subseteq {t \in Tasks : task[t].pc \in Hashing}
  /\ pinQueue \in [Assets -> Versions \cup {None}]
  /\ downloads \in BOOLEAN /\ foreign \in 0..Disk /\ trouble \in 0..MaxTrouble

\* A discard that was put off has somebody who will make up for it.
PutOff == \A a \in pending : IsOpen(a)

\* What a task works on, at each place of a hydration.
TasksWork ==
  \A t \in Tasks :
    LET k == task[t] IN
    /\ k.pc = "idle" => t \in Fetchers /\ k = NoTask
    /\ k.pc = "closed" => t \in Readers /\ k = Closed
    /\ k.pc \in {"open", "opening"} => t \in Readers
    /\ k.pc \notin {"idle", "closed"} => k.asset \in Assets /\ k.ver \in Versions
    /\ k.pc = "download" => k.got <= Reservation(t)

\* A hash that nothing has spoiled has its file, only managed assets are hashed,
\* and only a late hydration downloads while an earlier file is there.
FilesHashed ==
  \A t \in Tasks :
    LET k == task[t] IN
    /\ k.pc \in Hashing => k.asset \in Managed
    /\ k.pc \in Hashing /\ t \notin moved => Present(k.asset)
    /\ k.pc = "download" /\ Present(k.asset) => k.asset \in Managed /\ k.asset \in late

\* At most one task runs the hydration of an asset.
OneLeader ==
  \A t, u \in Tasks :
    /\ task[t].pc \in Leading /\ task[u].pc \in Leading
    /\ task[t].asset = task[u].asset
    => t = u

\* What is known of a file by its stat is right.
Validated ==
  \A a \in Managed :
    validated[a] # None => Present(a) /\ cached[a].bytes = validated[a]

Safe ==
  /\ CacheTypes /\ PutOff /\ TasksWork /\ FilesHashed /\ OneLeader /\ Validated
  /\ BytesAreRight

CacheInvariant == Safe /\ WithinBudget /\ RoomReserved

-----------------------------------------------------------------------------
(* Sums.  SumFunctionOnSet is a recursive function on the subsets of a     *)
(* finite set: the smallest subset for which a claim fails does for it     *)
(* what induction would.                                                   *)

\* What MapThenFoldSet computes along the way.
Some(s) == CHOOSE x \in s : TRUE

IsSum(f, w, S) ==
  f = [s \in SUBSET S |-> IF s = {} THEN 0 ELSE w[Some(s)] + f[s \ {Some(s)}]]

Sums(w, S) == CHOOSE f : IsSum(f, w, S)

LEMMA SumIs ==
  ASSUME NEW w, NEW S
  PROVE  SumFunctionOnSet(w, S) = Sums(w, S)[S]
  BY Zenon DEF SumFunctionOnSet, FoldFunctionOnSet, MapThenFoldSet, IsSum, Some, Sums

LEMMA SomeIsMember == ASSUME NEW s, s # {} PROVE Some(s) \in s
  BY DEF Some

(* A set of finite subsets that is not empty has a smallest member: induction  *)
(* over finite sets, in the form the proofs below use.                         *)
LEMMA SmallestSubset ==
  ASSUME NEW S, IsFiniteSet(S), NEW T \in SUBSET SUBSET S, T # {}
  PROVE  \E s \in T : \A u \in T : ~(u \subseteq s /\ u # s)
<1>1. IsWellFoundedOn(StrictSubsetOrdering(S), SUBSET S)
  BY FS_StrictSubsetOrderingWellFounded, FS_FiniteSubsetsOfFinite
<1>2. PICK s \in T : \A u \in T : <<u, s>> \notin StrictSubsetOrdering(S)
  BY <1>1, WFMin
<1>3. ASSUME NEW u \in T, u \subseteq s, u # s PROVE FALSE
  <2>1. <<u, s>> \in StrictSubsetOrdering(S)
    BY <1>3 DEF StrictSubsetOrdering
  <2> QED
    BY <1>2, <2>1
<1> QED
  BY <1>3

LEMMA SumsAgree ==
  ASSUME NEW w, NEW S, NEW R, NEW f, NEW g, IsSum(f, w, S), IsSum(g, w, R),
         NEW s \in SUBSET S, s \subseteq R, IsFiniteSet(s)
  PROVE  f[s] = g[s]
<1> SUFFICES ASSUME f[s] # g[s] PROVE FALSE
  OBVIOUS
<1> DEFINE T == {u \in SUBSET s : f[u] # g[u]}
<1>0. T \in SUBSET SUBSET s /\ s \in T
  OBVIOUS
<1>1. PICK u \in T : \A v \in T : ~(v \subseteq u /\ v # u)
  <2> HIDE DEF T
  <2> QED
    BY <1>0, SmallestSubset
<1>2. u # {}
  BY <1>1 DEF IsSum
<1>3. /\ f[u] = w[Some(u)] + f[u \ {Some(u)}]
      /\ g[u] = w[Some(u)] + g[u \ {Some(u)}]
  BY <1>1, <1>2 DEF IsSum
<1>4. f[u \ {Some(u)}] = g[u \ {Some(u)}]
  BY <1>1, <1>2, SomeIsMember
<1> QED
  BY <1>1, <1>3, <1>4

LEMMA SumsExist ==
  ASSUME NEW w, NEW S, IsFiniteSet(S)
  PROVE  IsSum(Sums(w, S), w, S)
<1> SUFFICES ASSUME ~ \E f : IsSum(f, w, S) PROVE FALSE
  BY DEF Sums
<1> DEFINE T == {u \in SUBSET S : ~ \E f : IsSum(f, w, u)}
<1>0. T \in SUBSET SUBSET S /\ S \in T
  OBVIOUS
<1>1. PICK u \in T : \A v \in T : ~(v \subseteq u /\ v # u)
  <2> HIDE DEF T
  <2> QED
    BY <1>0, SmallestSubset
<1>2. \A v \in SUBSET u : v # u => IsSum(Sums(w, v), w, v)
  BY <1>1 DEF Sums
<1> DEFINE g == [s \in SUBSET u |->
                   IF s = {} THEN 0
                   ELSE w[Some(s)] + Sums(w, s \ {Some(s)})[s \ {Some(s)}]]
<1>3. ASSUME NEW s \in SUBSET u, s # {}
      PROVE  g[s] = w[Some(s)] + g[s \ {Some(s)}]
  <2> DEFINE v == s \ {Some(s)}
  <2>1. v \in SUBSET u /\ v # u /\ IsSum(Sums(w, v), w, v)
    BY <1>2, <1>3, SomeIsMember
  <2>2. CASE v = {}
    BY <1>3, <2>1, <2>2 DEF IsSum
  <2>3. CASE v # {}
    <3> DEFINE x == v \ {Some(v)}
    <3>1. x \in SUBSET u /\ x # u /\ IsSum(Sums(w, x), w, x) /\ x \subseteq v
      BY <1>2, <2>1, <2>3, SomeIsMember
    <3>2. IsFiniteSet(x)
      BY <3>1, FS_Subset
    <3>3. Sums(w, v)[x] = Sums(w, x)[x]
      BY <2>1, <3>1, <3>2, SumsAgree
    <3>4. Sums(w, v)[v] = w[Some(v)] + Sums(w, v)[x]
      BY <2>1, <2>3 DEF IsSum
    <3>5. g[v] = w[Some(v)] + Sums(w, x)[x]
      BY <2>1, <2>3
    <3> QED
      BY <1>3, <3>3, <3>4, <3>5
  <2> QED
    BY <2>2, <2>3
<1>4. IsSum(g, w, u)
  BY <1>3 DEF IsSum
<1> QED
  BY <1>1, <1>4

(* The sum over no element, and over one element more.                         *)
LEMMA EmptySum == ASSUME NEW w PROVE SumFunctionOnSet(w, {}) = 0
<1>1. IsSum(Sums(w, {}), w, {})
  BY SumsExist, FS_EmptySet
<1>2. Sums(w, {})[{}] = 0
  BY <1>1 DEF IsSum
<1> QED
  BY <1>2, SumIs

LEMMA SumStep ==
  ASSUME NEW w, NEW S, IsFiniteSet(S), S # {}
  PROVE  SumFunctionOnSet(w, S) = w[Some(S)] + SumFunctionOnSet(w, S \ {Some(S)})
<1> DEFINE R == S \ {Some(S)}
<1>1. IsFiniteSet(R)
  BY FS_Subset
<1>2. IsSum(Sums(w, S), w, S) /\ IsSum(Sums(w, R), w, R)
  BY <1>1, SumsExist
<1>3. Sums(w, S)[R] = Sums(w, R)[R]
  BY <1>1, <1>2, SumsAgree
<1>4. Sums(w, S)[S] = w[Some(S)] + Sums(w, S)[R]
  BY <1>2 DEF IsSum
<1> QED
  BY <1>3, <1>4, SumIs

LEMMA SumIsNat ==
  ASSUME NEW w, NEW S, IsFiniteSet(S), \A x \in S : w[x] \in Nat
  PROVE  SumFunctionOnSet(w, S) \in Nat
<1> SUFFICES ASSUME SumFunctionOnSet(w, S) \notin Nat PROVE FALSE
  OBVIOUS
<1> DEFINE T == {u \in SUBSET S : SumFunctionOnSet(w, u) \notin Nat}
<1>0. T \in SUBSET SUBSET S /\ S \in T
  OBVIOUS
<1>1. PICK u \in T : \A v \in T : ~(v \subseteq u /\ v # u)
  <2> HIDE DEF T
  <2> QED
    BY <1>0, SmallestSubset
<1>2. IsFiniteSet(u)
  BY <1>1, FS_Subset
<1>3. u # {}
  <2>1. SumFunctionOnSet(w, {}) = 0
    BY EmptySum
  <2>2. {} \notin T
    BY <2>1
  <2> QED
    BY <1>1, <2>2
<1>4. SumFunctionOnSet(w, u) = w[Some(u)] + SumFunctionOnSet(w, u \ {Some(u)})
  BY <1>2, <1>3, SumStep
<1>5. Some(u) \in u /\ SumFunctionOnSet(w, u \ {Some(u)}) \in Nat
  BY <1>1, <1>3, SomeIsMember
<1> QED
  BY <1>1, <1>4, <1>5

LEMMA SumWith ==
  ASSUME NEW w, NEW S, IsFiniteSet(S), \A y \in S : w[y] \in Nat, NEW x \in S
  PROVE  SumFunctionOnSet(w, S) = w[x] + SumFunctionOnSet(w, S \ {x})
<1> DEFINE Sum(u) == SumFunctionOnSet(w, u)
           Splits(u) == \A y \in u : Sum(u) = w[y] + Sum(u \ {y})
           T == {u \in SUBSET S : ~Splits(u)}
<1> SUFFICES ASSUME ~Splits(S) PROVE FALSE
  OBVIOUS
<1>0. /\ \A u \in SUBSET S : IsFiniteSet(u) /\ Sum(u) \in Nat
      /\ T \in SUBSET SUBSET S /\ S \in T
  <2>1. ASSUME NEW u \in SUBSET S PROVE IsFiniteSet(u) /\ Sum(u) \in Nat
    BY FS_Subset, SumIsNat
  <2> QED
    BY <2>1
<1>1. PICK u \in T : \A v \in T : ~(v \subseteq u /\ v # u)
  <2> HIDE DEF T
  <2> QED
    BY <1>0, SmallestSubset
<1>2. PICK y \in u : Sum(u) # w[y] + Sum(u \ {y})
  BY <1>1
<1> DEFINE c == Some(u)
<1>3. c \in u /\ Sum(u) = w[c] + Sum(u \ {c})
  BY <1>0, <1>1, <1>2, SomeIsMember, SumStep
<1> HIDE DEF Sum, c
<1>4. c # y /\ Splits(u \ {c}) /\ Splits(u \ {y})
  <2>1. \A v \in SUBSET u : v # u => Splits(v)
    <3> HIDE DEF Splits
    <3> QED
      BY <1>1
  <2> QED
    BY <1>2, <1>3, <2>1
<1>5. /\ Sum(u \ {c}) = w[y] + Sum((u \ {c}) \ {y})
      /\ Sum(u \ {y}) = w[c] + Sum((u \ {y}) \ {c})
      /\ (u \ {c}) \ {y} = (u \ {y}) \ {c}
  BY <1>2, <1>3, <1>4
<1>6. /\ w[y] \in Nat /\ w[c] \in Nat
      /\ Sum((u \ {c}) \ {y}) \in Nat
  BY <1>0, <1>1, <1>2, <1>3
<1>7. Sum((u \ {y}) \ {c}) \in Nat /\ Sum((u \ {c}) \ {y}) = Sum((u \ {y}) \ {c})
  BY <1>5, <1>6
<1> QED
  BY <1>2, <1>3, <1>5, <1>6, <1>7

(* Sums over the same set, term by term.                                       *)
LEMMA SumMonotone ==
  ASSUME NEW S, IsFiniteSet(S), NEW w, NEW v,
         \A x \in S : w[x] \in Nat /\ v[x] \in Nat /\ w[x] <= v[x]
  PROVE  SumFunctionOnSet(w, S) <= SumFunctionOnSet(v, S)
<1> DEFINE Less(u) == SumFunctionOnSet(w, u) <= SumFunctionOnSet(v, u)
           T == {u \in SUBSET S : ~Less(u)}
<1> SUFFICES ASSUME ~Less(S) PROVE FALSE
  OBVIOUS
<1>0. T \in SUBSET SUBSET S /\ S \in T
  OBVIOUS
<1>1. PICK u \in T : \A s \in T : ~(s \subseteq u /\ s # u)
  <2> HIDE DEF T
  <2> QED
    BY <1>0, SmallestSubset
<1>2. IsFiniteSet(u) /\ IsFiniteSet(u \ {Some(u)})
  BY <1>1, FS_Subset
<1>3. u # {}
  <2>1. SumFunctionOnSet(w, {}) = 0 /\ SumFunctionOnSet(v, {}) = 0
    BY EmptySum
  <2>2. {} \notin T
    BY <2>1
  <2> QED
    BY <1>1, <2>2
<1>4. /\ SumFunctionOnSet(w, u) = w[Some(u)] + SumFunctionOnSet(w, u \ {Some(u)})
      /\ SumFunctionOnSet(v, u) = v[Some(u)] + SumFunctionOnSet(v, u \ {Some(u)})
  BY <1>2, <1>3, SumStep
<1>5. Some(u) \in u
  BY <1>3, SomeIsMember
<1>6. Less(u \ {Some(u)})
  BY <1>1, <1>5
<1>7. /\ SumFunctionOnSet(w, u \ {Some(u)}) \in Nat
      /\ SumFunctionOnSet(v, u \ {Some(u)}) \in Nat
  BY <1>1, <1>2, SumIsNat
<1> QED
  BY <1>1, <1>4, <1>5, <1>6, <1>7

(* The sum over a part is at most the sum over the whole.                      *)
LEMMA SumOfPart ==
  ASSUME NEW S, IsFiniteSet(S), NEW w, \A x \in S : w[x] \in Nat, NEW R \in SUBSET S
  PROVE  SumFunctionOnSet(w, R) <= SumFunctionOnSet(w, S)
<1> DEFINE Less(u) == SumFunctionOnSet(w, R) <= SumFunctionOnSet(w, u)
           T == {u \in SUBSET S : R \subseteq u /\ ~Less(u)}
<1> SUFFICES ASSUME ~Less(S) PROVE FALSE
  OBVIOUS
<1>0. T \in SUBSET SUBSET S /\ S \in T
  OBVIOUS
<1>1. PICK u \in T : \A s \in T : ~(s \subseteq u /\ s # u)
  <2> HIDE DEF T
  <2> QED
    BY <1>0, SmallestSubset
<1>2. IsFiniteSet(u) /\ IsFiniteSet(R)
  BY <1>1, FS_Subset
<1>3. SumFunctionOnSet(w, R) \in Nat
  BY <1>2, SumIsNat
<1>4. PICK x \in u : x \notin R
  BY <1>1, <1>3
<1>5. SumFunctionOnSet(w, u) = w[x] + SumFunctionOnSet(w, u \ {x})
  BY <1>1, <1>2, SumWith
<1>6. Less(u \ {x}) /\ SumFunctionOnSet(w, u \ {x}) \in Nat
  <2>1. IsFiniteSet(u \ {x})
    BY <1>2, FS_Subset
  <2> QED
    BY <1>1, <1>4, <2>1, SumIsNat
<1> QED
  BY <1>1, <1>3, <1>5, <1>6

LEMMA SumOfBoth ==
  ASSUME NEW S, IsFiniteSet(S), NEW w, NEW v, NEW u,
         \A x \in S : w[x] \in Nat /\ v[x] \in Nat /\ u[x] = w[x] + v[x]
  PROVE  SumFunctionOnSet(u, S) = SumFunctionOnSet(w, S) + SumFunctionOnSet(v, S)
<1> DEFINE Adds(s) == SumFunctionOnSet(u, s) = SumFunctionOnSet(w, s) + SumFunctionOnSet(v, s)
           T == {s \in SUBSET S : ~Adds(s)}
<1> SUFFICES ASSUME ~Adds(S) PROVE FALSE
  OBVIOUS
<1>0. T \in SUBSET SUBSET S /\ S \in T
  OBVIOUS
<1>1. PICK s \in T : \A r \in T : ~(r \subseteq s /\ r # s)
  <2> HIDE DEF T
  <2> QED
    BY <1>0, SmallestSubset
<1>2. s \in SUBSET S /\ ~Adds(s)
  OBVIOUS
<1>3. IsFiniteSet(s)
  BY <1>2, FS_Subset
<1>4. CASE s = {}
  BY <1>2, <1>4, EmptySum
<1>5. CASE s # {}
  <2> DEFINE x == Some(s)
             r == s \ {x}
  <2>1. x \in s
    BY <1>5, SomeIsMember
  <2>2. r \in SUBSET S /\ r \subseteq s /\ r # s
    BY <1>2, <2>1
  <2>3. Adds(r)
    BY <1>1, <2>2
  <2>4. IsFiniteSet(r)
    BY <1>3, <2>2, FS_Subset
  <2>5. /\ SumFunctionOnSet(u, s) = u[x] + SumFunctionOnSet(u, r)
        /\ SumFunctionOnSet(w, s) = w[x] + SumFunctionOnSet(w, r)
        /\ SumFunctionOnSet(v, s) = v[x] + SumFunctionOnSet(v, r)
    BY <1>3, <1>5, SumStep
  <2>6. SumFunctionOnSet(w, r) \in Nat /\ SumFunctionOnSet(v, r) \in Nat
    BY <2>2, <2>4, SumIsNat
  <2>7. w[x] \in Nat /\ v[x] \in Nat /\ u[x] = w[x] + v[x]
    BY <1>2, <2>1
  <2> HIDE DEF x, r
  <2> QED
    BY <1>2, <2>3, <2>5, <2>6, <2>7
<1> QED
  BY <1>4, <1>5

\* Less of less.
LEMMA SumOfLess ==
  ASSUME NEW S, IsFiniteSet(S), NEW w, NEW v, NEW R \in SUBSET S,
         \A x \in S : v[x] \in Nat, \A x \in R : w[x] \in Nat /\ w[x] <= v[x]
  PROVE  /\ SumFunctionOnSet(w, R) <= SumFunctionOnSet(v, S)
         /\ SumFunctionOnSet(w, R) \in Nat /\ SumFunctionOnSet(v, S) \in Nat
<1>1. IsFiniteSet(R)
  BY FS_Subset
<1>2. SumFunctionOnSet(w, R) <= SumFunctionOnSet(v, R)
  BY <1>1, SumMonotone
<1>3. SumFunctionOnSet(v, R) <= SumFunctionOnSet(v, S)
  BY SumOfPart
<1>4. /\ SumFunctionOnSet(w, R) \in Nat /\ SumFunctionOnSet(v, R) \in Nat
      /\ SumFunctionOnSet(v, S) \in Nat
  BY <1>1, SumIsNat
<1> QED
  BY <1>2, <1>3, <1>4

-----------------------------------------------------------------------------
(* Hydrations.                                                             *)

\* The file of an asset is what somebody who comes with version v may read.
Serves(a, v) ==
  /\ Present(a)
  /\ IF a \in Managed THEN cached[a].bytes = v ELSE cached[a].label = v

\* A task that runs, or is about to run, a hydration with the record k.
Caller(t, k) ==
  /\ t \in Tasks /\ k \in TaskRecord
  /\ k.asset \in Assets /\ k.ver \in Versions
  /\ task[t].pc # "download"
  /\ t \in Readers => task[t].asset = k.asset

\* Files only go: evicted, or discarded by a task that found them wrong.
FilesGo(t, k) ==
  \A a \in Assets :
    \/ cached'[a] = cached[a]
    \/ /\ cached'[a] = None /\ ~IsOpen(a)
       /\ \/ a \notin pinned'
          \/ a = k.asset /\ (t \in moved \/ ~RightFor(a, k.ver))

\* The other tasks stay where they are, or stop waiting.
Waiters(t) ==
  \A u \in Tasks \ {t} :
    \/ task'[u] = task[u]
    \/ /\ task[u].pc = "follow"
       /\ task'[u] \in {Ended(u, task[u]), [task[u] EXCEPT !.pc = "wokenOk"],
                        [task[u] EXCEPT !.pc = "wokenBusy"]}

\* What the task itself does next.
Hashes(k, pc) ==
  /\ pc \in Hashing /\ cached' = cached
  /\ k.asset \in Managed /\ Present(k.asset)
  /\ pc \in Leading => Leaders(k.asset) = {}

Waits(t, k) ==
  \/ task'[t] = Ended(t, k)
  \/ task'[t] = Served(t, k) /\ cached' = cached /\ Serves(k.asset, k.ver)
  \/ task'[t] \in {[k EXCEPT !.pc = "follow"], At("follow", k.asset, k.ver)}
  \/ \E pc \in Hashing : Hashes(k, pc) /\ task'[t] = [k EXCEPT !.pc = pc]

Admitted(t, k) ==
  /\ task'[t] = At("download", k.asset, k.ver)
  /\ Leaders(k.asset) \subseteq {t}
  /\ cached'[k.asset] # None => k.asset \in Managed /\ k.pc = "hashOffline"
  /\ Fits(cached', pinned', k.asset, k.ver)
  /\ exempt' = IF k.asset \in pinned' THEN exempt \cup {k.asset}
                                     ELSE exempt \ {k.asset}

Turn(t, k) == (Waits(t, k) /\ exempt' = exempt) \/ Admitted(t, k)

Stats(k) ==
  \/ Untouched
  \/ Touching({<<k.asset, k.ver>>}) /\ cached' = cached /\ Serves(k.asset, k.ver)

PendingKept(k) == \A a \in pending' : a \in pending \/ (a = k.asset /\ IsOpen(a))

HydrationStep(t, k) ==
  /\ cached' \in [Assets -> File \cup {None}]
  /\ task' = [u \in Tasks |-> task'[u]]
  /\ FilesGo(t, k) /\ Waiters(t) /\ Turn(t, k) /\ Stats(k) /\ PendingKept(k)

\* A hydration that goes on to download over a file is remembered as late.
LateKept(t, k) ==
  /\ late \subseteq late' /\ late' \subseteq Assets
  /\ k.pc = "hashOffline" /\ task'[t].pc = "download" /\ cached'[k.asset] # None =>
       k.asset \in late'

LEMMA StepShape ==
  ASSUME CacheTypes, NEW t \in Tasks, NEW k, Step(t, k)
  PROVE  task' = [task EXCEPT ![t] = k] /\ Waiters(t) /\ task'[t] = k
         /\ task' = [u \in Tasks |-> task'[u]]
  BY DEF CacheTypes, Step, Waiters

LEMMA FinishShape ==
  ASSUME CacheTypes, NEW t \in Tasks, NEW k, NEW outcome \in {"error", "wokenOk", "wokenBusy"},
         Finish(t, k, outcome)
  PROVE  Waiters(t) /\ task'[t] = k /\ task' = [u \in Tasks |-> task'[u]]
<1>1. task'[t] = k
  BY DEF Finish
<1>2. task' = [u \in Tasks |-> task'[u]]
  BY Zenon DEF Finish
<1>3. ASSUME NEW u \in Tasks, u # t
      PROVE  \/ task'[u] = task[u]
             \/ /\ task[u].pc = "follow"
                /\ task'[u] \in {Ended(u, task[u]), [task[u] EXCEPT !.pc = "wokenOk"],
                                 [task[u] EXCEPT !.pc = "wokenBusy"]}
  <2>1. task'[u] = IF task[u].pc = "follow" /\ task[u].asset = task[t].asset
                     THEN IF outcome = "error" THEN Ended(u, task[u])
                          ELSE [task[u] EXCEPT !.pc = outcome]
                   ELSE task[u]
    BY <1>3, Zenon DEF Finish
  <2> QED
    BY <2>1
<1> QED
  BY <1>1, <1>2, <1>3 DEF Waiters

LEMMA WithoutSome ==
  ASSUME CacheTypes, NEW files \in [Assets -> File \cup {None}], NEW S
  PROVE  /\ Without(files, S) \in [Assets -> File \cup {None}]
         /\ \A a \in Assets : Without(files, S)[a] = IF a \in S THEN None ELSE files[a]
  BY DEF Without

LEMMA MissStep ==
  ASSUME Safe, NEW t, NEW k, Caller(t, k), NEW files,
         \/ files = cached /\ (Present(k.asset) => ~downloads \/ (k.asset \in Managed /\ k.pc = "hashOffline"))
         \/ /\ files = Without(cached, {k.asset}) /\ ~IsOpen(k.asset)
            /\ t \in moved \/ ~RightFor(k.asset, k.ver),
         Leaders(k.asset) \subseteq {t}, Miss(t, k, files)
  PROVE  HydrationStep(t, k)
<1>0. /\ CacheTypes /\ t \in Tasks /\ k.asset \in Assets
      /\ cached \in [Assets -> File \cup {None}] /\ pending \subseteq Assets
  BY DEF Safe, Caller, CacheTypes
<1>1. /\ files \in [Assets -> File \cup {None}]
      /\ \A a \in Assets :
           \/ files[a] = cached[a]
           \/ /\ files[a] = None /\ ~IsOpen(a)
              /\ a = k.asset /\ (t \in moved \/ ~RightFor(a, k.ver))
  BY <1>0, WithoutSome
<1>2. PendingKept(k)
  BY DEF Miss, Admit, NotAdmitted, Unlinked, PendingKept
<1>3. CASE Admit(t, k, files)
  <2>1. PICK S \in Rooms(files, pinned', k.asset, k.ver) : cached' = Without(files, S)
    BY <1>3 DEF Admit
  <2>2. /\ S \subseteq Evictable(files, pinned') \ {k.asset}
        /\ Fits(cached', pinned', k.asset, k.ver)
    BY <2>1 DEF Rooms
  <2>3. \A a \in S : a \notin pinned' /\ ~IsOpen(a) /\ a # k.asset
    BY <2>2 DEF Evictable, Busy
  <2>4. /\ cached' \in [Assets -> File \cup {None}]
        /\ \A a \in Assets : cached'[a] = IF a \in S THEN None ELSE files[a]
    BY <1>0, <1>1, <2>1, WithoutSome
  <2>5. FilesGo(t, k)
    BY <1>1, <2>3, <2>4 DEF FilesGo
  <2>6. cached'[k.asset] # None => k.asset \in Managed /\ k.pc = "hashOffline"
    BY <1>0, <1>3, <2>3, <2>4, WithoutSome DEF Admit, Present
  <2>7. /\ Waiters(t) /\ task' = [u \in Tasks |-> task'[u]]
        /\ task'[t] = At("download", k.asset, k.ver)
    BY <1>0, <1>3, StepShape DEF Admit
  <2>8. Admitted(t, k)
    BY <1>3, <2>2, <2>6, <2>7 DEF Admit, Admitted
  <2> QED
    BY <1>2, <1>3, <2>4, <2>5, <2>7, <2>8 DEF Admit, HydrationStep, Turn, Stats
<1>4. CASE NotAdmitted(t, k, files)
  <2>1. /\ Waiters(t) /\ task' = [u \in Tasks |-> task'[u]]
        /\ task'[t] = Ended(t, k)
    BY <1>0, <1>4, FinishShape DEF NotAdmitted
  <2>2. FilesGo(t, k)
    BY <1>1, <1>4 DEF FilesGo, NotAdmitted
  <2>3. cached' = files /\ exempt' = exempt /\ Untouched
    BY <1>4 DEF NotAdmitted
  <2> QED
    BY <1>1, <1>2, <2>1, <2>2, <2>3 DEF HydrationStep, Turn, Waits, Stats
<1> QED
  BY <1>3, <1>4 DEF Miss

\* A hydration that leaves the files alone.
LEMMA IdleStep ==
  ASSUME CacheTypes, NEW t, NEW k, Waiters(t), task' = [u \in Tasks |-> task'[u]],
         Waits(t, k), UNCHANGED <<cached, exempt>>, Stats(k), PendingKept(k)
  PROVE  HydrationStep(t, k)
  BY DEF HydrationStep, Turn, FilesGo, CacheTypes

LEMMA LeaderServesStep ==
  ASSUME Safe, NEW t, NEW k, Caller(t, k), Serves(k.asset, k.ver), LeaderServes(t, k)
  PROVE  HydrationStep(t, k)
<1>0. CacheTypes /\ t \in Tasks
  BY DEF Safe, Caller
<1>1. Waiters(t) /\ task' = [u \in Tasks |-> task'[u]] /\ task'[t] = Served(t, k)
  BY <1>0, FinishShape DEF LeaderServes
<1>2. Waits(t, k) /\ Stats(k) /\ PendingKept(k) /\ UNCHANGED <<cached, exempt>>
  BY <1>1 DEF LeaderServes, Waits, Stats, PendingKept
<1> QED
  BY <1>0, <1>1, <1>2, IdleStep

LEMMA LeaderDiscardsStep ==
  ASSUME Safe, NEW t, NEW k, Caller(t, k), Leaders(k.asset) \subseteq {t},
         t \in moved \/ ~RightFor(k.asset, k.ver), LeaderDiscards(t, k)
  PROVE  HydrationStep(t, k)
<1>0. CacheTypes /\ t \in Tasks
  BY DEF Safe, Caller
<1>1. CASE IsOpen(k.asset)
  <2>1. Waiters(t) /\ task' = [u \in Tasks |-> task'[u]] /\ task'[t] = Ended(t, k)
    BY <1>0, <1>1, FinishShape DEF LeaderDiscards
  <2>2. Waits(t, k) /\ Stats(k) /\ PendingKept(k) /\ UNCHANGED <<cached, exempt>>
    BY <1>1, <2>1 DEF LeaderDiscards, Waits, Stats, PendingKept
  <2> QED
    BY <1>0, <2>1, <2>2, IdleStep
<1>2. CASE ~IsOpen(k.asset)
  <2>1. Miss(t, k, Without(cached, {k.asset}))
    BY <1>2 DEF LeaderDiscards
  <2> QED
    BY <1>2, <2>1, MissStep
<1> QED
  BY <1>1, <1>2

LEMMA FollowerDiscardsStep ==
  ASSUME Safe, NEW t, NEW k, Caller(t, k), k.pc \notin Leading, task[t].pc \notin Leading,
         t \in moved \/ ~RightFor(k.asset, k.ver), FollowerDiscards(t, k)
  PROVE  HydrationStep(t, k)
<1>0. CacheTypes /\ t \in Tasks /\ k.asset \in Assets
  BY DEF Safe, Caller
<1>1. CASE IsOpen(k.asset)
  <2>1. Waiters(t) /\ task' = [u \in Tasks |-> task'[u]] /\ task'[t] = Ended(t, k)
    BY <1>0, <1>1, StepShape DEF FollowerDiscards
  <2>2. Waits(t, k) /\ Stats(k) /\ PendingKept(k) /\ UNCHANGED <<cached, exempt>>
    BY <1>1, <2>1 DEF FollowerDiscards, Waits, Stats, PendingKept
  <2> QED
    BY <1>0, <2>1, <2>2, IdleStep
<1>2. CASE ~IsOpen(k.asset) /\ (k.pc \in {"wokenBusy", "rehashBusy"} \/ Leaders(k.asset) # {})
  <2> DEFINE next == IF k.pc \in {"wokenBusy", "rehashBusy"} THEN Ended(t, k)
                     ELSE At("follow", k.asset, k.ver)
  <2>1. /\ cached' = Without(cached, {k.asset}) /\ Step(t, next)
        /\ pending' = pending \ {k.asset} /\ Untouched /\ exempt' = exempt
    BY <1>2 DEF FollowerDiscards
  <2>2. Waiters(t) /\ task' = [u \in Tasks |-> task'[u]] /\ task'[t] = next
    BY <1>0, <2>1, StepShape
  <2>3. Turn(t, k) /\ Stats(k) /\ PendingKept(k)
    BY <2>1, <2>2 DEF Turn, Waits, Stats, PendingKept
  <2>4. cached' \in [Assets -> File \cup {None}] /\ FilesGo(t, k)
    BY <1>0, <1>2, <2>1, WithoutSome DEF FilesGo, CacheTypes
  <2> QED
    BY <2>2, <2>3, <2>4 DEF HydrationStep
<1>3. CASE ~IsOpen(k.asset) /\ ~(k.pc \in {"wokenBusy", "rehashBusy"} \/ Leaders(k.asset) # {})
  <2>1. Miss(t, k, Without(cached, {k.asset}))
    BY <1>3 DEF FollowerDiscards
  <2>2. Leaders(k.asset) \subseteq {t}
    BY <1>3
  <2> QED
    BY <1>3, <2>1, <2>2, MissStep
<1> QED
  BY <1>1, <1>2, <1>3

LEMMA StartHashStep ==
  ASSUME Safe, NEW t, NEW k, Caller(t, k), NEW pc \in Hashing,
         k.asset \in Managed, Present(k.asset), pc \in Leading => Leaders(k.asset) = {},
         StartHash(t, k, pc)
  PROVE  HydrationStep(t, k)
<1>0. CacheTypes /\ t \in Tasks
  BY DEF Safe, Caller
<1>1. /\ Waiters(t) /\ task' = [u \in Tasks |-> task'[u]]
      /\ task'[t] = [k EXCEPT !.pc = pc]
  BY <1>0, StepShape DEF StartHash
<1>2. Waits(t, k) /\ Stats(k) /\ PendingKept(k) /\ UNCHANGED <<cached, exempt>>
  BY <1>1 DEF StartHash, Waits, Hashes, Stats, PendingKept
<1> QED
  BY <1>0, <1>1, <1>2, IdleStep

\* What the three looks at a file without hashing it say.
LEMMA Looks ==
  ASSUME Safe, NEW a \in Assets, NEW v \in Versions
  PROVE  /\ Hit(a, v) => Serves(a, v)
         /\ Mismatch(a, v) => ~RightFor(a, v)
         /\ NeedsHash(a, v) => Present(a) /\ a \in Managed
<1>1. v # None
  BY CacheAssumption
<1>2. Hit(a, v) => Serves(a, v)
  BY <1>1 DEF Safe, Validated, Hit, Serves, Mismatch, NeedsHash
<1>3. Mismatch(a, v) => ~RightFor(a, v)
  BY DEF Mismatch, RightFor
<1>4. NeedsHash(a, v) => Present(a) /\ a \in Managed
  BY DEF NeedsHash
<1> QED
  BY <1>2, <1>3, <1>4

LEMMA HydrateStep ==
  ASSUME Safe, NEW t, NEW k, Caller(t, k), Hydrate(t, k)
  PROVE  HydrationStep(t, k)
<1>0. CacheTypes /\ t \in Tasks /\ k.asset \in Assets /\ k.ver \in Versions
  BY DEF Safe, Caller
<1>1. CASE Leaders(k.asset) # {}
  <2>1. /\ Step(t, [k EXCEPT !.pc = "follow"]) /\ Untouched
        /\ UNCHANGED <<cached, pending, exempt>>
    BY <1>1 DEF Hydrate
  <2>2. /\ Waiters(t) /\ task' = [u \in Tasks |-> task'[u]]
        /\ task'[t] = [k EXCEPT !.pc = "follow"]
    BY <1>0, <2>1, StepShape
  <2>3. Waits(t, k) /\ Stats(k) /\ PendingKept(k)
    BY <2>1, <2>2 DEF Waits, Stats, PendingKept
  <2> QED
    BY <1>0, <2>1, <2>2, <2>3, IdleStep
<1>2. CASE Leaders(k.asset) = {}
  <2>0. Leaders(k.asset) \subseteq {t}
    BY <1>2
  <2>1. CASE ~Present(k.asset) /\ Miss(t, k, cached)
    BY <2>0, <2>1, MissStep
  <2>2. CASE Hit(k.asset, k.ver) /\ LeaderServes(t, k)
    BY <1>0, <2>2, Looks, LeaderServesStep
  <2>3. CASE /\ NeedsHash(k.asset, k.ver)
             /\ StartHash(t, k, IF downloads THEN "hash" ELSE "hashOffline")
    <3>1. (IF downloads THEN "hash" ELSE "hashOffline") \in Hashing
      BY DEF Hashing
    <3>2. k.asset \in Managed /\ Present(k.asset)
      BY <1>0, <2>3, Looks
    <3> QED
      BY <1>2, <2>3, <3>1, <3>2, StartHashStep
  <2>4. CASE Mismatch(k.asset, k.ver) /\ downloads /\ LeaderDiscards(t, k)
    BY <1>0, <2>0, <2>4, Looks, LeaderDiscardsStep
  <2>5. CASE Mismatch(k.asset, k.ver) /\ ~downloads /\ Miss(t, k, cached)
    BY <2>0, <2>5, MissStep
  <2> QED
    BY <1>2, <2>1, <2>2, <2>3, <2>4, <2>5 DEF Hydrate
<1> QED
  BY <1>1, <1>2

\* A task of the cache calls with its own record.
LEMMA OwnRecord ==
  ASSUME Safe, NEW t \in Tasks, task[t].pc \notin {"idle", "closed", "download"}
  PROVE  Caller(t, task[t])
  BY DEF Safe, CacheTypes, TasksWork, Caller

LEMMA WokenStep ==
  ASSUME Safe, NEW t \in Tasks, Woken(t)
  PROVE  Caller(t, task[t]) /\ HydrationStep(t, task[t])
<1> DEFINE k == task[t]
<1>0. /\ CacheTypes /\ k.pc \in {"wokenOk", "wokenBusy"}
      /\ Caller(t, k) /\ k.asset \in Assets /\ k.ver \in Versions
  BY OwnRecord DEF Safe, Woken, Caller
<1>l. k.pc \notin Leading /\ {"rehashOk", "rehashBusy"} \subseteq Hashing \ Leading
  BY <1>0 DEF Leading, Hashing
<1> HIDE DEF k
<1>1. CASE /\ Hit(k.asset, k.ver) /\ Step(t, Served(t, k))
           /\ UNCHANGED <<cached, pending, exempt>>
           /\ Touching({<<k.asset, k.ver>>})
  <2>1. Waiters(t) /\ task' = [u \in Tasks |-> task'[u]] /\ task'[t] = Served(t, k)
    BY <1>0, <1>1, StepShape
  <2>2. Waits(t, k) /\ Stats(k) /\ PendingKept(k)
    BY <1>0, <1>1, <2>1, Looks DEF Waits, Stats, PendingKept
  <2> QED
    BY <1>0, <1>1, <2>1, <2>2, IdleStep DEF k
<1>2. CASE /\ NeedsHash(k.asset, k.ver)
           /\ StartHash(t, k, IF k.pc = "wokenOk" THEN "rehashOk" ELSE "rehashBusy")
  <2>1. k.asset \in Managed /\ Present(k.asset)
    BY <1>0, <1>2, Looks
  <2> DEFINE pc == IF k.pc = "wokenOk" THEN "rehashOk" ELSE "rehashBusy"
  <2>2. pc \in Hashing \ Leading
    BY <1>l
  <2> HIDE DEF pc
  <2>3. StartHash(t, k, pc)
    BY <1>2 DEF pc
  <2> QED
    BY <1>0, <2>1, <2>2, <2>3, StartHashStep DEF k
<1>3. CASE Mismatch(k.asset, k.ver) /\ FollowerDiscards(t, k)
  BY <1>0, <1>l, <1>3, Looks, FollowerDiscardsStep DEF k
<1>4. CASE ~Present(k.asset) /\ k.pc = "wokenOk" /\ Hydrate(t, k)
  BY <1>0, <1>4, HydrateStep DEF k
<1>5. CASE /\ ~Present(k.asset) /\ k.pc # "wokenOk" /\ Step(t, Ended(t, k))
           /\ UNCHANGED <<cached, pending, exempt>> /\ Untouched
  <2>1. Waiters(t) /\ task' = [u \in Tasks |-> task'[u]] /\ task'[t] = Ended(t, k)
    BY <1>0, <1>5, StepShape
  <2>2. Waits(t, k) /\ Stats(k) /\ PendingKept(k)
    BY <1>5, <2>1 DEF Waits, Stats, PendingKept
  <2> QED
    BY <1>0, <1>5, <2>1, <2>2, IdleStep DEF k
<1> QED
  BY <1>0, <1>1, <1>2, <1>3, <1>4, <1>5 DEF Woken, k

\* Who hashes, and what the hash says.
LEMMA Hashed ==
  ASSUME Safe, NEW t \in Tasks, task[t].pc \in Hashing
  PROVE  /\ Caller(t, task[t])
         /\ task[t].asset \in Managed /\ task[t].asset \in Assets /\ task[t].ver \in Versions
         /\ task[t].pc \in Leading => Leaders(task[t].asset) \subseteq {t}
         /\ HashedRight(t) => Serves(task[t].asset, task[t].ver)
         /\ ~HashedRight(t) => t \in moved \/ ~RightFor(task[t].asset, task[t].ver)
<1>1. Caller(t, task[t])
  BY OwnRecord DEF Hashing
<1>2. task[t].asset \in Managed /\ task[t].asset \in Assets /\ task[t].ver \in Versions
  BY <1>1 DEF Safe, FilesHashed, Caller
<1>3. task[t].pc \in Leading => Leaders(task[t].asset) \subseteq {t}
  BY DEF Safe, OneLeader, Leaders
<1>4. HashedRight(t) => Serves(task[t].asset, task[t].ver)
  BY <1>2 DEF Safe, FilesHashed, HashedRight, Serves
<1>5. ~HashedRight(t) => t \in moved \/ ~RightFor(task[t].asset, task[t].ver)
  BY DEF HashedRight, RightFor
<1> QED
  BY <1>1, <1>2, <1>3, <1>4, <1>5

LEMMA HashServesStep ==
  ASSUME Safe, NEW t \in Tasks, HashServes(t)
  PROVE  Caller(t, task[t]) /\ HydrationStep(t, task[t])
<1> DEFINE k == task[t]
<1>0. CacheTypes /\ Caller(t, k) /\ Serves(k.asset, k.ver)
  BY Hashed DEF Safe, HashServes
<1>1. CASE k.pc \in Leading
  BY <1>0, <1>1, LeaderServesStep DEF HashServes
<1>2. CASE k.pc \notin Leading
  <2>1. /\ Step(t, Served(t, k)) /\ UNCHANGED <<cached, pending, exempt>>
        /\ Touching({<<k.asset, k.ver>>})
    BY <1>2 DEF HashServes
  <2>2. Waiters(t) /\ task' = [u \in Tasks |-> task'[u]] /\ task'[t] = Served(t, k)
    BY <1>0, <2>1, StepShape
  <2> HIDE DEF k
  <2>3. Waits(t, k) /\ Stats(k) /\ PendingKept(k)
    BY <1>0, <2>1, <2>2 DEF Waits, Stats, PendingKept
  <2> QED
    BY <1>0, <2>1, <2>2, <2>3, IdleStep DEF k
<1> QED
  BY <1>1, <1>2

LEMMA HashFailsStep ==
  ASSUME Safe, NEW t \in Tasks, HashFails(t)
  PROVE  Caller(t, task[t]) /\ HydrationStep(t, task[t])
<1> DEFINE k == task[t]
<1>0. /\ k.pc \in Hashing /\ Caller(t, k) /\ k.asset \in Managed
      /\ k.pc \in Leading => Leaders(k.asset) \subseteq {t}
      /\ t \in moved \/ ~RightFor(k.asset, k.ver)
  BY Hashed DEF HashFails
<1>1. CASE k.pc = "hash"
  BY <1>0, <1>1, LeaderDiscardsStep DEF HashFails, Leading
<1>2. CASE k.pc = "hashOffline"
  <2>1. Miss(t, k, cached) /\ Leaders(k.asset) \subseteq {t}
    BY <1>0, <1>2 DEF HashFails, Leading
  <2>2. k.asset \in Managed /\ k.pc = "hashOffline" /\ Caller(t, k)
    BY <1>0, <1>2
  <2> HIDE DEF k
  <2>3. HydrationStep(t, k)
    BY <2>1, <2>2, MissStep
  <2> QED
    BY <2>2, <2>3 DEF k
<1>3. CASE k.pc \in {"rehashOk", "rehashBusy"}
  BY <1>0, <1>3, FollowerDiscardsStep DEF HashFails, Leading
<1> QED
  BY <1>0, <1>1, <1>2, <1>3 DEF Hashing

LEMMA HashMissedStep ==
  ASSUME Safe, NEW t \in Tasks, HashMissed(t)
  PROVE  Caller(t, task[t]) /\ HydrationStep(t, task[t])
<1> DEFINE k == task[t]
<1>0. /\ k.pc \in Hashing /\ Caller(t, k) /\ ~Present(k.asset) /\ CacheTypes
      /\ k.pc \in Leading => Leaders(k.asset) \subseteq {t}
  BY Hashed DEF HashMissed, Safe
<1>1. CASE k.pc \in Leading
  <2>1. Miss(t, k, cached) /\ Leaders(k.asset) \subseteq {t}
    BY <1>0, <1>1 DEF HashMissed
  <2> QED
    BY <1>0, <2>1, MissStep
<1>2. CASE k.pc = "rehashOk"
  BY <1>0, <1>2, HydrateStep DEF HashMissed, Leading
<1>3. CASE k.pc = "rehashBusy"
  <2>1. /\ Step(t, Ended(t, k)) /\ UNCHANGED <<cached, pending, exempt>>
        /\ Untouched
    BY <1>3 DEF HashMissed, Leading
  <2>2. Waiters(t) /\ task' = [u \in Tasks |-> task'[u]] /\ task'[t] = Ended(t, k)
    BY <1>0, <2>1, StepShape
  <2> HIDE DEF k
  <2>3. Waits(t, k) /\ Stats(k) /\ PendingKept(k)
    BY <2>1, <2>2 DEF Waits, Stats, PendingKept
  <2> QED
    BY <1>0, <2>1, <2>2, <2>3, IdleStep DEF k
<1> QED
  BY <1>0, <1>1, <1>2, <1>3 DEF Hashing, Leading

\* Every step of a hydration that is not one of its download.
Looking(t) == Woken(t) \/ HashServes(t) \/ HashFails(t) \/ HashMissed(t)

LEMMA LookingStep ==
  ASSUME Safe, NEW t \in Tasks, Looking(t)
  PROVE  Caller(t, task[t]) /\ HydrationStep(t, task[t])
  BY WokenStep, HashServesStep, HashFailsStep, HashMissedStep DEF Looking

-----------------------------------------------------------------------------
(* What is known of files by their stats.                                  *)

LEMMA UntouchedEffect ==
  ASSUME Untouched
  PROVE  /\ validated' = [a \in Assets |->
              IF cached'[a] = cached[a] THEN validated[a] ELSE None]
         /\ moved' = {t \in Tasks :
              /\ task'[t].pc \in Hashing
              /\ \/ t \in moved
                 \/ task[t].pc \in Hashing /\ cached'[task[t].asset] # cached[task[t].asset]}
<1> DEFINE touched == {}
<1>1. \A b : ~ \E w \in Versions : <<b, w>> \in touched
  OBVIOUS
<1>2. validated' = [b \in Assets |->
        IF \E w \in Versions : <<b, w>> \in touched
          THEN CHOOSE w \in Versions : <<b, w>> \in touched
          ELSE IF cached'[b] = cached[b] THEN validated[b] ELSE None]
  BY DEF Untouched, Touching
<1>3. moved' = {t \in Tasks :
        /\ task'[t].pc \in Hashing
        /\ \/ t \in moved
           \/ /\ task[t].pc \in Hashing
              /\ \/ cached'[task[t].asset] # cached[task[t].asset]
                 \/ \E w \in Versions : <<task[t].asset, w>> \in touched}
  BY DEF Untouched, Touching
<1> HIDE DEF touched
<1> QED
  BY <1>1, <1>2, <1>3

LEMMA TouchEffect ==
  ASSUME NEW a \in Assets, NEW v \in Versions, Touching({<<a, v>>})
  PROVE  /\ validated' = [b \in Assets |->
              IF b = a THEN v ELSE IF cached'[b] = cached[b] THEN validated[b] ELSE None]
         /\ moved' = {t \in Tasks :
              /\ task'[t].pc \in Hashing
              /\ \/ t \in moved
                 \/ /\ task[t].pc \in Hashing
                    /\ cached'[task[t].asset] # cached[task[t].asset] \/ task[t].asset = a}
<1> DEFINE touched == {<<a, v>>}
<1>1. \A b \in Assets : (\E w \in Versions : <<b, w>> \in touched) <=> b = a
  OBVIOUS
<1>2. (CHOOSE w \in Versions : <<a, w>> \in touched) = v
  OBVIOUS
<1>3. validated' = [b \in Assets |->
        IF \E w \in Versions : <<b, w>> \in touched
          THEN CHOOSE w \in Versions : <<b, w>> \in touched
          ELSE IF cached'[b] = cached[b] THEN validated[b] ELSE None]
  BY DEF Touching
<1>4. moved' = {t \in Tasks :
        /\ task'[t].pc \in Hashing
        /\ \/ t \in moved
           \/ /\ task[t].pc \in Hashing
              /\ \/ cached'[task[t].asset] # cached[task[t].asset]
                 \/ \E w \in Versions : <<task[t].asset, w>> \in touched}
  BY DEF Touching
<1>5. \A b : (\E w \in Versions : <<b, w>> \in touched) <=> b = a
  OBVIOUS
<1> HIDE DEF touched
<1>6. validated' = [b \in Assets |->
        IF b = a THEN v ELSE IF cached'[b] = cached[b] THEN validated[b] ELSE None]
  BY <1>1, <1>2, <1>3
<1>7. moved' = {t \in Tasks :
        /\ task'[t].pc \in Hashing
        /\ \/ t \in moved
           \/ /\ task[t].pc \in Hashing
              /\ cached'[task[t].asset] # cached[task[t].asset] \/ task[t].asset = a}
  BY <1>4, <1>5
<1> QED
  BY <1>6, <1>7

\* A hash that nothing spoils before or during a step.
StillHashed ==
  \A u \in Tasks :
    task'[u].pc \in Hashing /\ u \notin moved' /\ task[u].pc \in Hashing =>
      u \notin moved /\ cached'[task[u].asset] = cached[task[u].asset]

LEMMA StatsStayRight ==
  ASSUME CacheTypes, Validated, NEW a \in Assets, NEW v \in Versions,
         \/ Untouched
         \/ Touching({<<a, v>>}) /\ (a \in Managed => cached'[a] # None /\ cached'[a].bytes = v)
  PROVE  /\ Validated' /\ StillHashed
         /\ validated' \in [Assets -> Versions \cup {None}]
         /\ moved' \subseteq {u \in Tasks : task'[u].pc \in Hashing}
<1>1. Managed \subseteq Assets
  BY CacheAssumption
<1>2. CASE Untouched
  <2>1. /\ validated' = [b \in Assets |->
             IF cached'[b] = cached[b] THEN validated[b] ELSE None]
        /\ moved' = {t \in Tasks :
              /\ task'[t].pc \in Hashing
              /\ \/ t \in moved
                 \/ task[t].pc \in Hashing /\ cached'[task[t].asset] # cached[task[t].asset]}
    BY <1>2, UntouchedEffect
  <2>2. Validated' /\ validated' \in [Assets -> Versions \cup {None}]
    BY <1>1, <2>1 DEF Validated, CacheTypes, Present
  <2>3. moved' \subseteq {u \in Tasks : task'[u].pc \in Hashing}
    BY <2>1
  <2>4. StillHashed
    BY <2>1 DEF StillHashed
  <2> QED
    BY <2>2, <2>3, <2>4
<1>3. CASE Touching({<<a, v>>}) /\ (a \in Managed => cached'[a] # None /\ cached'[a].bytes = v)
  <2>1. /\ validated' = [b \in Assets |->
             IF b = a THEN v ELSE IF cached'[b] = cached[b] THEN validated[b] ELSE None]
        /\ moved' = {t \in Tasks :
              /\ task'[t].pc \in Hashing
              /\ \/ t \in moved
                 \/ /\ task[t].pc \in Hashing
                    /\ cached'[task[t].asset] # cached[task[t].asset] \/ task[t].asset = a}
    BY <1>3, TouchEffect
  <2>2. Validated' /\ validated' \in [Assets -> Versions \cup {None}]
    BY <1>1, <1>3, <2>1 DEF Validated, CacheTypes, Present
  <2> QED
    BY <2>1, <2>2 DEF StillHashed
<1> QED
  BY <1>2, <1>3

-----------------------------------------------------------------------------
(* Every step is safe.                                                     *)

\* TasksWork and FilesHashed, of one task.
Works(u) ==
  LET k == task[u] IN
  /\ k \in TaskRecord
  /\ k.pc = "idle" => u \in Fetchers /\ k = NoTask
  /\ k.pc = "closed" => u \in Readers /\ k = Closed
  /\ k.pc \in {"open", "opening"} => u \in Readers
  /\ k.pc \notin {"idle", "closed"} => k.asset \in Assets /\ k.ver \in Versions
  /\ k.pc = "download" => k.got <= Reservation(u)
  /\ k.pc \in Hashing => k.asset \in Managed
  /\ k.pc \in Hashing /\ u \notin moved => Present(k.asset)
  /\ k.pc = "download" /\ Present(k.asset) => k.asset \in Managed /\ k.asset \in late

LEMMA AllWork ==
  /\ Safe => \A u \in Tasks : Works(u)
  /\ (task' = [u \in Tasks |-> task'[u]] /\ \A u \in Tasks : Works(u)') =>
       TasksWork' /\ FilesHashed' /\ task' \in [Tasks -> TaskRecord]
<1>1. Safe => \A u \in Tasks : Works(u)
  BY DEF Safe, CacheTypes, TasksWork, FilesHashed, Works
<1>2. ASSUME task' = [u \in Tasks |-> task'[u]], \A u \in Tasks : Works(u)'
      PROVE  TasksWork' /\ FilesHashed' /\ task' \in [Tasks -> TaskRecord]
  BY <1>2 DEF TasksWork, FilesHashed, Works
<1> QED
  BY <1>1, <1>2

LEMMA Records ==
  ASSUME NEW u \in Tasks, NEW k, k.asset \in Assets, k.ver \in Versions
  PROVE  /\ NoTask \in TaskRecord /\ Closed \in TaskRecord
         /\ NoTask.pc = "idle" /\ NoTask.asset = None
         /\ Closed.pc = "closed" /\ Closed.asset = None
         /\ \A pc \in {"open", "opening", "follow", "download"} :
              /\ At(pc, k.asset, k.ver) \in TaskRecord /\ At(pc, k.asset, k.ver).pc = pc
              /\ At(pc, k.asset, k.ver).asset = k.asset /\ At(pc, k.asset, k.ver).ver = k.ver
              /\ At(pc, k.asset, k.ver).got = 0
         /\ k \in TaskRecord =>
              \A pc \in Following \cup Leading :
                /\ [k EXCEPT !.pc = pc] \in TaskRecord /\ [k EXCEPT !.pc = pc].pc = pc
                /\ [k EXCEPT !.pc = pc].asset = k.asset /\ [k EXCEPT !.pc = pc].ver = k.ver
  BY DEF NoTask, Closed, At, TaskRecord, Following, Leading

\* A task after a hydration has ended with nothing to serve.
LEMMA EndedWorks ==
  ASSUME NEW u \in Tasks, NEW k, k.asset \in Assets, k.ver \in Versions,
         \/ task'[u] = Ended(u, k)
         \/ task'[u] = Served(u, k)
         \/ task'[u] = At("follow", k.asset, k.ver)
         \/ k \in TaskRecord /\ task'[u] \in
              {[k EXCEPT !.pc = "follow"], [k EXCEPT !.pc = "wokenOk"], [k EXCEPT !.pc = "wokenBusy"]}
  PROVE  /\ Works(u)' /\ task'[u].pc \notin Leading \cup Hashing
         /\ u \in Readers => task'[u].asset = k.asset /\ task'[u].ver = k.ver
         /\ task'[u].pc = "opening" => task'[u] = Served(u, k) /\ u \in Readers
<1>1. /\ Following \cup Leading = {"follow", "wokenOk", "wokenBusy", "rehashOk", "rehashBusy",
                                   "hash", "hashOffline", "download"}
      /\ Hashing = {"hash", "hashOffline", "rehashOk", "rehashBusy"}
      /\ Leading = {"hash", "hashOffline", "download"}
  BY DEF Following, Leading, Hashing
<1>2. /\ task'[u] \in TaskRecord
      /\ \/ task'[u] = NoTask /\ u \in Fetchers /\ u \notin Readers
         \/ /\ task'[u].asset = k.asset /\ task'[u].ver = k.ver
            /\ \/ task'[u].pc = "open" /\ u \in Readers
               \/ task'[u].pc = "opening" /\ u \in Readers /\ task'[u] = Served(u, k)
               \/ task'[u].pc \in {"follow", "wokenOk", "wokenBusy"}
  <2>1. u \in Fetchers \/ u \in Readers
    BY DEF Tasks
  <2>2. CASE task'[u] = Ended(u, k)
    BY <2>1, <2>2, Records DEF Ended
  <2>3. CASE task'[u] = Served(u, k)
    BY <2>1, <2>3, Records DEF Served
  <2>4. CASE task'[u] = At("follow", k.asset, k.ver)
    BY <2>4, Records
  <2>5. CASE k \in TaskRecord /\ task'[u] \in
               {[k EXCEPT !.pc = "follow"], [k EXCEPT !.pc = "wokenOk"], [k EXCEPT !.pc = "wokenBusy"]}
    <3>1. PICK pc \in {"follow", "wokenOk", "wokenBusy"} : task'[u] = [k EXCEPT !.pc = pc]
      BY <2>5
    <3>2. /\ task'[u] \in TaskRecord /\ task'[u].pc = pc
          /\ task'[u].asset = k.asset /\ task'[u].ver = k.ver
      BY <1>1, <2>5, <3>1, Records
    <3> QED
      BY <3>1, <3>2
  <2> QED
    BY <2>2, <2>3, <2>4, <2>5
<1>3. CASE task'[u] = NoTask /\ u \in Fetchers /\ u \notin Readers
  BY <1>1, <1>2, <1>3, Records DEF Works
<1>4. CASE task'[u].asset = k.asset /\ task'[u].ver = k.ver /\ task'[u].pc = "open" /\ u \in Readers
  BY <1>1, <1>2, <1>4 DEF Works
<1>5. CASE /\ task'[u].asset = k.asset /\ task'[u].ver = k.ver
           /\ task'[u].pc = "opening" /\ u \in Readers /\ task'[u] = Served(u, k)
  BY <1>1, <1>2, <1>5 DEF Works
<1>6. CASE /\ task'[u].asset = k.asset /\ task'[u].ver = k.ver
           /\ task'[u].pc \in {"follow", "wokenOk", "wokenBusy"}
  BY <1>1, <1>2, <1>6 DEF Works
<1> QED
  BY <1>2, <1>3, <1>4, <1>5, <1>6

\* One that goes on as it was, while no file it needs changes.
LEMMA StaysWorking ==
  ASSUME Safe, NEW u \in Tasks, task'[u] = task[u], StillHashed, late \subseteq late',
         task[u].asset \in Assets =>
           cached'[task[u].asset] \in {cached[task[u].asset], None}
           \/ task[u].pc \notin Hashing \cup {"download"}
  PROVE  Works(u)'
  BY AllWork, CacheAssumption DEF Works, StillHashed, Present, Reservation, Hashing

\* The task whose turn it is does not wait, hash or download twice.
LEMMA TurnWorks ==
  ASSUME Safe, NEW t, NEW k, Caller(t, k), HydrationStep(t, k), LateKept(t, k)
  PROVE  /\ Works(t)'
         /\ t \in Readers => task'[t].asset = k.asset
         /\ task'[t].pc \in Leading => Leaders(k.asset) \subseteq {t} /\ task'[t].asset = k.asset
         /\ task'[t].pc = "opening" =>
              /\ cached' = cached /\ Serves(k.asset, k.ver)
              /\ task'[t].asset = k.asset /\ task'[t].ver = k.ver
<1>0. /\ t \in Tasks /\ k.asset \in Assets /\ k.ver \in Versions /\ k \in TaskRecord
      /\ SizeOf[k.asset][k.ver] \in Nat
  BY CacheAssumption DEF Caller
<1>1. /\ Following \cup Leading = {"follow", "wokenOk", "wokenBusy", "rehashOk", "rehashBusy",
                                   "hash", "hashOffline", "download"}
      /\ Hashing = {"hash", "hashOffline", "rehashOk", "rehashBusy"}
      /\ Leading = {"hash", "hashOffline", "download"}
  BY DEF Following, Leading, Hashing
<1>2. CASE \/ task'[t] = Ended(t, k)
           \/ task'[t] = Served(t, k) /\ cached' = cached /\ Serves(k.asset, k.ver)
           \/ task'[t] \in {[k EXCEPT !.pc = "follow"], At("follow", k.asset, k.ver)}
  <2>1. /\ Works(t)' /\ task'[t].pc \notin Leading \cup Hashing
        /\ t \in Readers => task'[t].asset = k.asset /\ task'[t].ver = k.ver
        /\ task'[t].pc = "opening" => task'[t] = Served(t, k) /\ t \in Readers
    BY <1>0, <1>2, EndedWorks
  <2>2. task'[t].pc = "opening" => cached' = cached /\ Serves(k.asset, k.ver)
    <3>1. CASE task'[t] = Ended(t, k)
      BY <1>0, <3>1, Records DEF Ended
    <3>2. CASE task'[t] \in {[k EXCEPT !.pc = "follow"], At("follow", k.asset, k.ver)}
      BY <1>0, <3>2 DEF TaskRecord, At, NoTask
    <3> QED
      BY <1>2, <3>1, <3>2
  <2> QED
    BY <2>1, <2>2
<1>3. ASSUME NEW pc \in Hashing, Hashes(k, pc), task'[t] = [k EXCEPT !.pc = pc]
      PROVE  /\ Works(t)' /\ task'[t].asset = k.asset /\ task'[t].pc = pc
             /\ pc \in Leading => Leaders(k.asset) \subseteq {t}
  <2>1. /\ task'[t] \in TaskRecord /\ task'[t].pc = pc
        /\ task'[t].asset = k.asset /\ task'[t].ver = k.ver
    BY <1>0, <1>1, <1>3, Records
  <2>2. Works(t)'
    BY <1>0, <1>1, <1>3, <2>1 DEF Works, Hashes, Present
  <2> QED
    BY <1>3, <2>1, <2>2 DEF Hashes
<1>4. CASE Admitted(t, k)
  <2>1. /\ task'[t] \in TaskRecord /\ task'[t].pc = "download" /\ task'[t].got = 0
        /\ task'[t].asset = k.asset /\ task'[t].ver = k.ver
    BY <1>0, <1>4, Records DEF Admitted
  <2>2. Works(t)'
    BY <1>0, <1>1, <1>4, <2>1 DEF Works, Admitted, Reservation, Present, LateKept
  <2> QED
    BY <1>4, <2>1, <2>2 DEF Admitted
<1>5. "opening" \notin Hashing
  BY <1>1
<1> QED
  BY <1>2, <1>3, <1>4, <1>5 DEF HydrationStep, Turn, Waits

LEMMA WaitersWork ==
  ASSUME Safe, NEW t, Waiters(t), StillHashed, late \subseteq late',
         \A a \in Assets : cached'[a] \in {cached[a], None},
         NEW u \in Tasks \ {t}
  PROVE  /\ Works(u)'
         /\ u \in Readers => task'[u].asset = task[u].asset
         /\ task'[u].pc \in Leading \cup {"opening"} => task'[u] = task[u]
<1>1. CASE task'[u] = task[u]
  BY <1>1, StaysWorking
<1>2. CASE /\ task[u].pc = "follow"
           /\ task'[u] \in {Ended(u, task[u]), [task[u] EXCEPT !.pc = "wokenOk"],
                            [task[u] EXCEPT !.pc = "wokenBusy"]}
  <2>1. task[u] \in TaskRecord /\ task[u].asset \in Assets /\ task[u].ver \in Versions
    BY <1>2, AllWork DEF Works
  <2>2. /\ Works(u)' /\ task'[u].pc \notin Leading \cup Hashing
        /\ u \in Readers => task'[u].asset = task[u].asset
    BY <1>2, <2>1, EndedWorks
  <2>3. task'[u].pc # "opening"
    <3>1. CASE task'[u] = Ended(u, task[u])
      BY <2>1, <3>1, Records DEF Ended
    <3>2. ASSUME NEW pc \in {"wokenOk", "wokenBusy"}, task'[u] = [task[u] EXCEPT !.pc = pc]
          PROVE  task'[u].pc = pc
      BY <2>1, <3>2 DEF TaskRecord
    <3> QED
      BY <1>2, <3>1, <3>2
  <2> QED
    BY <2>2, <2>3
<1> QED
  BY <1>1, <1>2 DEF Waiters

LEMMA HydrationSafe ==
  ASSUME Safe, NEW t, NEW k, Caller(t, k), HydrationStep(t, k), LateKept(t, k),
         UNCHANGED outside, downloads' \in BOOLEAN, trouble' \in 0..MaxTrouble,
         pinned' \subseteq Assets, pinQueue' \in [Assets -> Versions \cup {None}]
  PROVE  Safe'
<1>0. /\ t \in Tasks /\ k.asset \in Assets /\ k.ver \in Versions
      /\ t \in Readers => task[t].asset = k.asset
      /\ CacheTypes /\ Validated
  BY DEF Caller, Safe
<1>1. /\ \A a \in Assets : cached'[a] \in {cached[a], None}
      /\ \A a \in Assets : cached'[a] = cached[a] \/ ~IsOpen(a)
  BY DEF HydrationStep, FilesGo
<1>2. /\ Validated' /\ StillHashed
      /\ validated' \in [Assets -> Versions \cup {None}]
      /\ moved' \subseteq {u \in Tasks : task'[u].pc \in Hashing}
  BY <1>0, StatsStayRight DEF HydrationStep, Stats, Serves, Present
<1>3. /\ Works(t)'
      /\ t \in Readers => task'[t].asset = k.asset
      /\ task'[t].pc \in Leading => Leaders(k.asset) \subseteq {t} /\ task'[t].asset = k.asset
      /\ task'[t].pc = "opening" =>
           /\ cached' = cached /\ Serves(k.asset, k.ver)
           /\ task'[t].asset = k.asset /\ task'[t].ver = k.ver
  BY TurnWorks
<1>4. \A u \in Tasks \ {t} :
        /\ Works(u)'
        /\ u \in Readers => task'[u].asset = task[u].asset
        /\ task'[u].pc \in Leading \cup {"opening"} => task'[u] = task[u]
  BY <1>1, <1>2, WaitersWork DEF HydrationStep, LateKept
<1>5. TasksWork' /\ FilesHashed' /\ task' \in [Tasks -> TaskRecord]
  BY <1>3, <1>4, AllWork DEF HydrationStep
<1>6. pending' \subseteq Assets /\ exempt' \subseteq Assets
  BY <1>0 DEF HydrationStep, PendingKept, CacheTypes, Turn, Admitted
<1>l. late \subseteq late' /\ late' \subseteq Assets
  BY DEF LateKept
<1>7. CacheTypes'
  BY <1>0, <1>2, <1>5, <1>6, <1>l DEF CacheTypes, HydrationStep, outside
<1>8. OneLeader'
  BY <1>3, <1>4 DEF OneLeader, Leaders, Safe
<1>9. PutOff'
  <2>1. \A r \in Readers : task'[r].asset = task[r].asset
    BY <1>0, <1>3, <1>4 DEF Tasks
  <2> QED
    BY <2>1 DEF HydrationStep, PendingKept, PutOff, IsOpen, Holders, Safe
<1>10. BytesAreRight'
  <2> SUFFICES ASSUME NEW r \in Readers, task'[r].pc = "opening", task'[r].asset \notin late'
               PROVE  Serves(task[r].asset, task[r].ver)'
    BY DEF BytesAreRight, Serves, Present
  <2>1. CASE r = t
    BY <1>3, <2>1 DEF Serves, Present
  <2>2. CASE r # t
    <3>1. task'[r] = task[r] /\ r \in Tasks
      BY <1>4, <2>2 DEF Tasks
    <3>2. Serves(task[r].asset, task[r].ver) /\ task[r].asset \in Assets /\ IsOpen(task[r].asset)
      BY <1>l, <3>1 DEF Safe, BytesAreRight, Serves, TasksWork, IsOpen, Holders
    <3> QED
      BY <1>1, <3>1, <3>2 DEF Serves, Present
  <2> QED
    BY <2>1, <2>2
<1> QED
  BY <1>2, <1>5, <1>7, <1>8, <1>9, <1>10 DEF Safe

\* A download goes on with what it has, or writes one chunk more.
GoesOn(t) ==
  task'[t].pc = "download" =>
    /\ task[t].pc = "download" /\ task'[t].asset = task[t].asset
    /\ task'[t].ver = task[t].ver /\ task'[t].got = task[t].got

Writes(t) ==
  /\ task'[t].pc = "download" /\ task[t].pc = "download"
  /\ task'[t].asset = task[t].asset /\ task'[t].ver = task[t].ver
  /\ task'[t].got = task[t].got + 1
  /\ cached' = cached /\ Disk >= Taken(cached) + 1 + Floor

\* A step without a hydration: the task t moves, or a file goes that nobody
\* holds before and after.
Plain(t) ==
  /\ Waiters(t) /\ task' = [u \in Tasks |-> task'[u]] /\ Works(t)'
  /\ cached' \in [Assets -> File \cup {None}]
  /\ \A a \in Assets :
       \/ cached'[a] = cached[a]
       \/ cached'[a] = None /\ ~SomebodyHolds(a) /\ (a \notin pinned \/ a \in pending)
  /\ GoesOn(t) \/ Writes(t)
  /\ task'[t].pc \in Leading =>
       task[t].pc \in Leading /\ task'[t].asset = task[t].asset
  /\ task'[t].pc = "opening" => task'[t] = task[t]
  /\ pending' \subseteq pending /\ PutOff'
  /\ Untouched

LEMMA PlainSafe ==
  ASSUME Safe, NEW t \in Tasks, Plain(t),
         UNCHANGED <<outside, late, exempt, trouble>>, downloads' \in BOOLEAN,
         pinned' \subseteq Assets, pinQueue' \in [Assets -> Versions \cup {None}]
  PROVE  Safe'
<1>0. CacheTypes /\ Validated /\ FirstVersion \in Versions /\ BytesAreRight
  BY CacheAssumption DEF Safe
<1>1. \A a \in Assets : cached'[a] \in {cached[a], None}
  BY DEF Plain
<1>2. /\ Validated' /\ StillHashed
      /\ validated' \in [Assets -> Versions \cup {None}]
      /\ moved' \subseteq {u \in Tasks : task'[u].pc \in Hashing}
  <2>1. CASE Assets = {}
    <3>1. Managed = {}
      BY <2>1, CacheAssumption
    <3> QED
      BY <2>1, <3>1, UntouchedEffect DEF Plain, Validated, StillHashed
  <2>2. CASE Assets # {}
    <3>1. PICK a \in Assets : TRUE
      BY <2>2
    <3> QED
      BY <1>0, StatsStayRight DEF Plain
  <2> QED
    BY <2>1, <2>2
<1>4. \A u \in Tasks \ {t} :
        /\ Works(u)'
        /\ u \in Readers => task'[u].asset = task[u].asset
        /\ task'[u].pc \in Leading \cup {"opening"} => task'[u] = task[u]
  BY <1>1, <1>2, WaitersWork DEF Plain
<1>5. TasksWork' /\ FilesHashed' /\ task' \in [Tasks -> TaskRecord]
  BY <1>4, AllWork DEF Plain
<1>7. CacheTypes'
  BY <1>0, <1>2, <1>5 DEF CacheTypes, Plain, outside
<1>8. OneLeader'
  BY <1>4 DEF OneLeader, Safe, Plain
<1>10. BytesAreRight'
  <2> SUFFICES ASSUME NEW r \in Readers, task'[r].pc = "opening", task'[r].asset \notin late
               PROVE  Serves(task[r].asset, task[r].ver)'
    BY DEF BytesAreRight, Serves, Present
  <2>1. task'[r] = task[r] /\ r \in Tasks
    BY <1>4 DEF Tasks, Plain
  <2>2. Serves(task[r].asset, task[r].ver) /\ task[r].asset \in Assets /\ SomebodyHolds(task[r].asset)
    BY <1>0, <2>1 DEF Safe, BytesAreRight, Serves, TasksWork, SomebodyHolds, Present
  <2>3. cached'[task[r].asset] = cached[task[r].asset]
    BY <2>2 DEF Plain
  <2> QED
    BY <2>1, <2>2, <2>3 DEF Serves, Present
<1> QED
  BY <1>2, <1>5, <1>7, <1>8, <1>10 DEF Safe, Plain

LEMMA DownloadPlain ==
  ASSUME Safe, NEW t \in Tasks, Answer(t) \/ WriteChunk(t) \/ DownloadFails(t)
  PROVE  Plain(t) /\ exempt' = exempt
<1>0. /\ CacheTypes /\ PutOff /\ Works(t) /\ task[t] \in TaskRecord
      /\ task[t].asset \in Assets /\ task[t].ver \in Versions /\ task[t].pc = "download"
  BY AllWork DEF Safe, Works, Answer, WriteChunk, DownloadFails
<1>1. /\ UNCHANGED <<cached, pending, exempt, late>> /\ Untouched
  BY DEF Answer, WriteChunk, DownloadFails, Keeping
<1>2. CASE Answer(t) \/ WriteChunk(t)
  <2>1. /\ task'[t].pc = "download" /\ task'[t].asset = task[t].asset
        /\ task'[t].ver = task[t].ver
        /\ task'[t] \in TaskRecord /\ task'[t].got <= SizeOf[task[t].asset][task[t].ver]
        /\ Waiters(t) /\ task' = [u \in Tasks |-> task'[u]]
        /\ GoesOn(t) \/ Writes(t)
    <3>1. CASE Answer(t)
      <4>1. task'[t] = [task[t] EXCEPT !.from = server[task[t].asset]]
        BY <1>0, <3>1, StepShape DEF Answer
      <4>2. server[task[t].asset] \in Versions
        BY <1>0 DEF CacheTypes
      <4> QED
        BY <1>0, <3>1, <4>1, <4>2, StepShape DEF TaskRecord, Answer, Works, Reservation, GoesOn
    <3>2. CASE WriteChunk(t)
      <4>1. task'[t] = [task[t] EXCEPT !.got = task[t].got + 1]
        BY <1>0, <3>2, StepShape DEF WriteChunk
      <4>2. task[t].got + 1 <= SizeOf[task[t].asset][task[t].ver]
        BY <1>0, <3>2, CacheAssumption DEF WriteChunk, Reservation, TaskRecord
      <4> QED
        BY <1>0, <3>2, <4>1, <4>2, StepShape DEF TaskRecord, WriteChunk, Writes
    <3> QED
      BY <1>2, <3>1, <3>2
  <2>2. Works(t)'
    BY <1>0, <1>1, <2>1 DEF Works, Reservation, Hashing, Present
  <2>3. PutOff'
    <3>1. \A r \in Readers : task'[r].asset = task[r].asset
      BY <1>0, <2>1, StepShape, <1>2 DEF CacheTypes, Answer, WriteChunk, Step, Tasks
    <3> QED
      BY <1>0, <1>1, <3>1 DEF PutOff, IsOpen, Holders
  <2> QED
    BY <1>0, <1>1, <2>1, <2>2, <2>3 DEF Plain, CacheTypes, Leading
<1>3. CASE DownloadFails(t)
  <2>1. Waiters(t) /\ task' = [u \in Tasks |-> task'[u]] /\ task'[t] = Ended(t, task[t])
    BY <1>0, <1>3, FinishShape DEF DownloadFails
  <2>2. /\ Works(t)' /\ task'[t].pc \notin Leading \cup {"opening"}
        /\ t \in Readers => task'[t].asset = task[t].asset
    <3>1. task'[t].pc # "opening"
      BY <1>0, <2>1, Records DEF Ended
    <3> QED
      BY <1>0, <2>1, <3>1, EndedWorks
  <2>3. StillHashed
    BY <1>1, UntouchedEffect DEF StillHashed
  <2>4. \A r \in Readers : task'[r].asset = task[r].asset
    BY <1>1, <2>1, <2>2, <2>3, WaitersWork DEF Tasks
  <2>5. PutOff'
    BY <1>0, <1>1, <2>4 DEF PutOff, IsOpen, Holders
  <2> QED
    BY <1>0, <1>1, <2>1, <2>2, <2>5 DEF Plain, CacheTypes, GoesOn, Leading
<1> QED
  BY <1>1, <1>2, <1>3

LEMMA ReaderPlain ==
  ASSUME Safe, NEW r \in Readers, Open(r) \/ Deliver(r) \/ Close(r)
  PROVE  Plain(r) /\ exempt' = exempt
<1>0. /\ r \in Tasks /\ CacheTypes /\ PutOff /\ Works(r) /\ task[r] \in TaskRecord
      /\ r \notin Fetchers
  BY AllWork, CacheAssumption DEF Safe, Works, Tasks
<1>s. ASSUME NEW k, Step(r, k)
      PROVE  /\ Waiters(r) /\ task' = [u \in Tasks |-> task'[u]] /\ task'[r] = k
             /\ \A q \in Readers : q # r => task'[q] = task[q]
  <2>1. task' = [task EXCEPT ![r] = k]
    BY <1>0, <1>s, StepShape
  <2> QED
    BY <1>0, <1>s, <2>1, StepShape DEF CacheTypes, Tasks
<1>1. CASE Open(r)
  <2>1. PICK a \in Assets : Step(r, At("open", a, catalog[a]))
    BY <1>1 DEF Open
  <2>2. task[r] = Closed /\ catalog[a] \in Versions
    BY <1>0, <1>1 DEF Open, Works, CacheTypes
  <2> DEFINE k == At("open", a, catalog[a])
  <2>3. /\ k \in TaskRecord /\ k.pc = "open" /\ k.asset = a /\ k.ver = catalog[a]
        /\ task[r].asset = None /\ None \notin Assets
    BY <2>2, CacheAssumption DEF At, NoTask, TaskRecord, Closed
  <2> HIDE DEF k
  <2>4. task'[r] = k
    BY <1>s, <2>1 DEF k
  <2>5. Works(r)'
    BY <1>0, <2>2, <2>3, <2>4 DEF Works, Hashing
  <2>6. PutOff'
    BY <1>0, <1>1, <1>s, <2>1, <2>3 DEF PutOff, IsOpen, Holders, Open, CacheTypes
  <2> QED
    BY <1>0, <1>1, <1>s, <2>1, <2>3, <2>4, <2>5, <2>6 DEF Plain, Open, Leading, CacheTypes, GoesOn
<1>2. CASE Deliver(r)
  <2> DEFINE k == At("open", task[r].asset, task[r].ver)
  <2>1. task[r].asset \in Assets /\ task[r].ver \in Versions
    BY <1>0, <1>2 DEF Deliver, Works
  <2>3. /\ k \in TaskRecord /\ k.pc = "open" /\ k.asset = task[r].asset /\ k.ver = task[r].ver
    BY <2>1 DEF At, NoTask, TaskRecord
  <2>4. Step(r, k) /\ UNCHANGED <<cached, pending, exempt>> /\ Untouched
    BY <1>2 DEF Deliver
  <2> HIDE DEF k
  <2>5. Works(r)'
    BY <1>0, <1>s, <2>1, <2>3, <2>4 DEF Works, Hashing
  <2>6. PutOff'
    BY <1>0, <1>s, <2>3, <2>4 DEF PutOff, IsOpen, Holders
  <2> QED
    BY <1>0, <1>s, <2>3, <2>4, <2>5, <2>6 DEF Plain, Leading, CacheTypes, GoesOn
<1>3. CASE Close(r)
  <2> DEFINE a == task[r].asset
  <2>1. /\ Step(r, Closed) /\ exempt' = exempt /\ Untouched /\ a \in Assets
        /\ task'[r] = Closed /\ Closed.asset = None /\ None \notin Assets
    BY <1>0, <1>3, <1>s, CacheAssumption DEF Close, Works, Closed, NoTask
  <2>2. Works(r)'
    <3>1. Closed \in TaskRecord /\ Closed.pc = "closed"
      BY DEF Closed, NoTask, TaskRecord
    <3> QED
      BY <2>1, <3>1 DEF Works, Hashing
  <2>3. CASE Holders(a) = {r} /\ a \in pending
    <3>1. cached' = Without(cached, {a}) /\ pending' = pending \ {a}
      BY <1>3, <2>3 DEF Close
    <3>2. ~SomebodyHolds(a)
      BY <2>1, <2>3 DEF Holders, SomebodyHolds
    <3>3. /\ cached' \in [Assets -> File \cup {None}]
          /\ \A b \in Assets :
               \/ cached'[b] = cached[b]
               \/ cached'[b] = None /\ ~SomebodyHolds(b) /\ b \in pending
      <4>1. /\ cached \in [Assets -> File \cup {None}]
            /\ \A b \in Assets : b \in {a} => ~SomebodyHolds(b) /\ b \in pending
        BY <1>0, <2>3, <3>2 DEF CacheTypes
      <4>2. /\ cached' \in [Assets -> File \cup {None}]
            /\ \A b \in Assets : cached'[b] = IF b \in {a} THEN None ELSE cached[b]
        BY <1>0, <3>1, <4>1, WithoutSome
      <4> QED
        BY <4>1, <4>2
    <3>4. PutOff'
      BY <1>0, <1>s, <2>1, <3>1 DEF PutOff, IsOpen, Holders, CacheTypes
    <3>5. task'[r].pc \notin Leading \cup {"opening"}
      BY <2>1 DEF Closed, NoTask, Leading
    <3> QED
      BY <1>s, <2>1, <2>2, <3>1, <3>3, <3>4, <3>5 DEF Plain, GoesOn, Leading
  <2>4. CASE ~(Holders(a) = {r} /\ a \in pending)
    <3>1. cached' = cached /\ pending' = pending
      BY <1>3, <2>4 DEF Close
    <3>2. ASSUME NEW b \in pending PROVE \E q \in Readers : q # r /\ task[q].asset = b
      BY <1>0, <2>4, <3>2 DEF PutOff, IsOpen, Holders
    <3>4. PutOff'
      BY <1>s, <2>1, <3>1, <3>2 DEF PutOff, IsOpen, Holders
    <3>5. task'[r].pc \notin Leading \cup {"opening"}
      BY <2>1 DEF Closed, NoTask, Leading
    <3> QED
      BY <1>0, <1>s, <2>1, <2>2, <3>1, <3>4, <3>5 DEF Plain, CacheTypes, GoesOn, Leading
  <2> QED
    BY <2>3, <2>4
<1> QED
  BY <1>1, <1>2, <1>3 DEF Open, Deliver, Close

\* Eviction alone.
LEMMA EvictionPlain ==
  ASSUME Safe, NEW S, S \subseteq Evictable(cached, pinned), cached' = Without(cached, S),
         UNCHANGED <<task, pending, late>>, Untouched
  PROVE  PinWorker \in Tasks /\ Plain(PinWorker)
<1>0. PinWorker \in Tasks /\ CacheTypes /\ PutOff /\ Works(PinWorker)
  BY AllWork DEF Tasks, Fetchers, Safe
<1>1. /\ cached' \in [Assets -> File \cup {None}]
      /\ \A a \in Assets : cached'[a] = IF a \in S THEN None ELSE cached[a]
  BY <1>0, WithoutSome DEF CacheTypes
<1>2. \A a \in S : ~SomebodyHolds(a) /\ a \notin pinned
  BY DEF Evictable, Busy, IsOpen, Holders, SomebodyHolds
<1>3. StillHashed /\ late \subseteq late'
  BY UntouchedEffect DEF StillHashed
<1>4. Works(PinWorker)'
  BY <1>0, <1>1, <1>3, StaysWorking
<1>5. Waiters(PinWorker) /\ task' = [u \in Tasks |-> task'[u]] /\ PutOff'
  BY <1>0 DEF Waiters, CacheTypes, PutOff, IsOpen, Holders
<1> QED
  BY <1>0, <1>1, <1>2, <1>4, <1>5 DEF Plain, GoesOn

\* Nothing of the cache itself changes.
LEMMA StateKept ==
  ASSUME Safe, UNCHANGED <<state, late, exempt>>,
         server' \in [Assets -> Versions], catalog' \in [Assets -> Versions],
         pinned' \subseteq Assets, pinQueue' \in [Assets -> Versions \cup {None}],
         downloads' \in BOOLEAN, foreign' \in 0..Disk, trouble' \in 0..MaxTrouble
  PROVE  Safe'
<1> USE DEF Safe, state
<1>1. CacheTypes'
  BY DEF CacheTypes
<1>2. PutOff' /\ OneLeader' /\ Validated'
  BY DEF PutOff, IsOpen, Holders, OneLeader, Validated, Present
<1>3. TasksWork' /\ FilesHashed'
  BY DEF TasksWork, FilesHashed, Reservation, Present
<1>4. BytesAreRight'
  BY DEF BytesAreRight, Present
<1> QED
  BY <1>1, <1>2, <1>3, <1>4

LEMMA SumsAreNatural ==
  ASSUME Safe, NEW files \in [Assets -> File \cup {None}]
  PROVE  /\ Total(files) \in Nat /\ Written \in Nat /\ Reserved \in Nat /\ Remaining \in Nat
         /\ IsFiniteSet(Tasks) /\ IsFiniteSet(Downloading)
         /\ \A a \in Assets : FileSizes(files)[a] \in Nat
         /\ \A t \in Downloading :
              Reservation(t) \in Nat /\ task[t].got \in Nat /\ task[t].got <= Reservation(t)
<1>1. IsFiniteSet(Fetchers) /\ IsFiniteSet(Readers) /\ IsFiniteSet(Assets)
  <2>1. IsFiniteSet({PinWorker}) /\ IsFiniteSet({UploadWorker})
    BY FS_Singleton
  <2>2. IsFiniteSet({PinWorker} \cup {UploadWorker})
    BY <2>1, FS_Union
  <2>3. Fetchers = {PinWorker} \cup {UploadWorker}
    BY DEF Fetchers
  <2> QED
    BY <2>2, <2>3, CacheAssumption
<1>2. IsFiniteSet(Tasks)
  BY <1>1, FS_Union DEF Tasks
<1>3. IsFiniteSet(Downloading)
  BY <1>2, FS_Subset DEF Downloading
<1>4. \A a \in Assets : FileSizes(files)[a] \in Nat
  BY CacheAssumption DEF FileSizes, File
<1>5. \A t \in Downloading :
        /\ Reservation(t) \in Nat /\ task[t].got \in Nat /\ task[t].got <= Reservation(t)
  BY CacheAssumption DEF Safe, CacheTypes, TasksWork, TaskRecord, Downloading, Reservation
<1>6. Total(files) \in Nat
  BY <1>1, <1>4, SumIsNat DEF Total
<1>7. Written \in Nat
  BY <1>3, <1>5, SumIsNat DEF Written
<1>8. Reserved \in Nat
  BY <1>3, <1>5, SumIsNat DEF Reserved, Reservations
<1>9. Remaining \in Nat
  BY <1>3, <1>5, SumIsNat DEF Remaining
<1> QED
  BY <1>2, <1>3, <1>4, <1>5, <1>6, <1>7, <1>8, <1>9

-----------------------------------------------------------------------------
(* The steps that run a hydration.                                         *)

\* A hydration goes on, or begins: for a read, for a pin from the queue, or for
\* the pin of a replacement.
Hydrates(t, k) ==
  /\ Caller(t, k) /\ HydrationStep(t, k) /\ LateKept(t, k)
  /\ UNCHANGED <<outside, downloads>>
  /\ k = task[t] \/ (task[t] = NoTask /\ k.ver \in {pinQueue[k.asset], catalog[k.asset]})

LEMMA LookingHydrates ==
  ASSUME Safe, NEW t \in Tasks, Looking(t)
  PROVE  /\ Hydrates(t, task[t]) /\ UNCHANGED <<pinned, pinQueue, trouble>>
<1>1. UNCHANGED <<outside, downloads, pinned, pinQueue, trouble>>
  BY DEF Looking, Woken, HashServes, HashFails, HashMissed, Keeping
<1>2. Caller(t, task[t]) /\ HydrationStep(t, task[t])
  BY LookingStep
<1>3. late \subseteq Assets /\ task[t].asset \in Assets
  BY <1>2 DEF Safe, CacheTypes, Caller
<1>4. CASE HashFails(t)
  <2>1. late' = IF task[t].pc = "hashOffline" /\ task'[t].pc = "download"
                  THEN late \cup {task[t].asset} ELSE late
    BY <1>4 DEF HashFails
  <2> QED
    BY <1>1, <1>2, <1>3, <2>1 DEF Hydrates, LateKept
<1>5. CASE HashMissed(t)
  <2>1. late' = late /\ ~Present(task[t].asset)
    BY <1>5 DEF HashMissed, Keeping
  <2>2. cached'[task[t].asset] = None
    BY <1>2, <1>3, <2>1 DEF HydrationStep, FilesGo, Present
  <2> QED
    BY <1>1, <1>2, <1>3, <2>1, <2>2 DEF Hydrates, LateKept
<1>6. CASE Woken(t) \/ HashServes(t)
  <2>1. late' = late
    BY <1>6 DEF Woken, HashServes, Keeping
  <2>2. task'[t].pc # "download" \/ task[t].pc # "hashOffline"
    <3>1. CASE Woken(t)
      BY <3>1 DEF Woken
    <3>2. CASE HashServes(t)
      <4>1. task'[t] = Served(t, task[t])
        <5>1. CASE task[t].pc \in Leading
          BY <3>2, <5>1, FinishShape DEF HashServes, LeaderServes, Safe
        <5>2. CASE task[t].pc \notin Leading
          BY <3>2, <5>2, StepShape DEF HashServes, Safe
        <5> QED
          BY <5>1, <5>2
      <4> QED
        BY <4>1 DEF Served, At, NoTask
    <3> QED
      BY <1>6, <3>1, <3>2
  <2> QED
    BY <1>1, <1>2, <1>3, <2>1, <2>2 DEF Hydrates, LateKept
<1> QED
  BY <1>4, <1>5, <1>6 DEF Looking, HashFails, HashMissed, Woken, HashServes, Keeping

LEMMA ReadHydrates ==
  ASSUME Safe, NEW r \in Readers, Read(r)
  PROVE  r \in Tasks /\ Hydrates(r, task[r]) /\ UNCHANGED <<pinned, pinQueue, trouble>>
<1>1. r \in Tasks /\ Caller(r, task[r])
  BY OwnRecord DEF Tasks, Read
<1>2. late' = late /\ late \subseteq Assets /\ task[r].pc = "open"
  BY DEF Read, Keeping, Safe, CacheTypes
<1> QED
  BY <1>1, <1>2, HydrateStep DEF Read, Hydrates, Keeping, LateKept

\* One of the workers begins to hydrate.
LEMMA WorkerCalls ==
  ASSUME Safe, NEW t \in Fetchers, task[t] = NoTask, NEW a \in Assets, NEW v \in Versions
  PROVE  /\ t \in Tasks /\ Caller(t, At("idle", a, v))
         /\ At("idle", a, v).asset = a /\ At("idle", a, v).ver = v
         /\ late' = late => LateKept(t, At("idle", a, v))
<1>1. t \in Tasks /\ t \notin Readers
  BY CacheAssumption DEF Tasks
<1>2. task[t].pc # "download"
  BY DEF NoTask
<1>3. At("idle", a, v) \in TaskRecord /\ At("idle", a, v).asset = a /\ At("idle", a, v).ver = v
  BY DEF TaskRecord, At, NoTask
<1>4. At("idle", a, v).pc = "idle" /\ late \subseteq Assets
  BY DEF At, NoTask, Safe, CacheTypes
<1> QED
  BY <1>1, <1>2, <1>3, <1>4 DEF Caller, LateKept

LEMMA TakePinHydrates ==
  ASSUME Safe, TakePin
  PROVE  /\ UNCHANGED <<outside, downloads, pinned, trouble>>
         /\ pinQueue' \in [Assets -> Versions \cup {None}]
         /\ \/ UNCHANGED <<state, exempt, late>>
            \/ \E t \in Tasks, k \in TaskRecord : Hydrates(t, k)
<1>0. CacheTypes /\ PinWorker \in Fetchers
  BY DEF Safe, Fetchers
<1>1. PICK a \in Assets :
        /\ pinQueue[a] # None
        /\ pinQueue' = [pinQueue EXCEPT ![a] = None]
        /\ IF a \in pinned
             THEN Hydrate(PinWorker, At("idle", a, pinQueue[a]))
             ELSE UNCHANGED <<state, exempt>>
  BY DEF TakePin
<1>2. pinQueue[a] \in Versions /\ pinQueue' \in [Assets -> Versions \cup {None}]
  BY <1>0, <1>1 DEF CacheTypes
<1>3. task[PinWorker] = NoTask /\ UNCHANGED <<outside, late, downloads, pinned, trouble>>
  BY DEF TakePin, Keeping
<1>4. CASE a \in pinned
  <2> DEFINE k == At("idle", a, pinQueue[a])
  <2>1. /\ PinWorker \in Tasks /\ Caller(PinWorker, k) /\ k.asset = a /\ k.ver = pinQueue[a]
        /\ LateKept(PinWorker, k)
    BY <1>0, <1>2, <1>3, WorkerCalls
  <2>2. Hydrate(PinWorker, k)
    BY <1>1, <1>4
  <2> HIDE DEF k
  <2>3. Hydrates(PinWorker, k)
    BY <1>3, <2>1, <2>2, HydrateStep DEF Hydrates
  <2> QED
    BY <1>2, <1>3, <2>1, <2>3 DEF Caller
<1> QED
  BY <1>1, <1>2, <1>3, <1>4

LEMMA TransferPinHydrates ==
  ASSUME Safe, NEW a \in Assets, NEW b \in Assets, TransferPin(a, b)
  PROVE  /\ UNCHANGED <<outside, downloads, pinQueue>>
         /\ pinned' \subseteq Assets /\ trouble' \in 0..MaxTrouble
         /\ \/ UNCHANGED <<state, exempt, late>>
            \/ \E t \in Tasks, k \in TaskRecord : Hydrates(t, k)
<1>0. CacheTypes /\ UploadWorker \in Fetchers /\ MaxTrouble \in Nat
  BY CacheAssumption DEF Safe, Fetchers
<1>1. /\ task[UploadWorker] = NoTask
      /\ UNCHANGED <<outside, late, downloads, pinQueue>>
      /\ pinned' \subseteq Assets /\ trouble' \in 0..MaxTrouble
  BY <1>0 DEF TransferPin, Trouble, CacheTypes
<1>2. CASE a \in pinned
  <2> DEFINE k == At("idle", b, catalog[b])
  <2>1. catalog[b] \in Versions
    BY <1>0 DEF CacheTypes
  <2>2. /\ UploadWorker \in Tasks /\ Caller(UploadWorker, k)
        /\ k.asset = b /\ k.ver = catalog[b] /\ LateKept(UploadWorker, k)
    BY <1>0, <1>1, <2>1, WorkerCalls
  <2>3. Hydrate(UploadWorker, k)
    BY <1>2 DEF TransferPin
  <2> HIDE DEF k
  <2>4. Hydrates(UploadWorker, k)
    BY <1>1, <2>2, <2>3, HydrateStep DEF Hydrates
  <2> QED
    BY <1>1, <2>2, <2>4 DEF Caller
<1>3. CASE a \notin pinned
  BY <1>1, <1>3 DEF TransferPin
<1> QED
  BY <1>2, <1>3

-----------------------------------------------------------------------------
(* A download that is complete, damage and restarts.                       *)

\* What a download leaves.
LEMMA Published ==
  ASSUME Safe, NEW t \in Tasks, PublishFile(t)
  PROVE  /\ task[t].pc = "download" /\ task[t] \in TaskRecord
         /\ task[t].asset \in Assets /\ task[t].ver \in Versions /\ task[t].from \in Versions
         /\ task[t].got = Reservation(t)
         /\ task[t].asset \in Managed => task[t].from = task[t].ver
         /\ Present(task[t].asset) => task[t].asset \in Managed /\ task[t].asset \in late
         /\ cached'[task[t].asset] = [bytes |-> task[t].from, label |-> task[t].ver]
         /\ cached'[task[t].asset] # None
         /\ \A a \in Assets \ {task[t].asset} : cached'[a] = cached[a]
         /\ cached' \in [Assets -> File \cup {None}]
         /\ Waiters(t) /\ task'[t] = Served(t, task[t]) /\ task' = [u \in Tasks |-> task'[u]]
<1>0. CacheTypes /\ Works(t)
  BY AllWork DEF Safe
<1>1. /\ task[t].pc = "download" /\ task[t] \in TaskRecord
      /\ task[t].asset \in Assets /\ task[t].ver \in Versions
      /\ Present(task[t].asset) => task[t].asset \in Managed /\ task[t].asset \in late
  BY <1>0 DEF PublishFile, Complete, Works
<1>2. /\ task[t].from \in Versions /\ task[t].got = Reservation(t)
      /\ task[t].asset \in Managed => task[t].from = task[t].ver
  BY <1>0, <1>1 DEF PublishFile, Complete, TaskRecord
<1>3. [bytes |-> task[t].from, label |-> task[t].ver] \in File \ {None}
  BY <1>1, <1>2, CacheAssumption DEF File
<1>4. cached' = [cached EXCEPT ![task[t].asset] = [bytes |-> task[t].from, label |-> task[t].ver]]
  BY DEF PublishFile
<1>5. Waiters(t) /\ task'[t] = Served(t, task[t]) /\ task' = [u \in Tasks |-> task'[u]]
  BY <1>0, FinishShape DEF PublishFile
<1> HIDE DEF File
<1>6. /\ cached'[task[t].asset] = [bytes |-> task[t].from, label |-> task[t].ver]
      /\ cached'[task[t].asset] # None
      /\ \A a \in Assets \ {task[t].asset} : cached'[a] = cached[a]
      /\ cached' \in [Assets -> File \cup {None}]
  BY <1>0, <1>1, <1>3, <1>4 DEF CacheTypes
<1> QED
  BY <1>1, <1>2, <1>5, <1>6

LEMMA PublishSafe ==
  ASSUME Safe, NEW t \in Tasks, PublishFile(t)
  PROVE  Safe'
<1> DEFINE k == task[t]
           a == k.asset
<1>0. CacheTypes /\ Validated /\ OneLeader /\ PutOff /\ BytesAreRight
  BY DEF Safe
<1>1. /\ k.pc = "download" /\ k \in TaskRecord
      /\ a \in Assets /\ k.ver \in Versions /\ k.from \in Versions
      /\ a \in Managed => k.from = k.ver
      /\ Present(a) => a \in late
      /\ cached'[a] = [bytes |-> k.from, label |-> k.ver] /\ cached'[a] # None
      /\ \A b \in Assets \ {a} : cached'[b] = cached[b]
      /\ cached' \in [Assets -> File \cup {None}]
      /\ Waiters(t) /\ task'[t] = Served(t, k) /\ task' = [u \in Tasks |-> task'[u]]
  BY Published
<1>2. /\ UNCHANGED <<pending, exempt, outside, downloads, pinned, pinQueue, trouble>>
      /\ Touching({<<a, k.ver>>})
      /\ late' = late
  BY DEF PublishFile, Keeping
<1> HIDE DEF k
<1>3. /\ Validated' /\ StillHashed
      /\ validated' \in [Assets -> Versions \cup {None}]
      /\ moved' \subseteq {u \in Tasks : task'[u].pc \in Hashing}
  BY <1>0, <1>1, <1>2, StatsStayRight
<1>4. /\ Works(t)' /\ task'[t].pc \notin Leading \cup Hashing
      /\ t \in Readers => task'[t].asset = a /\ task'[t].ver = k.ver
  BY <1>1, EndedWorks
<1>5. ASSUME NEW u \in Tasks \ {t}
      PROVE  /\ Works(u)'
             /\ u \in Readers => task'[u].asset = task[u].asset
             /\ task'[u].pc \in Leading \cup {"opening"} => task'[u] = task[u]
  <2>1. CASE task'[u] = task[u]
    <3>0. Works(u)
      BY AllWork
    <3>1. task[u].pc = "download" => task[u].asset # a
      BY <1>0, <1>1 DEF OneLeader, Leading, k
    <3>2. task[u].pc \in Hashing /\ u \notin moved' => Present(task[u].asset)'
      BY <1>3, <2>1, <3>0 DEF StillHashed, Works, Present
    <3>3. task[u].pc = "download" /\ Present(task[u].asset)' =>
            task[u].asset \in Managed /\ task[u].asset \in late
      BY <1>1, <2>1, <3>0, <3>1 DEF Works, Present
    <3> QED
      BY <1>2, <2>1, <3>0, <3>2, <3>3 DEF Works, Reservation, Present
  <2>2. CASE /\ task[u].pc = "follow"
             /\ task'[u] \in {Ended(u, task[u]), [task[u] EXCEPT !.pc = "wokenOk"],
                              [task[u] EXCEPT !.pc = "wokenBusy"]}
    <3>1. task[u] \in TaskRecord /\ task[u].asset \in Assets /\ task[u].ver \in Versions
      BY <2>2, AllWork DEF Works
    <3>2. /\ Works(u)' /\ task'[u].pc \notin Leading \cup Hashing
          /\ u \in Readers => task'[u].asset = task[u].asset
      BY <2>2, <3>1, EndedWorks
    <3>3. task'[u].pc # "opening"
      <4>1. CASE task'[u] = Ended(u, task[u])
        BY <3>1, <4>1, Records DEF Ended
      <4>2. ASSUME NEW pc \in {"wokenOk", "wokenBusy"}, task'[u] = [task[u] EXCEPT !.pc = pc]
            PROVE  task'[u].pc = pc
        BY <3>1, <4>2 DEF TaskRecord
      <4> QED
        BY <2>2, <4>1, <4>2
    <3> QED
      BY <3>2, <3>3
  <2> QED
    BY <1>1, <2>1, <2>2 DEF Waiters
<1>6. TasksWork' /\ FilesHashed' /\ task' \in [Tasks -> TaskRecord]
  BY <1>1, <1>4, <1>5, AllWork
<1>7. CacheTypes'
  BY <1>0, <1>1, <1>2, <1>3, <1>6 DEF CacheTypes, outside
<1>8. OneLeader'
  BY <1>0, <1>4, <1>5 DEF OneLeader
<1>9. PutOff'
  <2>1. \A r \in Readers : task'[r].asset = task[r].asset
    BY <1>4, <1>5 DEF Tasks, k
  <2> QED
    BY <1>0, <1>2, <2>1 DEF PutOff, IsOpen, Holders
<1>10. BytesAreRight'
  <2> SUFFICES ASSUME NEW r \in Readers, task'[r].pc = "opening", task'[r].asset \notin late'
               PROVE  Serves(task[r].asset, task[r].ver)'
    BY DEF BytesAreRight, Serves, Present
  <2>1. CASE r = t
    BY <1>1, <1>4, <2>1 DEF Serves, Present
  <2>2. CASE r # t
    <3>1. task'[r] = task[r] /\ r \in Tasks
      BY <1>5, <2>2 DEF Tasks
    <3>2. task[r].asset \notin late
      BY <1>2, <3>1
    <3>3. Serves(task[r].asset, task[r].ver) /\ task[r].asset \in Assets
      BY <1>0, <3>1, <3>2 DEF Safe, BytesAreRight, Serves, TasksWork
    <3>4. task[r].asset # a
      BY <1>1, <3>2, <3>3 DEF Serves
    <3> QED
      BY <1>1, <3>1, <3>3, <3>4 DEF Serves, Present
  <2> QED
    BY <2>1, <2>2
<1> QED
  BY <1>3, <1>6, <1>7, <1>8, <1>9, <1>10 DEF Safe

\* What damage does to a file: neither its label nor whether it is there changes.
LEMMA DamagedFile ==
  ASSUME Safe, NEW a \in Assets, Damage(a)
  PROVE  /\ cached' \in [Assets -> File \cup {None}]
         /\ cached[a] # None /\ cached'[a] # None
         /\ cached'[a].label = cached[a].label /\ cached'[a].bytes = Damaged
         /\ \A b \in Assets \ {a} : cached'[b] = cached[b]
<1>1. cached \in [Assets -> File \cup {None}] /\ cached[a] # None
  BY DEF Safe, CacheTypes, Damage, Present
<1>2. cached[a] \in File /\ cached' = [cached EXCEPT ![a] = [cached[a] EXCEPT !.bytes = Damaged]]
  BY <1>1 DEF Damage
<1>3. LET f == [cached[a] EXCEPT !.bytes = Damaged] IN
      f \in File /\ f # None /\ f.label = cached[a].label /\ f.bytes = Damaged
  BY <1>2, CacheAssumption DEF File
<1> HIDE DEF File
<1> QED
  BY <1>1, <1>2, <1>3

LEMMA DamageSafe ==
  ASSUME Safe, NEW a \in Assets, Damage(a)
  PROVE  Safe'
<1>0. /\ CacheTypes /\ Validated /\ OneLeader /\ PutOff /\ BytesAreRight
      /\ FirstVersion \in Versions /\ MaxTrouble \in Nat
  BY CacheAssumption DEF Safe
<1>1. /\ cached' \in [Assets -> File \cup {None}]
      /\ cached[a] # None /\ cached'[a] # None
      /\ cached'[a].label = cached[a].label /\ cached'[a].bytes = Damaged
      /\ \A b \in Assets \ {a} : cached'[b] = cached[b]
  BY DamagedFile
<1>2. /\ UNCHANGED <<task, pending, exempt, pinned, pinQueue, outside, downloads, late>>
      /\ Untouched /\ trouble' \in 0..MaxTrouble
  BY <1>0 DEF Damage, Trouble, CacheTypes
<1>3. /\ Validated' /\ StillHashed
      /\ validated' \in [Assets -> Versions \cup {None}]
      /\ moved' \subseteq {u \in Tasks : task'[u].pc \in Hashing}
  BY <1>0, <1>2, StatsStayRight
<1>4. ASSUME NEW u \in Tasks PROVE Works(u)'
  <2>1. Works(u)
    BY AllWork
  <2>2. task[u].asset \in Assets => (Present(task[u].asset)' <=> Present(task[u].asset))
    BY <1>1, <1>2 DEF Present
  <2>3. task[u].pc \in Hashing /\ u \notin moved' => u \notin moved
    BY <1>2, <1>3 DEF StillHashed
  <2>4. task[u].pc \in Hashing \cup {"download"} => task[u].asset \in Assets
    BY <2>1 DEF Works, Hashing
  <2> QED
    BY <1>2, <2>1, <2>2, <2>3, <2>4 DEF Works, Reservation
<1>5. TasksWork' /\ FilesHashed' /\ task' \in [Tasks -> TaskRecord]
  BY <1>0, <1>2, <1>4, AllWork DEF CacheTypes
<1>6. CacheTypes'
  BY <1>0, <1>1, <1>2, <1>3, <1>5 DEF CacheTypes, outside
<1>7. OneLeader' /\ PutOff'
  BY <1>0, <1>2 DEF OneLeader, PutOff, IsOpen, Holders
<1>8. BytesAreRight'
  <2> SUFFICES ASSUME NEW r \in Readers, task[r].pc = "opening", task[r].asset \notin late
               PROVE  Serves(task[r].asset, task[r].ver)'
    BY <1>2 DEF BytesAreRight, Serves, Present
  <2>1. task[r].asset # a
    BY DEF Damage, Holders
  <2>2. Serves(task[r].asset, task[r].ver) /\ task[r].asset \in Assets
    BY <1>0 DEF Safe, BytesAreRight, Serves, TasksWork, Tasks
  <2> QED
    BY <1>1, <1>2, <2>1, <2>2 DEF Serves, Present
<1> QED
  BY <1>3, <1>5, <1>6, <1>7, <1>8 DEF Safe

\* Where the tasks are when the service starts.
LEMMA AtRest ==
  ASSUME NEW tasks, tasks = [t \in Tasks |-> IF t \in Readers THEN Closed ELSE NoTask]
  PROVE  /\ tasks \in [Tasks -> TaskRecord]
         /\ \A t \in Tasks : /\ tasks[t].pc \in {"idle", "closed"} /\ tasks[t].asset = None
                             /\ tasks[t].pc = "idle" => t \in Fetchers /\ tasks[t] = NoTask
                             /\ tasks[t].pc = "closed" => t \in Readers /\ tasks[t] = Closed
<1>1. /\ NoTask \in TaskRecord /\ Closed \in TaskRecord
      /\ NoTask.pc = "idle" /\ Closed.pc = "closed"
      /\ NoTask.asset = None /\ Closed.asset = None
  BY DEF NoTask, Closed, TaskRecord
<1>2. \A t \in Tasks : t \in Readers \/ t \in Fetchers
  BY DEF Tasks
<1> QED
  BY <1>1, <1>2

LEMMA RestartSafe ==
  ASSUME Safe, Restart
  PROVE  Safe'
<1>0. CacheTypes /\ MaxTrouble \in Nat
  BY CacheAssumption DEF Safe
<1>1. /\ task' \in [Tasks -> TaskRecord]
      /\ \A t \in Tasks : /\ task'[t].pc \in {"idle", "closed"} /\ task'[t].asset = None
                          /\ task'[t].pc = "idle" => t \in Fetchers /\ task'[t] = NoTask
                          /\ task'[t].pc = "closed" => t \in Readers /\ task'[t] = Closed
  BY AtRest DEF Restart
<1>2. /\ UNCHANGED <<cached, server, foreign, pinned, history>>
      /\ pending' = {} /\ moved' = {} /\ downloads' \in BOOLEAN
      /\ validated' = [a \in Assets |-> None]
      /\ catalog' = IF downloads' THEN server ELSE catalog
      /\ trouble' \in 0..MaxTrouble
  BY <1>0 DEF Restart, Trouble, CacheTypes
<1>3. catalog' \in [Assets -> Versions]
  BY <1>0, <1>2 DEF CacheTypes
<1>4. pinQueue' \in [Assets -> Versions \cup {None}]
  BY <1>0, <1>3 DEF Restart
<1>5. CacheTypes'
  BY <1>0, <1>1, <1>2, <1>3, <1>4 DEF CacheTypes, history
<1>6. TasksWork' /\ FilesHashed'
  BY <1>1 DEF TasksWork, FilesHashed, Hashing
<1>7. OneLeader' /\ PutOff' /\ Validated'
  BY <1>1, <1>2, CacheAssumption DEF OneLeader, Leading, PutOff, Validated
<1>8. BytesAreRight'
  BY <1>1 DEF BytesAreRight, Tasks
<1> QED
  BY <1>5, <1>6, <1>7, <1>8 DEF Safe

LEMMA InitSafe == Init => Safe
<1> SUFFICES ASSUME Init PROVE Safe
  OBVIOUS
<1>1. /\ task \in [Tasks -> TaskRecord]
      /\ \A t \in Tasks : /\ task[t].pc \in {"idle", "closed"} /\ task[t].asset = None
                          /\ task[t].pc = "idle" => t \in Fetchers /\ task[t] = NoTask
                          /\ task[t].pc = "closed" => t \in Readers /\ task[t] = Closed
  BY AtRest DEF Init
<1>2. CacheTypes
  BY <1>1, CacheAssumption DEF Init, CacheTypes
<1>3. TasksWork /\ FilesHashed
  BY <1>1 DEF TasksWork, FilesHashed, Hashing
<1>4. OneLeader /\ PutOff /\ Validated
  BY <1>1, CacheAssumption DEF Init, OneLeader, Leading, PutOff, Validated
<1>5. BytesAreRight
  BY <1>1 DEF BytesAreRight, Tasks
<1> QED
  BY <1>2, <1>3, <1>4, <1>5 DEF Safe

-----------------------------------------------------------------------------
(* The kinds of steps there are.                                           *)

Typed ==
  /\ pinned' \subseteq Assets /\ pinQueue' \in [Assets -> Versions \cup {None}]
  /\ downloads' \in BOOLEAN /\ trouble' \in 0..MaxTrouble

\* The task t moves, or eviction takes files.
Moves(t) ==
  /\ Plain(t) /\ UNCHANGED <<outside, late, exempt, pinned, trouble>> /\ Typed

\* The cache stays as it is, and others do something.
StandsStill ==
  /\ UNCHANGED <<state, late, exempt>>
  /\ server' \in [Assets -> Versions] /\ catalog' \in [Assets -> Versions]
  /\ foreign' \in foreign..Disk /\ Typed

LEMMA OutsideStands ==
  ASSUME Safe,
         \/ Refresh \/ FillDisk \/ UNCHANGED vars
         \/ \E a \in Assets : Change(a) \/ Pin(a) \/ Unpin(a)
  PROVE  StandsStill
<1>0. /\ CacheTypes /\ MaxTrouble \in Nat /\ Disk \in Nat /\ foreign \in Nat
      /\ foreign \in foreign..Disk
  BY CacheAssumption DEF Safe, CacheTypes
<1>1. CASE Refresh
  BY <1>0, <1>1 DEF Refresh, CacheTypes, history, StandsStill, Typed
<1>2. CASE FillDisk
  <2>1. foreign' \in foreign..Disk
    BY <1>0, <1>2, SumsAreNatural DEF FillDisk, Taken, CacheTypes
  <2>2. trouble' \in 0..MaxTrouble
    BY <1>0, <1>2 DEF FillDisk, Trouble, CacheTypes
  <2> QED
    BY <1>0, <1>2, <2>1, <2>2 DEF FillDisk, CacheTypes, history, StandsStill, Typed
<1>3. ASSUME NEW a \in Assets, Change(a) PROVE StandsStill
  <2>1. trouble' \in 0..MaxTrouble /\ server' \in [Assets -> Versions]
    BY <1>0, <1>3 DEF Change, Trouble, CacheTypes
  <2> QED
    BY <1>0, <1>3, <2>1 DEF Change, CacheTypes, history, StandsStill, Typed
<1>4. ASSUME NEW a \in Assets, Pin(a) \/ Unpin(a) PROVE StandsStill
  <2>1. pinned' \subseteq Assets /\ pinQueue' \in [Assets -> Versions \cup {None}]
    BY <1>0, <1>4 DEF Pin, Unpin, CacheTypes
  <2> QED
    BY <1>0, <1>4, <2>1 DEF Pin, Unpin, CacheTypes, Keeping, outside, StandsStill, Typed
<1>5. CASE UNCHANGED vars
  BY <1>0, <1>5 DEF vars, history, outside, CacheTypes, StandsStill, Typed
<1> QED
  BY <1>1, <1>2, <1>3, <1>4, <1>5

LEMMA EvictionMoves ==
  ASSUME Safe, EvictToLimits \/ GoOnline \/ \E a \in Assets : Evict(a)
  PROVE  PinWorker \in Tasks /\ Moves(PinWorker)
<1>0. CacheTypes
  BY DEF Safe
<1>1. PICK S : /\ S \subseteq Evictable(cached, pinned) /\ cached' = Without(cached, S)
               /\ UNCHANGED <<task, pending, exempt, outside, pinned, late, trouble>>
               /\ Untouched
  <2>1. CASE EvictToLimits
    BY <2>1 DEF EvictToLimits, Reduced, Keeping
  <2>2. CASE GoOnline
    BY <2>2 DEF GoOnline, Reduced
  <2>3. ASSUME NEW a \in Assets, Evict(a)
        PROVE  /\ {a} \subseteq Evictable(cached, pinned) /\ cached' = Without(cached, {a})
               /\ UNCHANGED <<task, pending, exempt, outside, pinned, late, trouble>>
               /\ Untouched
    BY <2>3 DEF Evict, Keeping
  <2> QED
    BY <2>1, <2>2, <2>3
<1>2. downloads' \in BOOLEAN /\ pinQueue' \in [Assets -> Versions \cup {None}]
  <2>1. CASE GoOnline
    BY <1>0, <2>1 DEF CacheTypes, GoOnline
  <2>2. CASE EvictToLimits \/ \E a \in Assets : Evict(a)
    BY <1>0, <2>2 DEF CacheTypes, EvictToLimits, Evict, Keeping
  <2> QED
    BY <2>1, <2>2
<1>3. PinWorker \in Tasks /\ Plain(PinWorker)
  BY <1>1, EvictionPlain
<1> QED
  BY <1>0, <1>1, <1>2, <1>3 DEF CacheTypes, Moves, Typed

LEMMA TasksMove ==
  ASSUME Safe, NEW t \in Tasks,
         \/ Answer(t) \/ WriteChunk(t) \/ DownloadFails(t)
         \/ t \in Readers /\ (Open(t) \/ Deliver(t) \/ Close(t))
  PROVE  Moves(t)
<1>1. Plain(t) /\ exempt' = exempt
  BY DownloadPlain, ReaderPlain
<1>2. Keeping /\ UNCHANGED <<pinned, pinQueue>>
  BY DEF Answer, WriteChunk, DownloadFails, Open, Deliver, Close
<1> QED
  BY <1>1, <1>2 DEF Keeping, Moves, Typed, Safe, CacheTypes

LEMMA StepKinds ==
  ASSUME Safe, [Next]_vars
  PROVE  \/ \E t \in Tasks, k \in TaskRecord : Hydrates(t, k) /\ Typed
         \/ \E t \in Tasks : Moves(t)
         \/ StandsStill
         \/ \E t \in Tasks : PublishFile(t)
         \/ \E a \in Assets : Damage(a)
         \/ Restart
<1>0. CacheTypes
  BY DEF Safe
<1>1. ASSUME NEW t \in Tasks, Progress(t)
      PROVE  \/ PublishFile(t) \/ Moves(t)
             \/ \E k \in TaskRecord : Hydrates(t, k) /\ Typed
  <2>1. CASE Looking(t)
    <3>1. Hydrates(t, task[t]) /\ task[t] \in TaskRecord /\ Typed
      BY <1>0, <2>1, LookingHydrates DEF CacheTypes, Typed, Hydrates
    <3> QED
      BY <3>1
  <2> QED
    BY <1>1, <2>1, TasksMove DEF Progress, Looking
<1>2. ASSUME NEW r \in Readers, Open(r) \/ Read(r) \/ Deliver(r) \/ Close(r)
      PROVE  r \in Tasks /\ (Moves(r) \/ \E k \in TaskRecord : Hydrates(r, k) /\ Typed)
  <2>0. r \in Tasks
    BY DEF Tasks
  <2>1. CASE Read(r)
    <3>1. Hydrates(r, task[r]) /\ task[r] \in TaskRecord /\ Typed
      BY <1>0, <2>0, <2>1, ReadHydrates DEF CacheTypes, Typed, Hydrates
    <3> QED
      BY <2>0, <3>1
  <2> QED
    BY <1>2, <2>0, <2>1, TasksMove
<1>3. ASSUME TakePin
      PROVE  StandsStill \/ \E t \in Tasks, k \in TaskRecord : Hydrates(t, k) /\ Typed
  <2>1. /\ UNCHANGED <<outside, downloads, pinned, trouble>> /\ Typed
        /\ \/ UNCHANGED <<state, exempt, late>>
           \/ \E t \in Tasks, k \in TaskRecord : Hydrates(t, k)
    BY <1>0, <1>3, TakePinHydrates DEF CacheTypes, Typed
  <2>2. foreign \in foreign..Disk
    BY <1>0, CacheAssumption DEF CacheTypes
  <2> QED
    BY <1>0, <2>1, <2>2 DEF StandsStill, CacheTypes, outside
<1>4. ASSUME NEW a \in Assets, NEW b \in Assets, TransferPin(a, b)
      PROVE  StandsStill \/ \E t \in Tasks, k \in TaskRecord : Hydrates(t, k) /\ Typed
  <2>1. /\ UNCHANGED <<outside, downloads>> /\ Typed
        /\ \/ UNCHANGED <<state, exempt, late>>
           \/ \E t \in Tasks, k \in TaskRecord : Hydrates(t, k)
    BY <1>0, <1>4, TransferPinHydrates DEF CacheTypes, Typed
  <2>2. foreign \in foreign..Disk
    BY <1>0, CacheAssumption DEF CacheTypes
  <2> QED
    BY <1>0, <2>1, <2>2 DEF StandsStill, CacheTypes, outside
<1> QED
  BY <1>1, <1>2, <1>3, <1>4, EvictionMoves, OutsideStands DEF Next

LEMMA KeepsSafe ==
  ASSUME Safe, [Next]_vars PROVE Safe'
<1>1. ASSUME NEW t \in Tasks, NEW k \in TaskRecord, Hydrates(t, k), Typed PROVE Safe'
  BY <1>1, HydrationSafe DEF Hydrates, Typed
<1>2. ASSUME NEW t \in Tasks, Moves(t) PROVE Safe'
  BY <1>2, PlainSafe DEF Moves, Typed
<1>3. CASE StandsStill
  <2>1. foreign' \in 0..Disk
    BY <1>3, CacheAssumption DEF StandsStill, Safe, CacheTypes
  <2> QED
    BY <1>3, <2>1, StateKept DEF StandsStill, Typed
<1> QED
  BY <1>1, <1>2, <1>3, StepKinds, PublishSafe, DamageSafe, RestartSafe

-----------------------------------------------------------------------------
(* Room.                                                                   *)

\* A file is what it was to the limits, or gone.
NoMore(files, more) ==
  \A a \in Assets :
    more[a] = None \/ (files[a] # None /\ more[a].label = files[a].label)

\* What a task downloads, if it does, is what it downloaded before.
Same(u) ==
  task'[u].pc = "download" =>
    /\ task[u].pc = "download" /\ task'[u].asset = task[u].asset
    /\ task'[u].ver = task[u].ver

LEMMA TotalsShrink ==
  ASSUME Safe, NEW files \in [Assets -> File \cup {None}],
         NEW more \in [Assets -> File \cup {None}], NoMore(files, more)
  PROVE  Total(more) <= Total(files)
<1>1. \A a \in Assets : FileSizes(files)[a] \in Nat /\ FileSizes(more)[a] \in Nat
  BY SumsAreNatural
<1>2. \A a \in Assets : FileSizes(more)[a] <= FileSizes(files)[a]
  BY <1>1 DEF NoMore, FileSizes
<1> QED
  BY <1>1, <1>2, SumMonotone, CacheAssumption DEF Total

LEMMA ReservedShrink ==
  ASSUME Safe, Safe', NEW D \in SUBSET Downloading, NEW E \in SUBSET Downloading',
         \A u \in E : u \in D /\ Same(u)
  PROVE  /\ SumFunctionOnSet(Reservations', E) <= SumFunctionOnSet(Reservations, D)
         /\ SumFunctionOnSet(Reservations', E) \in Nat
         /\ SumFunctionOnSet(Reservations, D) \in Nat
<1>1. /\ IsFiniteSet(Downloading) /\ cached \in [Assets -> File \cup {None}]
      /\ \A u \in Downloading : Reservation(u) \in Nat
  BY SumsAreNatural DEF Safe, CacheTypes
<1>2. \A u \in D : Reservations[u] \in Nat
  BY <1>1 DEF Reservations
<1>3. \A u \in E : Reservations'[u] \in Nat /\ Reservations'[u] <= Reservations[u]
  BY <1>1 DEF Reservations, Same, Reservation, Downloading
<1>4. IsFiniteSet(D) /\ E \in SUBSET D
  BY <1>1, FS_Subset
<1> QED
  BY <1>2, <1>3, <1>4, SumOfLess

\* The rooms reserved are what is still to come and what was written.
LEMMA ReservedIsBoth ==
  ASSUME Safe
  PROVE  Reserved = Remaining + Written
<1>1. /\ IsFiniteSet(Downloading)
      /\ \A t \in Downloading :
           Reservation(t) \in Nat /\ task[t].got \in Nat /\ task[t].got <= Reservation(t)
  BY SumsAreNatural DEF Safe, CacheTypes
<1> DEFINE w == [t \in Downloading |-> Reservation(t) - task[t].got]
           v == [t \in Downloading |-> task[t].got]
<1>2. \A t \in Downloading :
        w[t] \in Nat /\ v[t] \in Nat /\ Reservations[t] = w[t] + v[t]
  BY <1>1 DEF Reservations
<1> HIDE DEF w, v
<1>3. SumFunctionOnSet(Reservations, Downloading)
        = SumFunctionOnSet(w, Downloading) + SumFunctionOnSet(v, Downloading)
  BY <1>1, <1>2, SumOfBoth
<1> QED
  BY <1>3 DEF Reserved, Remaining, Written, w, v

\* A step that admits nothing: files and downloads only become fewer.
Recedes ==
  /\ NoMore(cached, cached') /\ \A u \in Tasks : Same(u)
  /\ exempt' = exempt /\ foreign <= foreign'

LEMMA RecedesWithin ==
  ASSUME Safe, Safe', WithinBudget, Recedes
  PROVE  WithinBudget'
<1> DEFINE D == {t \in Downloading : task[t].asset \notin exempt}
           E == {t \in Downloading' : task'[t].asset \notin exempt'}
           files == Without(cached, exempt)
           more == Without(cached', exempt')
<1>1. /\ files \in [Assets -> File \cup {None}] /\ more \in [Assets -> File \cup {None}]
      /\ NoMore(files, more)
  BY DEF Recedes, NoMore, Without, Safe, CacheTypes
<1>2. /\ D \in SUBSET Downloading /\ E \in SUBSET Downloading'
      /\ \A u \in E : u \in D /\ Same(u)
  BY DEF Recedes, Same, Downloading
<1> HIDE DEF D, E, files, more
<1>3. Total(more) <= Total(files) /\ Total(more) \in Nat /\ Total(files) \in Nat
  BY <1>1, TotalsShrink, SumsAreNatural
<1>4. /\ SumFunctionOnSet(Reservations', E) <= SumFunctionOnSet(Reservations, D)
      /\ SumFunctionOnSet(Reservations', E) \in Nat
      /\ SumFunctionOnSet(Reservations, D) \in Nat
  BY <1>2, ReservedShrink
<1>5. Total(files) + SumFunctionOnSet(Reservations, D) <= MaxBytes
  BY DEF WithinBudget, files, D
<1>6. Total(more) + SumFunctionOnSet(Reservations', E) <= MaxBytes
  BY <1>3, <1>4, <1>5, CacheAssumption
<1>7. WithinBudget' <=> Total(more) + SumFunctionOnSet(Reservations', E) <= MaxBytes
  BY DEF WithinBudget, more, E
<1> QED
  BY <1>6, <1>7

\* RoomReserved, with the rooms in place of what is written and what is to come.
RoomIs ==
  /\ RoomReserved <=> (foreign = 0 => Disk >= Reserved + Total(cached) + Floor)
  /\ Total(cached) \in Nat /\ Reserved \in Nat /\ Written \in Nat /\ Remaining \in Nat
  /\ Reserved = Remaining + Written

LEMMA RoomIsReserved ==
  Safe => RoomIs
<1> SUFFICES ASSUME Safe PROVE RoomIs
  OBVIOUS
<1>1. /\ Total(cached) \in Nat /\ Reserved \in Nat /\ Written \in Nat /\ Remaining \in Nat
      /\ Reserved = Remaining + Written /\ foreign \in Nat /\ Disk \in Nat /\ Floor \in Nat
  BY ReservedIsBoth, SumsAreNatural, CacheAssumption DEF Safe, CacheTypes
<1> QED
  BY <1>1 DEF RoomReserved, Taken, RoomIs

LEMMA RoomIsReservedNext == Safe' => RoomIs'
  BY RoomIsReserved, PTL

\* What is kept of the disk while nothing is admitted.
LEMMA RecedesRoom ==
  ASSUME Safe, Safe', Recedes
  PROVE  /\ RoomReserved => RoomReserved'
         /\ Total(cached') <= Total(cached) /\ Reserved' <= Reserved
<1>0. /\ RoomIs /\ RoomIs' /\ foreign \in Nat /\ foreign' \in Nat
      /\ Disk \in Nat /\ Floor \in Nat
  BY RoomIsReserved, RoomIsReservedNext, CacheAssumption DEF Safe, CacheTypes
<1>1. Total(cached') <= Total(cached)
  <2>1. cached \in [Assets -> File \cup {None}] /\ cached' \in [Assets -> File \cup {None}]
    BY DEF Safe, CacheTypes
  <2> QED
    BY <2>1, TotalsShrink DEF Recedes
<1>2. Reserved' <= Reserved
  <2> DEFINE D == Downloading
             E == Downloading'
  <2>1. \A u \in E : u \in D /\ Same(u)
    BY DEF Recedes, Same, Downloading
  <2>2. SumFunctionOnSet(Reservations', E) <= SumFunctionOnSet(Reservations, D)
    <3>1. D \in SUBSET Downloading /\ E \in SUBSET Downloading'
      OBVIOUS
    <3> HIDE DEF D, E
    <3> QED
      BY <2>1, <3>1, ReservedShrink
  <2> QED
    BY <2>2 DEF Reserved
<1>3. RoomReserved => RoomReserved'
  <2>1. foreign <= foreign'
    BY DEF Recedes
  <2>2. /\ RoomReserved <=> (foreign = 0 => Disk >= Reserved + Total(cached) + Floor)
        /\ Total(cached) \in Nat /\ Reserved \in Nat
    BY <1>0 DEF RoomIs
  <2>3. /\ RoomReserved' <=> (foreign' = 0 => Disk >= Reserved' + Total(cached') + Floor)
        /\ Total(cached') \in Nat /\ Reserved' \in Nat
    BY <1>0 DEF RoomIs
  <2> SUFFICES ASSUME foreign' = 0, Disk >= Reserved + Total(cached) + Floor
               PROVE  Disk >= Reserved' + Total(cached') + Floor
    BY <1>0, <2>1, <2>2, <2>3
  <2> HIDE DEF RoomReserved
  <2> QED
    BY <1>0, <1>1, <1>2, <2>2, <2>3
<1> QED
  BY <1>1, <1>2, <1>3

Got == [u \in Downloading |-> task[u].got]

LEMMA WrittenShrink ==
  ASSUME Safe, Safe', NEW D \in SUBSET Downloading, NEW E \in SUBSET Downloading',
         \A u \in E : u \in D /\ GoesOn(u)
  PROVE  /\ SumFunctionOnSet(Got', E) <= SumFunctionOnSet(Got, D)
         /\ SumFunctionOnSet(Got', E) \in Nat /\ SumFunctionOnSet(Got, D) \in Nat
<1>1. /\ IsFiniteSet(Downloading)
      /\ \A u \in Downloading : task[u].got \in Nat
  BY SumsAreNatural DEF Safe, CacheTypes
<1>2. \A u \in D : Got[u] \in Nat
  BY <1>1 DEF Got
<1>3. \A u \in E : Got'[u] \in Nat /\ Got'[u] <= Got[u]
  BY <1>1 DEF Got, GoesOn, Downloading
<1>4. IsFiniteSet(D) /\ E \in SUBSET D
  BY <1>1, FS_Subset
<1> QED
  BY <1>2, <1>3, <1>4, SumOfLess

LEMMA WaitersGoOn ==
  ASSUME Safe, NEW t \in Tasks, Waiters(t)
  PROVE  \A u \in Tasks \ {t} : GoesOn(u)
<1> SUFFICES ASSUME NEW u \in Tasks \ {t}, task'[u] # task[u] PROVE task'[u].pc # "download"
  BY DEF GoesOn
<1>1. /\ task[u].pc = "follow"
      /\ task'[u] \in {Ended(u, task[u]), [task[u] EXCEPT !.pc = "wokenOk"],
                       [task[u] EXCEPT !.pc = "wokenBusy"]}
  BY DEF Waiters
<1>2. task[u] \in TaskRecord /\ task[u].asset \in Assets /\ task[u].ver \in Versions
  BY <1>1, AllWork DEF Works
<1>3. CASE task'[u] = Ended(u, task[u])
  BY <1>2, <1>3, Records DEF Ended
<1>4. ASSUME NEW pc \in {"wokenOk", "wokenBusy"}, task'[u] = [task[u] EXCEPT !.pc = pc]
      PROVE  task'[u].pc = pc
  BY <1>2, <1>4 DEF TaskRecord
<1> QED
  BY <1>1, <1>3, <1>4

FloorStep ==
  TakenNext > Taken(cached) /\ foreign' = foreign => Disk >= TakenNext + Floor

LEMMA RecedesFloor ==
  ASSUME Safe, Safe', Recedes, \A u \in Tasks : GoesOn(u)
  PROVE  FloorStep
<1>1. Written' <= Written
  <2> DEFINE D == Downloading
             E == Downloading'
  <2>1. \A u \in E : u \in D /\ GoesOn(u)
    BY DEF GoesOn, Downloading
  <2>2. SumFunctionOnSet(Got', E) <= SumFunctionOnSet(Got, D)
    <3>1. D \in SUBSET Downloading /\ E \in SUBSET Downloading'
      OBVIOUS
    <3> HIDE DEF D, E
    <3> QED
      BY <2>1, <3>1, WrittenShrink
  <2> QED
    BY <2>2 DEF Written, Got
<1>2. /\ Total(cached') <= Total(cached)
      /\ Written \in Nat /\ Written' \in Nat /\ Total(cached) \in Nat /\ Total(cached') \in Nat
      /\ foreign \in Nat
  BY RecedesRoom, RoomIsReserved, RoomIsReservedNext DEF RoomIs, Safe, CacheTypes
<1> QED
  BY <1>1, <1>2 DEF FloorStep, TakenNext, Taken

\* One task more that downloads.
LEMMA AdmittedRoom ==
  ASSUME Safe, Safe', WithinBudget, NEW t, NEW k, Caller(t, k), HydrationStep(t, k),
         Admitted(t, k), UNCHANGED outside
  PROVE  WithinBudget' /\ RoomReserved' /\ FloorStep
<1> DEFINE size == SizeOf[k.asset][k.ver]
           D == Downloading
           E == Downloading' \ {t}
<1>0. /\ t \in Tasks /\ t \notin Downloading /\ k.asset \in Assets /\ k.ver \in Versions
      /\ size \in Nat
      /\ foreign \in Nat /\ foreign' = foreign
      /\ Disk \in Nat /\ Floor \in Nat /\ MaxBytes \in Nat
      /\ cached \in [Assets -> File \cup {None}] /\ cached' \in [Assets -> File \cup {None}]
  BY CacheAssumption DEF Caller, Downloading, Safe, CacheTypes, outside
<1>1. /\ t \in Downloading' /\ task'[t].asset = k.asset /\ task'[t].ver = k.ver
      /\ task'[t].got = 0
  BY <1>0, Records DEF Admitted, Downloading
<1>2. /\ IsFiniteSet(Downloading') /\ IsFiniteSet(Downloading)
      /\ \A u \in Downloading' : Reservation(u)' \in Nat /\ task'[u].got \in Nat
  <2>1. IsFiniteSet(Tasks) /\ IsFiniteSet(Downloading)
    BY <1>0, SumsAreNatural
  <2>2. IsFiniteSet(Downloading')
    BY <2>1, FS_Subset DEF Downloading
  <2>3. \A u \in Downloading' : Reservation(u)' \in Nat /\ task'[u].got \in Nat
    BY CacheAssumption DEF Safe, CacheTypes, TasksWork, TaskRecord, Downloading, Reservation
  <2> QED
    BY <2>1, <2>2, <2>3
<1>3. D \in SUBSET Downloading /\ E \in SUBSET Downloading' /\ \A u \in E : u \in D /\ GoesOn(u)
  <2>1. \A u \in Tasks \ {t} : GoesOn(u)
    BY <1>0, WaitersGoOn DEF HydrationStep
  <2> QED
    BY <2>1 DEF GoesOn, Downloading
<1>4. \A u \in E : u \in D /\ Same(u)
  BY <1>3 DEF GoesOn, Same
<1>5. Reserved' <= Reserved + size
  <2>1. SumFunctionOnSet(Reservations', Downloading')
          = Reservations'[t] + SumFunctionOnSet(Reservations', E)
    BY <1>1, <1>2, SumWith DEF Reservations
  <2>2. Reservations'[t] = size
    BY <1>1 DEF Reservations, Reservation
  <2> HIDE DEF D, E
  <2>3. SumFunctionOnSet(Reservations', E) <= SumFunctionOnSet(Reservations, D)
        /\ SumFunctionOnSet(Reservations', E) \in Nat /\ SumFunctionOnSet(Reservations, D) \in Nat
    BY <1>3, <1>4, ReservedShrink
  <2> QED
    BY <1>0, <2>1, <2>2, <2>3 DEF Reserved, D
<1>6. Written' <= Written
  <2>1. SumFunctionOnSet(Got', Downloading') = Got'[t] + SumFunctionOnSet(Got', E)
    BY <1>1, <1>2, SumWith DEF Got
  <2>2. Got'[t] = 0
    BY <1>1 DEF Got
  <2> HIDE DEF D, E
  <2>3. SumFunctionOnSet(Got', E) <= SumFunctionOnSet(Got, D)
        /\ SumFunctionOnSet(Got', E) \in Nat
    BY <1>3, WrittenShrink
  <2> QED
    BY <2>1, <2>2, <2>3 DEF Written, Got, D
<1> HIDE DEF size, D, E
<1>7. /\ k.asset \in pinned' \/ Total(cached') + Reserved + size <= MaxBytes
      /\ Disk >= Taken(cached') + Remaining + size + Floor
  BY DEF Admitted, Fits, size
<1>8. /\ Reserved \in Nat /\ Written \in Nat /\ Remaining \in Nat
      /\ Reserved' \in Nat /\ Written' \in Nat /\ Total(cached') \in Nat
      /\ Reserved = Remaining + Written
      /\ RoomReserved' <=> (foreign' = 0 => Disk >= Reserved' + Total(cached') + Floor)
      /\ Taken(cached') = foreign + Written + Total(cached')
  BY RoomIsReserved, RoomIsReservedNext DEF RoomIs, Taken
<1>9. RoomReserved'
  BY <1>0, <1>5, <1>7, <1>8
<1>10. FloorStep
  BY <1>0, <1>6, <1>7, <1>8 DEF FloorStep, TakenNext
<1>11. WithinBudget'
  <2> DEFINE files == Without(cached, exempt)
             more == Without(cached', exempt')
             P == {u \in Downloading : task[u].asset \notin exempt}
             Q == {u \in Downloading' : task'[u].asset \notin exempt'}
  <2>0. /\ files \in [Assets -> File \cup {None}] /\ more \in [Assets -> File \cup {None}]
        /\ NoMore(cached', more)
        /\ P \in SUBSET Downloading /\ Q \in SUBSET Downloading'
    BY <1>0 DEF Without, NoMore
  <2>1. WithinBudget' <=> Total(more) + SumFunctionOnSet(Reservations', Q) <= MaxBytes
    BY DEF WithinBudget
  <2>2. Total(more) \in Nat /\ Total(files) \in Nat
    <3> HIDE DEF more, files
    <3> QED
      BY <2>0, SumsAreNatural
  <2>3. CASE k.asset \in pinned'
    <3>1. exempt' = exempt \cup {k.asset}
      BY <2>3 DEF Admitted
    <3>2. NoMore(files, more)
      BY <1>0, <3>1 DEF NoMore, Without, HydrationStep, FilesGo
    <3>3. \A u \in Q : u \in P /\ Same(u)
      BY <1>0, <1>1, <1>3, <1>4, <3>1 DEF Same, Downloading, D, E
    <3>4. Total(files) + SumFunctionOnSet(Reservations, P) <= MaxBytes
      BY DEF WithinBudget
    <3> HIDE DEF files, more, P, Q
    <3>5. Total(more) <= Total(files)
      BY <2>0, <3>2, TotalsShrink
    <3>6. /\ SumFunctionOnSet(Reservations', Q) <= SumFunctionOnSet(Reservations, P)
          /\ SumFunctionOnSet(Reservations', Q) \in Nat /\ SumFunctionOnSet(Reservations, P) \in Nat
      BY <2>0, <3>3, ReservedShrink
    <3> QED
      BY <1>0, <2>1, <2>2, <3>4, <3>5, <3>6
  <2>4. CASE k.asset \notin pinned'
    <3> HIDE DEF files, more, P, Q
    <3>1. Total(more) <= Total(cached')
      BY <1>0, <2>0, TotalsShrink
    <3>2. \A u \in Downloading' : Reservations'[u] \in Nat
      BY <1>2 DEF Reservations
    <3>3. /\ SumFunctionOnSet(Reservations', Q) <= Reserved'
          /\ SumFunctionOnSet(Reservations', Q) \in Nat
      BY <1>2, <2>0, <3>2, SumOfLess DEF Reserved
    <3>4. Total(cached') + Reserved + size <= MaxBytes
      BY <1>7, <2>4
    <3> QED
      BY <1>0, <1>5, <1>8, <2>1, <2>2, <3>1, <3>3, <3>4
  <2> QED
    BY <2>3, <2>4
<1> QED
  BY <1>9, <1>10, <1>11

\* One chunk more.
LEMMA WritesFloor ==
  ASSUME Safe, Safe', NEW t \in Tasks, Waiters(t), Writes(t), UNCHANGED foreign
  PROVE  FloorStep
<1> DEFINE D == Downloading \ {t}
           E == Downloading' \ {t}
<1>1. /\ t \in Downloading /\ t \in Downloading' /\ task'[t].got = task[t].got + 1
      /\ cached' = cached /\ Disk >= Taken(cached) + 1 + Floor
  BY DEF Writes, Downloading
<1>2. /\ D \in SUBSET Downloading /\ E \in SUBSET Downloading'
      /\ \A u \in E : u \in D /\ GoesOn(u)
  BY WaitersGoOn DEF GoesOn, Downloading
<1>3. /\ IsFiniteSet(Downloading) /\ IsFiniteSet(Downloading')
      /\ \A u \in Downloading : task[u].got \in Nat
      /\ \A u \in Downloading' : task'[u].got \in Nat
  <2>1. IsFiniteSet(Tasks) /\ IsFiniteSet(Downloading) /\ \A u \in Downloading : task[u].got \in Nat
    BY SumsAreNatural DEF Safe, CacheTypes
  <2>2. IsFiniteSet(Downloading')
    BY <2>1, FS_Subset DEF Downloading
  <2>3. \A u \in Downloading' : task'[u].got \in Nat
    BY DEF Safe, CacheTypes, TaskRecord, Downloading
  <2> QED
    BY <2>1, <2>2, <2>3
<1>4. /\ SumFunctionOnSet(Got, Downloading) = Got[t] + SumFunctionOnSet(Got, D)
      /\ Got[t] = task[t].got /\ Got[t] \in Nat
  BY <1>1, <1>3, SumWith DEF Got
<1>5. /\ SumFunctionOnSet(Got', Downloading') = Got'[t] + SumFunctionOnSet(Got', E)
      /\ Got'[t] = Got[t] + 1
  BY <1>1, <1>3, SumWith DEF Got
<1> HIDE DEF D, E
<1>6. /\ SumFunctionOnSet(Got', E) <= SumFunctionOnSet(Got, D)
      /\ SumFunctionOnSet(Got', E) \in Nat /\ SumFunctionOnSet(Got, D) \in Nat
  BY <1>2, WrittenShrink
<1>7. Written' <= Written + 1
  BY <1>4, <1>5, <1>6 DEF Written, Got
<1>8. /\ Written \in Nat /\ Written' \in Nat /\ Total(cached) \in Nat
      /\ foreign \in Nat /\ Disk \in Nat /\ Floor \in Nat
  BY RoomIsReserved, RoomIsReservedNext, CacheAssumption DEF RoomIs, Safe, CacheTypes
<1> QED
  BY <1>1, <1>7, <1>8 DEF FloorStep, TakenNext, Taken

\* The room of a download becomes the room of its file.
LEMMA PublishRoom ==
  ASSUME Safe, Safe', WithinBudget, RoomReserved, NEW t \in Tasks, PublishFile(t)
  PROVE  WithinBudget' /\ RoomReserved' /\ FloorStep
<1> DEFINE a == task[t].asset
           size == SizeOf[a][task[t].ver]
           D == Downloading \ {t}
           E == Downloading' \ {t}
<1>0. /\ foreign \in Nat /\ foreign' = foreign /\ exempt' = exempt
      /\ Disk \in Nat /\ Floor \in Nat /\ MaxBytes \in Nat
      /\ cached \in [Assets -> File \cup {None}] /\ cached' \in [Assets -> File \cup {None}]
  BY CacheAssumption DEF Safe, CacheTypes, PublishFile, Keeping, outside
<1>1. /\ t \in Downloading /\ a \in Assets /\ task[t].ver \in Versions
      /\ size \in Nat /\ task[t].got = size /\ Reservation(t) = size
      /\ cached'[a].label = task[t].ver /\ cached'[a] # None
      /\ \A b \in Assets \ {a} : cached'[b] = cached[b]
      /\ Waiters(t)
  <2>1. /\ task[t].pc = "download" /\ a \in Assets /\ task[t].ver \in Versions
        /\ task[t].got = Reservation(t)
        /\ cached'[a] = [bytes |-> task[t].from, label |-> task[t].ver] /\ cached'[a] # None
        /\ \A b \in Assets \ {a} : cached'[b] = cached[b]
        /\ Waiters(t)
    BY Published
  <2>2. size \in Nat
    BY <2>1, CacheAssumption
  <2> QED
    BY <2>1, <2>2 DEF Downloading, Reservation
<1>2. t \notin Downloading'
  <2>1. task'[t] = Served(t, task[t])
    BY Published
  <2>2. task'[t] \in {At("opening", a, task[t].ver), NoTask}
    BY <2>1 DEF Served
  <2>3. task'[t].pc # "download"
    <3>1. At("opening", a, task[t].ver).pc = "opening" /\ NoTask.pc = "idle"
      BY <1>1, Records
    <3> QED
      BY <2>2, <3>1
  <2> QED
    BY <2>3 DEF Downloading
<1>3. /\ D \in SUBSET Downloading /\ Downloading' \in SUBSET Downloading'
      /\ \A u \in Downloading' : u \in D /\ GoesOn(u) /\ Same(u)
  BY <1>1, <1>2, WaitersGoOn DEF GoesOn, Same, Downloading
<1>4. /\ IsFiniteSet(Downloading)
      /\ \A u \in Downloading : Reservation(u) \in Nat /\ task[u].got \in Nat
      /\ \A b \in Assets : FileSizes(cached)[b] \in Nat /\ FileSizes(cached')[b] \in Nat
  BY <1>0, SumsAreNatural
<1>5. /\ Reserved = size + SumFunctionOnSet(Reservations, D)
      /\ Written = size + SumFunctionOnSet(Got, D)
  <2>1. SumFunctionOnSet(Reservations, Downloading)
          = Reservations[t] + SumFunctionOnSet(Reservations, D)
    BY <1>1, <1>4, SumWith DEF Reservations
  <2>2. SumFunctionOnSet(Got, Downloading) = Got[t] + SumFunctionOnSet(Got, D)
    BY <1>1, <1>4, SumWith DEF Got
  <2>3. Reservations[t] = size /\ Got[t] = size
    BY <1>1 DEF Reservations, Got
  <2> QED
    BY <2>1, <2>2, <2>3 DEF Reserved, Written, Got
<1> HIDE DEF D
<1>6. /\ Reserved' <= SumFunctionOnSet(Reservations, D)
      /\ SumFunctionOnSet(Reservations, D) \in Nat
      /\ Written' <= SumFunctionOnSet(Got, D) /\ SumFunctionOnSet(Got, D) \in Nat
  BY <1>3, ReservedShrink, WrittenShrink DEF Reserved, Written, Got
<1>7. Total(cached') <= Total(cached) + size
  <2> DEFINE R == Assets \ {a}
  <2>1. Total(cached') = FileSizes(cached')[a] + SumFunctionOnSet(FileSizes(cached'), R)
    <3>1. IsFiniteSet(Assets)
      BY CacheAssumption
    <3> QED
      BY <1>1, <1>4, <3>1, SumWith DEF Total
  <2>2. FileSizes(cached')[a] = size
    BY <1>1 DEF FileSizes
  <2>3. R \in SUBSET Assets /\ \A b \in R : FileSizes(cached')[b] = FileSizes(cached)[b]
    BY <1>1 DEF FileSizes
  <2> HIDE DEF R
  <2>4. /\ SumFunctionOnSet(FileSizes(cached'), R) <= SumFunctionOnSet(FileSizes(cached), Assets)
        /\ SumFunctionOnSet(FileSizes(cached'), R) \in Nat
        /\ SumFunctionOnSet(FileSizes(cached), Assets) \in Nat
    <3>1. \A b \in R : FileSizes(cached')[b] \in Nat /\ FileSizes(cached')[b] <= FileSizes(cached)[b]
      BY <1>4, <2>3
    <3> QED
      BY <1>4, <2>3, <3>1, SumOfLess, CacheAssumption
  <2> QED
    BY <1>1, <2>1, <2>2, <2>4 DEF Total
<1>8. /\ Written \in Nat /\ Written' \in Nat /\ Reserved \in Nat /\ Reserved' \in Nat
      /\ Total(cached) \in Nat /\ Total(cached') \in Nat
      /\ RoomReserved <=> (foreign = 0 => Disk >= Reserved + Total(cached) + Floor)
      /\ RoomReserved' <=> (foreign' = 0 => Disk >= Reserved' + Total(cached') + Floor)
  BY RoomIsReserved, RoomIsReservedNext DEF RoomIs
<1>w. WithinBudget'
  <2> DEFINE files == Without(cached, exempt)
             more == Without(cached', exempt')
             P == {u \in Downloading : task[u].asset \notin exempt}
             Q == {u \in Downloading' : task'[u].asset \notin exempt'}
  <2>0. /\ files \in [Assets -> File \cup {None}] /\ more \in [Assets -> File \cup {None}]
        /\ P \in SUBSET Downloading /\ Q \in SUBSET Downloading'
    BY <1>0 DEF Without
  <2>1. /\ WithinBudget' <=> Total(more) + SumFunctionOnSet(Reservations', Q) <= MaxBytes
        /\ Total(files) + SumFunctionOnSet(Reservations, P) <= MaxBytes
    BY DEF WithinBudget
  <2>3. \A u \in Q : u \in P \ {t} /\ Same(u)
    BY <1>0, <1>3 DEF Same, D, Downloading
  <2>4. CASE a \in exempt
    <3>1. NoMore(files, more)
      BY <1>0, <1>1, <2>4 DEF NoMore, Without
    <3> HIDE DEF files, more, P, Q
    <3>2. Total(more) <= Total(files) /\ Total(more) \in Nat /\ Total(files) \in Nat
      BY <2>0, <3>1, TotalsShrink, SumsAreNatural
    <3>3. /\ SumFunctionOnSet(Reservations', Q) <= SumFunctionOnSet(Reservations, P)
          /\ SumFunctionOnSet(Reservations', Q) \in Nat /\ SumFunctionOnSet(Reservations, P) \in Nat
      BY <2>0, <2>3, ReservedShrink
    <3> QED
      BY <1>0, <2>1, <3>2, <3>3
  <2>5. CASE a \notin exempt
    <3> DEFINE S == P \ {t}
               R == Assets \ {a}
    <3>1. /\ t \in P /\ IsFiniteSet(P) /\ \A u \in P : Reservations[u] \in Nat
          /\ Reservations[t] = size
      BY <1>1, <1>4, <2>5, FS_Subset DEF Reservations
    <3>2. /\ more[a].label = task[t].ver /\ more[a] # None
          /\ \A b \in R : more[b] = files[b]
      BY <1>0, <1>1, <2>5 DEF Without
    <3> HIDE DEF files, more, P, Q
    <3>3. SumFunctionOnSet(Reservations, P) = size + SumFunctionOnSet(Reservations, S)
      BY <3>1, SumWith
    <3>4. S \in SUBSET Downloading /\ \A u \in Q : u \in S /\ Same(u)
      BY <2>0, <2>3
    <3>5. \A b \in Assets : FileSizes(files)[b] \in Nat /\ FileSizes(more)[b] \in Nat
      BY <2>0, SumsAreNatural
    <3>6. Total(more) = FileSizes(more)[a] + SumFunctionOnSet(FileSizes(more), R)
      <4>1. IsFiniteSet(Assets)
        BY CacheAssumption
      <4> QED
        BY <1>1, <3>5, <4>1, SumWith DEF Total, R
    <3>7. FileSizes(more)[a] = size
      BY <1>1, <3>2 DEF FileSizes
    <3>8. R \in SUBSET Assets /\ \A b \in R : FileSizes(more)[b] = FileSizes(files)[b]
      BY <3>2 DEF FileSizes
    <3> HIDE DEF S, R
    <3>9. /\ SumFunctionOnSet(Reservations', Q) <= SumFunctionOnSet(Reservations, S)
          /\ SumFunctionOnSet(Reservations', Q) \in Nat /\ SumFunctionOnSet(Reservations, S) \in Nat
      BY <2>0, <3>4, ReservedShrink
    <3>10. /\ SumFunctionOnSet(FileSizes(more), R) <= SumFunctionOnSet(FileSizes(files), Assets)
           /\ SumFunctionOnSet(FileSizes(more), R) \in Nat
           /\ SumFunctionOnSet(FileSizes(files), Assets) \in Nat
      <4>1. \A b \in R : FileSizes(more)[b] \in Nat /\ FileSizes(more)[b] <= FileSizes(files)[b]
        BY <3>5, <3>8
      <4> QED
        BY <3>5, <3>8, <4>1, SumOfLess, CacheAssumption
    <3>11. Total(more) <= size + Total(files) /\ Total(files) \in Nat /\ Total(more) \in Nat
      BY <1>1, <3>6, <3>7, <3>10 DEF Total
    <3> QED
      BY <1>0, <1>1, <2>1, <3>3, <3>9, <3>11
  <2> QED
    BY <2>4, <2>5
<1> HIDE DEF a, size
<1>9. RoomReserved'
  BY <1>0, <1>1, <1>5, <1>6, <1>7, <1>8
<1>10. FloorStep
  BY <1>0, <1>1, <1>5, <1>6, <1>7, <1>8 DEF FloorStep, TakenNext, Taken
<1> QED
  BY <1>9, <1>10, <1>w

LEMMA RoomSteps ==
  ASSUME Safe, Safe', WithinBudget, RoomReserved, [Next]_vars
  PROVE  WithinBudget' /\ RoomReserved' /\ FloorStep
<1>0. CacheTypes /\ CacheTypes' /\ foreign \in Nat /\ foreign <= foreign
  BY DEF Safe, CacheTypes
<1>1. ASSUME Recedes, \A u \in Tasks : GoesOn(u)
      PROVE  WithinBudget' /\ RoomReserved' /\ FloorStep
  BY <1>1, RecedesWithin, RecedesRoom, RecedesFloor
<1>2. ASSUME cached' = cached \/ \A a \in Assets : cached'[a] \in {cached[a], None}
      PROVE  NoMore(cached, cached')
  BY <1>2 DEF NoMore
<1>3. ASSUME NEW t \in Tasks, NEW k \in TaskRecord, Hydrates(t, k)
      PROVE  WithinBudget' /\ RoomReserved' /\ FloorStep
  <2>1. CASE Admitted(t, k)
    BY <1>3, <2>1, AdmittedRoom DEF Hydrates
  <2>2. CASE Waits(t, k) /\ exempt' = exempt
    <3>1. NoMore(cached, cached')
      BY <1>2, <1>3 DEF Hydrates, HydrationStep, FilesGo
    <3>2. task'[t].pc # "download"
      <4>1. k.asset \in Assets /\ k.ver \in Versions
        BY <1>3 DEF Hydrates, Caller
      <4>2. CASE \/ task'[t] = Ended(t, k) \/ task'[t] = Served(t, k)
                 \/ task'[t] \in {[k EXCEPT !.pc = "follow"], At("follow", k.asset, k.ver)}
        <5>1. task'[t].pc \notin Leading
          BY <4>1, <4>2, EndedWorks
        <5> QED
          BY <5>1 DEF Leading
      <4>3. ASSUME NEW pc \in Hashing, task'[t] = [k EXCEPT !.pc = pc]
            PROVE  task'[t].pc # "download"
        BY <4>3 DEF Hashing, TaskRecord
      <4> QED
        BY <2>2, <4>2, <4>3 DEF Waits
    <3>3. \A u \in Tasks : GoesOn(u)
      BY <1>3, <3>2, WaitersGoOn DEF Hydrates, HydrationStep, GoesOn
    <3>4. Recedes
      BY <1>0, <1>3, <2>2, <3>1, <3>3 DEF Recedes, GoesOn, Same, Hydrates, outside
    <3> QED
      BY <1>1, <3>3, <3>4
  <2> QED
    BY <1>3, <2>1, <2>2 DEF Hydrates, HydrationStep, Turn
<1>4. ASSUME NEW t \in Tasks, Moves(t)
      PROVE  WithinBudget' /\ RoomReserved' /\ FloorStep
  <2>1. NoMore(cached, cached') /\ \A u \in Tasks \ {t} : GoesOn(u)
    BY <1>2, <1>4, WaitersGoOn DEF Moves, Plain
  <2>2. Recedes
    <3>1. Same(t)
      BY <1>4 DEF Moves, Plain, GoesOn, Writes, Same
    <3> QED
      BY <1>0, <1>4, <2>1, <3>1 DEF Recedes, GoesOn, Same, Moves, outside
  <2>3. CASE GoesOn(t)
    BY <1>1, <2>1, <2>2, <2>3
  <2>4. CASE Writes(t)
    <3>1. FloorStep
      BY <1>4, <2>4, WritesFloor DEF Moves, Plain, outside
    <3> QED
      BY <2>2, <3>1, RecedesWithin, RecedesRoom
  <2> QED
    BY <1>4, <2>3, <2>4 DEF Moves, Plain
<1>5. CASE StandsStill
  <2>1. foreign <= foreign' /\ UNCHANGED <<task, cached, exempt>>
    BY <1>0, <1>5, CacheAssumption DEF StandsStill, state
  <2> QED
    BY <1>0, <1>1, <1>2, <2>1 DEF Recedes, GoesOn, Same
<1>6. ASSUME NEW a \in Assets, Damage(a)
      PROVE  WithinBudget' /\ RoomReserved' /\ FloorStep
  <2>1. NoMore(cached, cached')
    BY <1>0, <1>6, DamagedFile DEF NoMore, CacheTypes
  <2> QED
    BY <1>0, <1>1, <1>6, <2>1 DEF Recedes, GoesOn, Same, Damage, outside
<1>7. CASE Restart
  <2>1. \A u \in Tasks : GoesOn(u)
    BY <1>7, AtRest DEF Restart, GoesOn
  <2> QED
    BY <1>0, <1>1, <1>2, <1>7, <2>1 DEF Recedes, GoesOn, Same, Restart, history
<1> QED
  BY <1>3, <1>4, <1>5, <1>6, <1>7, PublishRoom, StepKinds

LEMMA InitRoom == Init => WithinBudget /\ RoomReserved
<1> SUFFICES ASSUME Init PROVE WithinBudget /\ RoomReserved
  OBVIOUS
<1>1. /\ Safe /\ cached = [a \in Assets |-> None] /\ foreign = 0
      /\ cached \in [Assets -> File \cup {None}]
      /\ IsFiniteSet(Assets)
  BY InitSafe, CacheAssumption DEF Init, Safe, CacheTypes
<1>2. Downloading = {}
  <2>1. \A t \in Tasks : task[t].pc \in {"idle", "closed"}
    BY AtRest DEF Init
  <2> QED
    BY <2>1 DEF Downloading
<1>3. ASSUME NEW files, files \in [Assets -> {None}] PROVE Total(files) = 0
  <2>1. \A a \in Assets : FileSizes(files)[a] = 0
    BY <1>3 DEF FileSizes
  <2>2. SumFunctionOnSet(FileSizes(files), Assets) = 0
    <3> DEFINE T == {s \in SUBSET Assets : SumFunctionOnSet(FileSizes(files), s) # 0}
    <3> SUFFICES ASSUME T # {} PROVE FALSE
      OBVIOUS
    <3>1. T \in SUBSET SUBSET Assets
      OBVIOUS
    <3>2. PICK s \in T : \A r \in T : ~(r \subseteq s /\ r # s)
      <4> HIDE DEF T
      <4> QED
        BY <1>1, <3>1, SmallestSubset
    <3>3. s \in SUBSET Assets /\ SumFunctionOnSet(FileSizes(files), s) # 0 /\ IsFiniteSet(s)
      BY <1>1, FS_Subset
    <3>4. s # {}
      BY <3>3, EmptySum
    <3> DEFINE x == Some(s)
               r == s \ {x}
    <3>5. x \in s /\ r \in SUBSET Assets /\ r \subseteq s /\ r # s
      BY <3>3, <3>4, SomeIsMember
    <3>6. SumFunctionOnSet(FileSizes(files), r) = 0
      BY <3>2, <3>5
    <3>7. SumFunctionOnSet(FileSizes(files), s)
            = FileSizes(files)[x] + SumFunctionOnSet(FileSizes(files), r)
      BY <3>3, <3>4, SumStep
    <3> QED
      BY <2>1, <3>3, <3>5, <3>6, <3>7
  <2> QED
    BY <2>2 DEF Total
<1>4. Total(cached) = 0 /\ Total(Without(cached, exempt)) = 0
  <2>1. Without(cached, exempt) \in [Assets -> {None}] /\ cached \in [Assets -> {None}]
    BY <1>1 DEF Without
  <2> QED
    BY <1>3, <2>1
<1>5. Reserved = 0 /\ SumFunctionOnSet(Reservations, {t \in Downloading : task[t].asset \notin exempt}) = 0
  <2>1. {t \in Downloading : task[t].asset \notin exempt} = {}
    BY <1>2
  <2> QED
    BY <1>2, <2>1, EmptySum DEF Reserved
<1>6. WithinBudget
  BY <1>4, <1>5, CacheAssumption DEF WithinBudget
<1>7. RoomReserved
  <2>1. RoomReserved <=> (foreign = 0 => Disk >= Reserved + Total(cached) + Floor)
    BY <1>1, RoomIsReserved DEF RoomIs
  <2> QED
    BY <1>4, <1>5, <2>1, CacheAssumption
<1> QED
  BY <1>6, <1>7

-----------------------------------------------------------------------------
(* What follows.                                                           *)

LEMMA TypesAreOK == Safe => TypeOK
<1> SUFFICES ASSUME Safe PROVE TypeOK
  OBVIOUS
<1>1. ASSUME NEW a \in Assets PROVE Cardinality(Leaders(a)) <= 1
  <2>1. CASE Leaders(a) = {}
    BY <2>1, FS_EmptySet
  <2>2. CASE Leaders(a) # {}
    <3>1. PICK t \in Leaders(a) : TRUE
      BY <2>2
    <3>2. \A u \in Leaders(a) : u = t
      BY <3>1 DEF Safe, OneLeader, Leaders
    <3>3. Leaders(a) = {t}
      BY <3>1, <3>2
    <3> QED
      BY <3>3, FS_Singleton
  <2> QED
    BY <2>1, <2>2
<1> QED
  BY <1>1 DEF Safe, CacheTypes, TypeOK, TaskRecord, PutOff

LEMMA KeepsInvariant ==
  CacheInvariant /\ [Next]_vars => CacheInvariant' /\ FloorStep
  BY KeepsSafe, RoomSteps DEF CacheInvariant

LEMMA InvariantHolds == Spec => []CacheInvariant
<1>1. Init => CacheInvariant
  BY InitSafe, InitRoom DEF CacheInvariant
<1> QED
  BY <1>1, KeepsInvariant, PTL DEF Spec

(* Everything has the type it should have, an asset's hydration has at most    *)
(* one leader, and a discard that was put off has an open file that will make   *)
(* up for it (content_cache.py:98-152, 429-435).                               *)
THEOREM CacheIsTyped == Spec => []TypeOK
<1>1. CacheInvariant => TypeOK
  BY TypesAreOK DEF CacheInvariant
<1> QED
  BY <1>1, InvariantHolds, PTL

(* What is read through an open file are the bytes of the catalog entry it was *)
(* opened with, although the file is opened by its path some time after it was *)
(* checked (content_cache.py:200-212).                                         *)
THEOREM ReadsAreRight == Spec => []BytesAreRight
<1>1. CacheInvariant => BytesAreRight
  BY DEF CacheInvariant, Safe
<1> QED
  BY <1>1, InvariantHolds, PTL

(* However many hydrations run at once, they are never admitted for more than  *)
(* the cache's size limit (content_cache.py:440-490).                          *)
THEOREM AdmittedWithinBudget == Spec => []WithinBudget
<1>1. CacheInvariant => WithinBudget
  BY DEF CacheInvariant
<1> QED
  BY <1>1, InvariantHolds, PTL

(* As long as nobody else fills the disk, what all downloads have still to     *)
(* write leaves the floor free (content_cache.py:447-463).                     *)
THEOREM RoomIsKept == Spec => []RoomReserved
<1>1. CacheInvariant => RoomReserved
  BY DEF CacheInvariant
<1> QED
  BY <1>1, InvariantHolds, PTL

(* Whatever others write to the disk meanwhile, no write of the cache crosses  *)
(* the floor (content_cache.py:288-294).                                       *)
THEOREM NoWriteCrossesFloor == Spec => FloorKept
<1>1. CacheInvariant /\ [Next]_vars => [FloorStep]_vars
  BY KeepsInvariant
<1>2. [FloorStep]_vars => [TakenNext > Taken(cached) /\ foreign' = foreign =>
                             Disk >= TakenNext + Floor]_vars
  BY DEF FloorStep
<1> QED
  BY <1>1, <1>2, InvariantHolds, PTL DEF Spec, FloorKept

\* The bytes of an open file.
LEMMA OpenBytesStep ==
  ASSUME Safe, [Next]_vars,
         NEW a \in Assets, Present(a), SomebodyHolds(a)
  PROVE  cached'[a] = cached[a] \/ Spoiled(a) \/ LatePublishes(a)
<1>0. IsOpen(a)
  BY DEF SomebodyHolds, IsOpen, Holders
<1>1. ASSUME NEW t \in Tasks, NEW k \in TaskRecord, Hydrates(t, k) PROVE cached'[a] = cached[a]
  BY <1>0, <1>1 DEF Hydrates, HydrationStep, FilesGo
<1>2. ASSUME NEW t \in Tasks, Moves(t) PROVE cached'[a] = cached[a]
  BY <1>2 DEF Moves, Plain
<1>3. CASE StandsStill
  BY <1>3 DEF StandsStill, state
<1>4. ASSUME NEW t \in Tasks, PublishFile(t)
      PROVE  cached'[a] = cached[a] \/ LatePublishes(a)
  <2>1. /\ \A b \in Assets \ {task[t].asset} : cached'[b] = cached[b]
        /\ Present(task[t].asset) => task[t].asset \in late
        /\ task[t].pc = "download" /\ task'[t] = Served(t, task[t])
    BY <1>4, Published
  <2>2. task'[t].pc # "download"
    BY <2>1 DEF Served, At, NoTask
  <2> QED
    BY <2>1, <2>2 DEF LatePublishes, Downloading
<1>5. ASSUME NEW b \in Assets, Damage(b) PROVE cached'[a] = cached[a] \/ Spoiled(a)
  BY <1>5, DamagedFile DEF Spoiled
<1>6. CASE Restart
  BY <1>6 DEF Restart
<1> QED
  BY <1>1, <1>2, <1>3, <1>4, <1>5, <1>6, StepKinds

(* While a file of the mount is open, nothing takes or changes the bytes under *)
(* it (content_cache.py:429-435), with one exception: the download of a         *)
(* hydration that found the file unfit by a hash begun while downloads were     *)
(* disabled, and that was admitted because they had been enabled meanwhile      *)
(* (179-188, 313).                                                             *)
THEOREM OpenBytesAreKept == Spec => OpenBytesStay
<1>1. CacheInvariant /\ [Next]_vars =>
        [\A a \in Assets :
           Present(a) /\ SomebodyHolds(a) =>
             cached'[a] = cached[a] \/ Spoiled(a) \/ LatePublishes(a)]_vars
  BY OpenBytesStep DEF CacheInvariant
<1> QED
  BY <1>1, InvariantHolds, PTL DEF Spec, OpenBytesStay

\* The file of a pinned asset that everybody agrees about.
LEMMA PinnedStep ==
  ASSUME Safe, [Next]_vars, NEW a \in (pinned \cap pinned') \ pending,
         RightFor(a, catalog[a]), \A t \in moved : task[t].asset # a,
         OnlyWants(a, catalog[a], task, pinQueue)
  PROVE  cached'[a] = cached[a] \/ Spoiled(a)
<1>0. /\ CacheTypes /\ a \in Assets /\ Present(a)
  BY CacheAssumption DEF Safe, CacheTypes, RightFor, Present, File
<1>1. ASSUME NEW t \in Tasks, NEW k \in TaskRecord, Hydrates(t, k) PROVE cached'[a] = cached[a]
  <2> SUFFICES ASSUME a = k.asset, t \in moved \/ ~RightFor(a, k.ver) PROVE FALSE
    BY <1>0, <1>1 DEF Hydrates, HydrationStep, FilesGo
  <2>1. CASE k = task[t]
    BY <2>1 DEF OnlyWants
  <2>2. CASE task[t] = NoTask /\ k.ver \in {pinQueue[a], catalog[a]}
    <3>1. t \notin moved
      BY <1>0, <2>2 DEF CacheTypes, NoTask, Hashing
    <3>2. k.ver \in Versions /\ None \notin Versions
      BY <1>1, CacheAssumption DEF Hydrates, Caller
    <3>3. k.ver = catalog[a]
      BY <2>2, <3>2 DEF OnlyWants
    <3> QED
      BY <3>1, <3>3
  <2> QED
    BY <1>1, <2>1, <2>2 DEF Hydrates
<1>2. ASSUME NEW t \in Tasks, Moves(t) PROVE cached'[a] = cached[a]
  BY <1>0, <1>2 DEF Moves, Plain
<1>3. CASE StandsStill
  BY <1>3 DEF StandsStill, state
<1>4. ASSUME NEW t \in Tasks, PublishFile(t) PROVE cached'[a] = cached[a]
  <2>1. /\ \A b \in Assets \ {task[t].asset} : cached'[b] = cached[b]
        /\ Present(task[t].asset) => task[t].asset \in Managed
        /\ task[t].asset \in Managed => task[t].from = task[t].ver
        /\ cached'[task[t].asset] = [bytes |-> task[t].from, label |-> task[t].ver]
    BY <1>4, Published
  <2>2. CASE task[t].asset = a
    <3>1. task[t].ver = catalog[a]
      BY <2>2 DEF OnlyWants
    <3> QED
      BY <1>0, <2>1, <2>2, <3>1 DEF RightFor
  <2> QED
    BY <1>0, <2>1, <2>2
<1>5. ASSUME NEW b \in Assets, Damage(b) PROVE cached'[a] = cached[a] \/ Spoiled(a)
  BY <1>0, <1>5, DamagedFile DEF Spoiled
<1>6. CASE Restart
  BY <1>6 DEF Restart
<1> QED
  BY <1>1, <1>2, <1>3, <1>4, <1>5, <1>6, StepKinds

(* The file of a pinned asset goes only if somebody comes with another entry   *)
(* of it or hashes an earlier file: no limit, no other download and no         *)
(* eviction takes it (content_cache.py:214-264, 465-485).                      *)
THEOREM PinnedFilesStay == Spec => PinnedStays
<1>1. CacheInvariant /\ [Next]_vars =>
        [\A a \in (pinned \cap pinned') \ pending :
           /\ RightFor(a, catalog[a])
           /\ \A t \in moved : task[t].asset # a
           /\ OnlyWants(a, catalog[a], task, pinQueue)
           /\ OnlyWants(a, catalog[a], task', pinQueue')
           => cached'[a] = cached[a] \/ Spoiled(a)]_vars
  BY PinnedStep DEF CacheInvariant
<1> QED
  BY <1>1, InvariantHolds, PTL DEF Spec, PinnedStays
=============================================================================
