------------------------ MODULE CatalogRefreshProofs ------------------------
(***************************************************************************)
(* Theorems about CatalogRefresh, for every number of assets, all Live     *)
(* Photos, page sizes and overlaps, and every bound.                       *)
(*                                                                         *)
(* The links of the mount follow from an invariant of their own.  The rest *)
(* needs what a refresh has read so far to fit what the server has: the    *)
(* sweep before this one, and the pages of a delta, counted by the places  *)
(* of the assets in the search.                                            *)
(***************************************************************************)
EXTENDS CatalogRefresh, FiniteSetTheorems, WellFoundedInduction, TLAPS

-----------------------------------------------------------------------------
(* The inductive invariant.                                                *)

\* The tables hold rows of assets, and so does what is about to be written.
TablesHoldRows ==
  /\ now \in 0..MaxTime /\ listed \subseteq Assets
  /\ server \in [Assets -> Row]
  /\ rows \in Table /\ incoming \in Table
  /\ upload.step # "idle" => upload.asset \in Assets /\ upload.detail \in Row
  /\ mutation.step # "idle" => mutation.asset \in Assets

\* A refresh that reads and a trash or restore whose request is sent hold the
\* lock, and the row that the answer is for stays until it is there.
LockedWhileSent ==
  /\ lockQueue \in Seq(Tasks)
  /\ scan.step = "read" => Holds("refresh")
  /\ mutation.step # "idle" => service = "online"
  /\ mutation.step = "sent" => Holds("mutation") /\ mutation.asset \in Rows

RefreshInvariant == TablesHoldRows /\ LockedWhileSent /\ LinksMatchRows

-----------------------------------------------------------------------------
(* Tables.                                                                 *)

\* A table is a function from some assets to rows.
LEMMA TableIs ==
  ASSUME NEW t
  PROVE  t \in Table <=> DOMAIN t \subseteq Assets /\ t \in [DOMAIN t -> Row]
  BY DEF Table

\* An upsert has the rows of both tables.
LEMMA UpsertOfTables ==
  ASSUME NEW new \in Table, NEW table \in Table
  PROVE  /\ Upsert(new, table) \in Table
         /\ DOMAIN Upsert(new, table) = DOMAIN new \cup DOMAIN table
<1>1. /\ DOMAIN new \subseteq Assets /\ new \in [DOMAIN new -> Row]
      /\ DOMAIN table \subseteq Assets /\ table \in [DOMAIN table -> Row]
  BY TableIs
<1>2. /\ DOMAIN Upsert(new, table) = DOMAIN new \cup DOMAIN table
      /\ Upsert(new, table) \in [DOMAIN Upsert(new, table) -> Row]
  BY <1>1 DEF Upsert
<1> QED
  BY <1>1, <1>2, TableIs

\* A row by itself is a table.
LEMMA OneRow ==
  ASSUME NEW a \in Assets, NEW row \in Row
  PROVE  [b \in {a} |-> row] \in Table
<1> DEFINE t == [b \in {a} |-> row]
<1>1. DOMAIN t \subseteq Assets /\ t \in [DOMAIN t -> Row]
  OBVIOUS
<1> QED
  BY <1>1, TableIs

\* The pages staged are a table.
LEMMA StagedIsTable ==
  ASSUME TablesHoldRows
  PROVE  Staged \in Table
<1> DEFINE page == [a \in Page |-> server[a]]
<1>1. Page \subseteq Assets
  BY DEF Page, PageOf, Matching, TablesHoldRows
<1>2. DOMAIN page \subseteq Assets /\ page \in [DOMAIN page -> Row]
  BY <1>1 DEF TablesHoldRows
<1>3. page \in Table
  BY <1>2, TableIs
<1> QED
  BY <1>3, UpsertOfTables DEF Staged, TablesHoldRows

\* So is the empty one.
LEMMA NoRowsIsTable == NoRows \in Table
<1>1. DOMAIN NoRows = {} /\ NoRows \in [DOMAIN NoRows -> Row]
  BY DEF NoRows
<1> QED
  BY <1>1, TableIs

(* Where the links are those of the rows, they are those of the rows after an  *)
(* upsert too, once what it has changed is projected again: an asset outside   *)
(* `changed' has the same row as before, and is named as a motion part by some *)
(* row if it was before.                                                       *)
LEMMA ProjectionIsEnough ==
  ASSUME link = Standalone(rows), NEW new, NEW changed,
         DOMAIN new \subseteq changed,
         \A a : a \notin changed =>
           ((\E s \in DOMAIN new : new[s].motion = a)
              <=> (\E s \in DOMAIN new \cap DOMAIN rows : rows[s].motion = a))
  PROVE  Project(changed, Upsert(new, rows)) = Standalone(Upsert(new, rows))
<1> DEFINE table == Upsert(new, rows)
<1>1. /\ DOMAIN table = DOMAIN new \cup DOMAIN rows
      /\ \A a \in DOMAIN new : table[a] = new[a]
      /\ \A a \in DOMAIN rows \ DOMAIN new : table[a] = rows[a]
  BY DEF Upsert
<1> HIDE DEF table
<1>2. ASSUME NEW a, a \notin changed
      PROVE  a \in Standalone(table) <=> a \in Standalone(rows)
  <2>1. /\ a \notin DOMAIN new
        /\ (\E s \in DOMAIN new : new[s].motion = a)
             <=> (\E s \in DOMAIN new \cap DOMAIN rows : rows[s].motion = a)
    BY <1>2
  <2>2. a \in DOMAIN table <=> a \in DOMAIN rows
    BY <1>1, <2>1
  <2>3. a \in DOMAIN rows => table[a] = rows[a]
    BY <1>1, <2>1
  <2>4. (\E s \in DOMAIN table : table[s].motion = a)
          <=> (\E s \in DOMAIN rows : rows[s].motion = a)
    BY <1>1, <2>1
  <2> QED
    BY <2>2, <2>3, <2>4 DEF Standalone
<1>3. Project(changed, table) = (Standalone(rows) \ changed) \cup (changed \cap Standalone(table))
  BY DEF Project
<1>4. Project(changed, table) = Standalone(table)
  BY <1>2, <1>3
<1> QED
  BY <1>4 DEF table

(* The motion parts named now and before are among what an upsert affects      *)
(* (_finish_staged, add_uploaded).                                             *)
LEMMA AffectedIsEnough ==
  ASSUME link = Standalone(rows), NEW new
  PROVE  Project(Affected(new), Upsert(new, rows)) = Standalone(Upsert(new, rows))
<1>1. /\ DOMAIN new \subseteq Affected(new)
      /\ \A s \in DOMAIN new : new[s].motion \in Affected(new)
      /\ \A s \in DOMAIN new \cap DOMAIN rows : rows[s].motion \in Affected(new)
  BY DEF Affected
<1> QED
  BY <1>1, ProjectionIsEnough

-----------------------------------------------------------------------------
(* The links.                                                              *)

\* Every step that writes the rows projects what it has changed.
LEMMA LinksStep ==
  ASSUME RefreshInvariant, [Next]_vars
  PROVE  LinksMatchRows'
<1> USE DEF RefreshInvariant
<1>0. link = Standalone(rows)
  BY DEF LinksMatchRows
<1>1. ASSUME NEW table, rows' = table, link' = Standalone(table) PROVE LinksMatchRows'
  BY <1>1 DEF LinksMatchRows, Standalone
<1>2. CASE UNCHANGED <<rows, link>>
  BY <1>0, <1>1, <1>2
<1>3. CASE FinishFull
  BY <1>1, <1>3 DEF FinishFull, Publish
<1>4. CASE FinishDelta
  <2>1. /\ rows' = Upsert(Staged, rows)
        /\ link' = Project(Affected(Staged), Upsert(Staged, rows))
    BY <1>4 DEF FinishDelta, Publish
  <2> QED
    BY <1>0, <1>1, <2>1, AffectedIsEnough
<1>5. CASE AddUploaded
  <2> DEFINE new == [b \in {upload.asset} |-> upload.detail]
  <2>1. rows' = Upsert(new, rows) /\ link' = Project(Affected(new), Upsert(new, rows))
    BY <1>5 DEF AddUploaded, PutRow
  <2> QED
    BY <1>0, <1>1, <2>1, AffectedIsEnough
<1>6. CASE Mark
  <2> DEFINE a == mutation.asset
             row == [rows[a] EXCEPT !.trashed = mutation.kind = "trash"]
             new == [b \in {a} |-> row]
  <2>1. a \in DOMAIN rows /\ rows[a] \in Row
    BY <1>6, TableIs DEF Mark, LockedWhileSent, TablesHoldRows, Rows
  <2>2. row.motion = rows[a].motion
    BY <2>1 DEF Row
  <2>3. rows' = Upsert(new, rows) /\ link' = Project({a}, Upsert(new, rows))
    BY <1>6 DEF Mark, PutRow
  <2> HIDE DEF row
  <2>4. Project({a}, Upsert(new, rows)) = Standalone(Upsert(new, rows))
    <3>1. DOMAIN new = {a} /\ new[a].motion = rows[a].motion
      BY <2>2
    <3> HIDE DEF new, a
    <3> QED
      BY <1>0, <2>1, <3>1, ProjectionIsEnough
  <2> QED
    BY <1>1, <2>3, <2>4
<1>7. ASSUME NEW a \in Assets, Appear(a) \/ Vanish(a) \/ Toggle(a) \/ Unlink(a)
      PROVE  UNCHANGED <<rows, link>>
  BY <1>7 DEF Appear, Vanish, Toggle, Unlink, Unchanged, tables
<1>8. ASSUME NEW kind, RequestFails(kind) PROVE UNCHANGED <<rows, link>>
  BY <1>8 DEF RequestFails, Fail, tables
<1>9. ASSUME Refused \/ GiveUp PROVE UNCHANGED <<rows, link>>
  BY <1>9 DEF Refused, GiveUp, Fail, tables
<1>10. ASSUME BeginFull \/ BeginDelta \/ ReadPage \/ NextSweep \/ Reconcile
      PROVE  UNCHANGED <<rows, link>>
  BY <1>10 DEF BeginFull, BeginDelta, ReadPage, NextSweep, Reconcile, tables
<1>11. ASSUME Start \/ Take \/ AskDelta \/ AskFull \/ RetryOffline \/ Crash
      PROVE  UNCHANGED <<rows, link>>
  BY <1>11 DEF Start, Take, AskDelta, AskFull, RetryOffline, Crash, Unasked, tables
<1>12. ASSUME NEW a, ReadDetail(a) PROVE UNCHANGED <<rows, link>>
  BY <1>12 DEF ReadDetail, tables
<1>13. ASSUME NEW kind, NEW a, Ask(kind, a) PROVE UNCHANGED <<rows, link>>
  BY <1>13 DEF Ask, tables
<1>14. ASSUME Tick \/ Carry \/ NotCarried \/ AnswerLost
      PROVE  UNCHANGED <<rows, link>>
  BY <1>14 DEF Tick, Carry, NotCarried, AnswerLost, Unchanged, tables
<1>15. ASSUME UNCHANGED vars
      PROVE  UNCHANGED <<rows, link>>
  BY <1>15 DEF vars, tables
<1> QED
  BY <1>2, <1>3, <1>4, <1>5, <1>6, <1>7, <1>8, <1>9, <1>10, <1>11, <1>12, <1>13,
     <1>14, <1>15 DEF Next, Server, Refresh, Mutate

-----------------------------------------------------------------------------
(* The tables.                                                             *)

\* The tables stay tables.
LEMMA TablesStep ==
  ASSUME RefreshInvariant, [Next]_vars
  PROVE  TablesHoldRows'
<1> USE DEF RefreshInvariant
<1>1. ASSUME UNCHANGED <<now, listed, server>> PROVE (now \in 0..MaxTime /\ listed \subseteq Assets /\ server \in [Assets -> Row])'
  BY <1>1 DEF TablesHoldRows
<1>2. Staged \in Table
  BY StagedIsTable
<1>3. ASSUME NEW a \in Assets, NEW row \in Row, NEW list \in SUBSET Assets, Update(a, row, list)
      PROVE  /\ now' \in 0..MaxTime /\ listed' \subseteq Assets
             /\ server' \in [Assets -> Row]
  <2>1. [row EXCEPT !.upd = now] \in Row
    BY DEF Row, TablesHoldRows
  <2> QED
    BY <1>3, <2>1 DEF Update, TablesHoldRows
<1>4. ASSUME NEW a \in Assets, Appear(a) \/ Vanish(a) \/ Toggle(a) \/ Unlink(a)
      PROVE  TablesHoldRows'
  <2>1. /\ server[a] \in Row
        /\ [server[a] EXCEPT !.trashed = ~@] \in Row
        /\ [server[a] EXCEPT !.motion = None] \in Row
    BY DEF Row, TablesHoldRows
  <2>2. /\ listed \cup {a} \in SUBSET Assets /\ listed \ {a} \in SUBSET Assets
        /\ listed \in SUBSET Assets
    BY DEF TablesHoldRows
  <2>3. \/ Update(a, server[a], listed \cup {a})
        \/ Update(a, server[a], listed \ {a})
        \/ Update(a, [server[a] EXCEPT !.trashed = ~@], listed)
        \/ Update(a, [server[a] EXCEPT !.motion = None], listed)
    BY <1>4 DEF Appear, Vanish, Toggle, Unlink, Change
  <2>4. now' \in 0..MaxTime /\ listed' \subseteq Assets /\ server' \in [Assets -> Row]
    BY <1>3, <2>1, <2>2, <2>3
  <2>5. UNCHANGED <<rows, incoming, upload, mutation>>
    BY <1>4 DEF Appear, Vanish, Toggle, Unlink, Unchanged, tables, taskVars
  <2> QED
    BY <2>4, <2>5 DEF TablesHoldRows
<1>5. CASE Tick
  <2>1. now' \in 0..MaxTime
    BY <1>5, RefreshAssumption DEF Tick, TablesHoldRows
  <2> QED
    BY <1>5, <2>1 DEF Tick, Unchanged, tables, taskVars, TablesHoldRows
<1>6. CASE BeginFull \/ BeginDelta \/ ReadPage \/ NextSweep \/ Reconcile
  <2>1. incoming' \in {NoRows, Staged, incoming}
    BY <1>6 DEF BeginFull, BeginDelta, Begin, ReadPage, NextSweep, Reconcile
  <2>2. incoming' \in Table
    BY <1>2, <2>1, NoRowsIsTable DEF TablesHoldRows
  <2>3. UNCHANGED <<now, listed, server, rows, upload, mutation>>
    BY <1>6 DEF BeginFull, BeginDelta, ReadPage, NextSweep, Reconcile, serverVars, tables
  <2> QED
    BY <2>2, <2>3 DEF TablesHoldRows
<1>7. CASE FinishFull \/ FinishDelta
  <2>1. rows' \in {Staged, Upsert(Staged, rows)} /\ incoming' = NoRows
    BY <1>7 DEF FinishFull, FinishDelta, Publish
  <2>4. rows \in Table
    BY DEF TablesHoldRows
  <2>5. Upsert(Staged, rows) \in Table
    BY <1>2, <2>4, UpsertOfTables
  <2>2. rows' \in Table /\ incoming' \in Table
    BY <1>2, <2>1, <2>5, NoRowsIsTable
  <2>3. UNCHANGED <<now, listed, server, upload, mutation>>
    BY <1>7 DEF FinishFull, FinishDelta, serverVars
  <2> QED
    BY <2>2, <2>3 DEF TablesHoldRows
<1>8. ASSUME NEW kind, Fail(kind)
      PROVE  /\ UNCHANGED <<now, listed, server, rows>>
             /\ \/ UNCHANGED <<upload, mutation>>
                \/ upload' = NoUpload /\ mutation' = NoMutation
  <2>1. UNCHANGED <<now, listed, server, rows>>
    BY <1>8 DEF Fail, serverVars, tables
  <2>2. CASE FailOnline(kind)
    BY <2>1, <2>2 DEF FailOnline
  <2>3. CASE FailElsewhere(kind)
    BY <2>1, <2>3 DEF FailElsewhere, Down
  <2> QED
    BY <1>8, <2>2, <2>3 DEF Fail
<1>9. ASSUME NEW kind, RequestFails(kind) PROVE TablesHoldRows'
  <2>1. Fail(kind) /\ UNCHANGED incoming
    BY <1>9 DEF RequestFails
  <2> QED
    BY <1>8, <2>1 DEF TablesHoldRows, NoUpload, NoMutation
<1>10. CASE Refused \/ GiveUp
  <2>1. (Fail("refused") \/ Fail("other")) /\ incoming' \in {incoming, Staged}
    BY <1>10 DEF Refused, GiveUp
  <2>2. incoming' \in Table
    BY <1>2, <2>1 DEF TablesHoldRows
  <2> QED
    BY <1>8, <2>1, <2>2 DEF TablesHoldRows, NoUpload, NoMutation
<1>11. CASE Start \/ Take \/ AskDelta \/ AskFull \/ RetryOffline
  BY <1>11 DEF Start, Take, AskDelta, AskFull, RetryOffline, Unasked, serverVars, tables,
     TablesHoldRows
<1>12. CASE Crash
  BY <1>12 DEF Crash, Down, NoUpload, NoMutation, serverVars, tables, TablesHoldRows
<1>13. ASSUME NEW a \in Assets, ReadDetail(a) PROVE TablesHoldRows'
  <2>1. upload'.asset \in Assets /\ upload'.detail \in Row
    BY <1>13 DEF ReadDetail, TablesHoldRows
  <2> QED
    BY <1>13, <2>1 DEF ReadDetail, serverVars, tables, TablesHoldRows
<1>14. ASSUME NEW kind, NEW a \in Ours, Ask(kind, a) PROVE TablesHoldRows'
  <2>1. mutation'.asset \in Assets
    BY <1>14, RefreshAssumption DEF Ask
  <2> QED
    BY <1>14, <2>1 DEF Ask, tables, TablesHoldRows
<1>15. CASE AddUploaded
  <2>1. [b \in {upload.asset} |-> upload.detail] \in Table
    BY <1>15, OneRow DEF AddUploaded, TablesHoldRows
  <2>2. rows' \in Table
    BY <1>15, <2>1, UpsertOfTables DEF AddUploaded, PutRow, TablesHoldRows
  <2> QED
    BY <1>15, <2>2 DEF AddUploaded, NoUpload, serverVars, TablesHoldRows
<1>16. CASE Carry
  <2> DEFINE a == mutation.asset
  <2>1. a \in Assets
    BY <1>16 DEF Carry, TablesHoldRows
  <2>2. [server[a] EXCEPT !.trashed = mutation.kind = "trash"] \in Row
    BY <2>1 DEF Row, TablesHoldRows
  <2>3. now' \in 0..MaxTime /\ listed' \subseteq Assets /\ server' \in [Assets -> Row]
    BY <1>3, <1>16, <2>1, <2>2 DEF Carry, TablesHoldRows
  <2>4. mutation'.asset = a
    BY <1>16 DEF Carry
  <2> QED
    BY <1>16, <2>1, <2>3, <2>4 DEF Carry, tables, TablesHoldRows
<1>17. CASE Mark
  <2> DEFINE a == mutation.asset
  <2>1. a \in Assets /\ rows[a] \in Row
    BY <1>17, TableIs DEF Mark, LockedWhileSent, TablesHoldRows, Rows
  <2>2. [rows[a] EXCEPT !.trashed = mutation.kind = "trash"] \in Row
    BY <2>1 DEF Row
  <2>3. rows' \in Table
    BY <1>17, <2>1, <2>2, OneRow, UpsertOfTables DEF Mark, PutRow, TablesHoldRows
  <2> QED
    BY <1>17, <2>3 DEF Mark, Ended, NoMutation, serverVars, TablesHoldRows
<1>18. CASE NotCarried \/ AnswerLost
  BY <1>18 DEF NotCarried, AnswerLost, Ended, NoMutation, serverVars, TablesHoldRows
<1>19. CASE UNCHANGED vars
  BY <1>19 DEF vars, serverVars, tables, taskVars, TablesHoldRows
<1> QED
  BY <1>4, <1>5, <1>6, <1>7, <1>9, <1>10, <1>11, <1>12, <1>13, <1>14, <1>15, <1>16,
     <1>17, <1>18, <1>19 DEF Next, Server, Refresh, Mutate

-----------------------------------------------------------------------------
(* The lock.                                                               *)

\* The queue after one has joined, or its head has left.
LEMMA QueueSteps ==
  ASSUME NEW q \in Seq(Tasks), NEW t \in Tasks
  PROVE  /\ Append(q, t) \in Seq(Tasks)
         /\ q # <<>> => /\ Append(q, t) # <<>> /\ Head(Append(q, t)) = Head(q)
                        /\ Tail(q) \in Seq(Tasks)
  OBVIOUS

\* A scan that starts, fails or ends reads nothing.
LEMMA NotReading ==
  ASSUME NEW full, NEW fallback
  PROVE  /\ Idle.step # "read" /\ Requested(full, fallback).step # "read"
         /\ [Idle EXCEPT !.step = "albums", !.full = full,
                         !.fallback = fallback].step # "read"
<1>1. Idle.step # "read"
  BY DEF Idle
<1>2. Requested(full, fallback).step # "read"
  BY DEF Requested, Idle
<1>3. [Idle EXCEPT !.step = "albums", !.full = full, !.fallback = fallback].step # "read"
  BY DEF Idle
<1> QED
  BY <1>1, <1>2, <1>3

\* Who reads or has sent keeps the lock.
LEMMA LockStep ==
  ASSUME RefreshInvariant, [Next]_vars
  PROVE  LockedWhileSent'
<1> USE DEF RefreshInvariant
<1> DEFINE Reading == scan.step = "read"
           Sent == mutation.step = "sent"
<1>1. lockQueue \in Seq(Tasks) /\ {"refresh", "upload", "mutation"} = Tasks
  BY DEF LockedWhileSent, Tasks
<1>2. ASSUME NEW t \in Tasks, Holds(t)
      PROVE  /\ Tail(lockQueue) \in Seq(Tasks)
             /\ Append(Tail(lockQueue), "refresh") \in Seq(Tasks)
             /\ t # "refresh" => ~Reading
             /\ t # "mutation" => ~Sent
  BY <1>1, <1>2, QueueSteps DEF Holds, LockedWhileSent
<1>3. ASSUME NEW t \in Tasks, Wait(t)
      PROVE  /\ lockQueue' \in Seq(Tasks)
             /\ \A x : Holds(x) => Holds(x)'
  BY <1>1, <1>3, QueueSteps DEF Wait, Holds
<1>4. CASE UNCHANGED <<lockQueue, scan, mutation, service>> /\ Rows \subseteq Rows'
  BY <1>4 DEF LockedWhileSent, Holds
<1>5. ASSUME NEW a \in Assets, Appear(a) \/ Vanish(a) \/ Toggle(a) \/ Unlink(a)
      PROVE  UNCHANGED <<lockQueue, scan, mutation, service, rows>>
  BY <1>5 DEF Appear, Vanish, Toggle, Unlink, Unchanged, tables, taskVars
<1>6. ASSUME Tick \/ AskDelta \/ AskFull \/ RetryOffline \/ UNCHANGED vars
      PROVE  UNCHANGED <<lockQueue, scan, mutation, service, rows>>
  BY <1>6 DEF Tick, AskDelta, AskFull, RetryOffline, Unasked, Unchanged, vars, tables, taskVars
<1>7. ASSUME UNCHANGED <<lockQueue, scan, mutation, service, rows>> PROVE LockedWhileSent'
  BY <1>4, <1>7 DEF Rows
<1>8. CASE BeginFull \/ BeginDelta
  <2>1. Holds("refresh") /\ UNCHANGED <<lockQueue, mutation, service, rows>>
    BY <1>8 DEF BeginFull, BeginDelta, tables
  <2>2. ~Sent
    BY <1>1, <1>2, <2>1
  <2> QED
    BY <2>1, <2>2 DEF LockedWhileSent, Holds
<1>9. CASE ReadPage \/ NextSweep
  <2>1. Reading /\ UNCHANGED <<lockQueue, mutation, service, rows>>
    BY <1>9 DEF ReadPage, NextSweep, LastPage, tables
  <2> QED
    BY <2>1 DEF LockedWhileSent, Holds, Rows
<1>10. CASE FinishFull \/ FinishDelta \/ Reconcile
  <2>1. Holds("refresh")
    BY <1>10 DEF FinishFull, FinishDelta, Reconcile, LastPage, LockedWhileSent
  <2>2. UNCHANGED mutation /\ service' \in {service, "online"}
    BY <1>10 DEF FinishFull, FinishDelta, Reconcile
  <2>5. scan'.step # "read"
    <3>1. \/ scan' = [Idle EXCEPT !.step = "albums", !.full = TRUE, !.fallback = scan.fallback]
          \/ scan' = Idle
      BY <1>10 DEF FinishFull, FinishDelta, Reconcile
    <3> QED
      BY <3>1, NotReading
  <2>3. lockQueue' \in {Tail(lockQueue), Append(Tail(lockQueue), "refresh")}
    BY <1>10 DEF FinishFull, FinishDelta, Reconcile, Released
  <2>4. lockQueue' \in Seq(Tasks) /\ ~Sent
    BY <1>1, <1>2, <2>1, <2>3
  <2> QED
    BY <2>2, <2>4, <2>5 DEF LockedWhileSent
<1>11. ASSUME NEW kind, Fail(kind), Holds("refresh") PROVE LockedWhileSent'
  <2>1. /\ ~Sent /\ Tail(lockQueue) \in Seq(Tasks)
        /\ Append(Tail(lockQueue), "refresh") \in Seq(Tasks)
    BY <1>1, <1>2, <1>11
  <2>2. CASE FailOnline(kind)
    <3>1. /\ lockQueue' \in {Tail(lockQueue), Append(Tail(lockQueue), "refresh")}
          /\ scan' \in {Requested(TRUE, TRUE), Idle} /\ UNCHANGED <<mutation, service>>
      BY <2>2 DEF FailOnline, Quit, Released
    <3>2. scan'.step # "read"
      BY <3>1, NotReading
    <3> QED
      BY <2>1, <3>1, <3>2 DEF LockedWhileSent
  <2>3. CASE FailElsewhere(kind) /\ Down
    BY <2>3 DEF Down, LockedWhileSent, Idle, NoMutation
  <2>4. CASE FailElsewhere(kind) /\ ~Down
    <3>1. /\ service # "online" /\ UNCHANGED mutation
          /\ lockQueue' = Tail(lockQueue) /\ scan' = Idle
      BY <2>4 DEF FailElsewhere, Quit, Released
    <3>2. mutation.step = "idle"
      BY <3>1 DEF LockedWhileSent
    <3> QED
      BY <2>1, <3>1, <3>2 DEF LockedWhileSent, Idle
  <2> QED
    BY <1>11, <2>2, <2>3, <2>4 DEF Fail
<1>12. ASSUME NEW kind, RequestFails(kind) PROVE LockedWhileSent'
  BY <1>11, <1>12 DEF RequestFails
<1>13. CASE Refused \/ GiveUp
  <2>1. Holds("refresh") /\ (Fail("refused") \/ Fail("other"))
    BY <1>13 DEF Refused, GiveUp, Unsettled, Invalid, LastPage, LockedWhileSent
  <2> QED
    BY <1>11, <2>1
<1>14. CASE Start \/ Take
  <2>1. /\ Wait("refresh") /\ scan'.step = "wait" /\ UNCHANGED <<mutation, rows>>
        /\ service = "online" => service' = "online"
    BY <1>14 DEF Start, Take, Unasked, Requested, Idle, tables
  <2> QED
    BY <1>1, <1>3, <2>1 DEF LockedWhileSent, Rows
<1>15. CASE Crash
  BY <1>15 DEF Crash, Down, LockedWhileSent, Idle, NoMutation
<1>16. ASSUME NEW a \in Assets, ReadDetail(a) PROVE LockedWhileSent'
  <2>1. Wait("upload") /\ UNCHANGED <<scan, mutation, service, rows>>
    BY <1>16 DEF ReadDetail, tables
  <2> QED
    BY <1>1, <1>3, <2>1 DEF LockedWhileSent, Rows
<1>17. ASSUME NEW kind \in {"trash", "restore"}, NEW a \in Ours, Ask(kind, a)
       PROVE  LockedWhileSent'
  <2>1. /\ Wait("mutation") /\ UNCHANGED <<scan, service>> /\ service = "online"
        /\ mutation'.step = "asked"
    BY <1>17 DEF Ask
  <2> QED
    BY <1>1, <1>3, <2>1 DEF LockedWhileSent
<1>18. CASE AddUploaded
  <2>1. /\ Holds("upload") /\ lockQueue' = Tail(lockQueue)
        /\ UNCHANGED <<scan, mutation, service>>
    BY <1>18 DEF AddUploaded, Released
  <2>2. lockQueue' \in Seq(Tasks) /\ ~Reading /\ ~Sent
    BY <1>1, <1>2, <2>1
  <2> QED
    BY <2>1, <2>2 DEF LockedWhileSent
<1>19. CASE Carry
  <2>1. /\ Holds("mutation") /\ mutation.step = "asked" /\ mutation.asset \in Rows
        /\ mutation' = [mutation EXCEPT !.step = "sent", !.start = now]
        /\ UNCHANGED <<lockQueue, scan, service, rows>>
    BY <1>19 DEF Carry, StillMeant, tables
  <2>2. mutation'.asset = mutation.asset
    BY <2>1
  <2> QED
    BY <2>1, <2>2 DEF LockedWhileSent, Holds, Rows
<1>20. CASE Mark \/ NotCarried \/ AnswerLost
  <2>1. /\ Holds("mutation") /\ lockQueue' = Tail(lockQueue)
        /\ mutation' = NoMutation /\ UNCHANGED scan
    BY <1>20 DEF Mark, NotCarried, AnswerLost, Ended, Released
  <2>2. lockQueue' \in Seq(Tasks) /\ ~Reading
    BY <1>1, <1>2, <2>1
  <2> QED
    BY <2>1, <2>2 DEF LockedWhileSent, NoMutation
<1> QED
  BY <1>5, <1>6, <1>7, <1>8, <1>9, <1>10, <1>12, <1>13, <1>14, <1>15, <1>16, <1>17,
     <1>18, <1>19, <1>20 DEF Next, Server, Refresh, Mutate

-----------------------------------------------------------------------------
\* The tables, the lock and the links at first.
LEMMA RefreshInit ==
  ASSUME Init
  PROVE  RefreshInvariant
<1>1. server \in [Assets -> Row]
  BY RefreshAssumption DEF Init, Row
<1>2. TablesHoldRows
  BY <1>1, NoRowsIsTable, RefreshAssumption DEF Init, TablesHoldRows, NoUpload, NoMutation
<1>3. LockedWhileSent
  BY DEF Init, LockedWhileSent, Idle, NoMutation
<1>4. LinksMatchRows
  BY DEF Init, LinksMatchRows, Standalone, NoRows
<1> QED
  BY <1>2, <1>3, <1>4 DEF RefreshInvariant

-----------------------------------------------------------------------------
(* The links of the mount are those of the rows, in whatever order complete    *)
(* and incremental refreshes, uploads, trashes and restores change them, and   *)
(* whichever of them fails (_project_asset, _replace_namespace).               *)
THEOREM LinksAlwaysMatch == Spec => []LinksMatchRows
<1>1. Init => RefreshInvariant
  BY RefreshInit
<1>2. RefreshInvariant /\ [Next]_vars => RefreshInvariant'
  BY TablesStep, LockStep, LinksStep DEF RefreshInvariant
<1>3. RefreshInvariant => LinksMatchRows
  BY DEF RefreshInvariant
<1> QED
  BY <1>1, <1>2, <1>3, PTL DEF Spec

-----------------------------------------------------------------------------
(* The places of the assets in the search.                                 *)

\* How many of a set come before an asset.
Before(found, a) == Cardinality({b \in found : b < a})

\* What is assumed of the constants.
LEMMA Parameters ==
  /\ N \in Nat /\ Overlap \in Nat /\ MaxTime \in Nat
  /\ MaxChanges \in Nat /\ MaxFaults \in Nat
  /\ PageSize \in Nat \ {0} /\ MaxSweeps \in Nat \ {0}
  /\ Ours \subseteq Assets /\ Listed0 \subseteq Assets
  BY RefreshAssumption

\* There are N assets.
LEMMA AssetsAreFinite ==
  ASSUME NEW found \in SUBSET Assets
  PROVE  /\ IsFiniteSet(found) /\ found \subseteq Nat
         /\ Cardinality(found) \in Nat /\ Cardinality(found) <= N
<1>1. IsFiniteSet(Assets) /\ Assets \subseteq Nat /\ Cardinality(Assets) = N
  <2>1. N \in Nat /\ 1 \in Int /\ N \in Int
    BY Parameters
  <2>2. IsFiniteSet(1..N) /\ Cardinality(1..N) = IF 1 > N THEN 0 ELSE N - 1 + 1
    BY <2>1, FS_Interval
  <2> QED
    BY <2>1, <2>2 DEF Assets
<1>2. IsFiniteSet(found) /\ Cardinality(found) <= Cardinality(Assets)
  BY <1>1, FS_Subset
<1> QED
  BY <1>1, <1>2, FS_CardinalityType

\* A union is no larger than its parts together.
LEMMA UnionIsSmall ==
  ASSUME NEW S, NEW T, IsFiniteSet(S), IsFiniteSet(T)
  PROVE  /\ IsFiniteSet(S \cup T)
         /\ Cardinality(S \cup T) <= Cardinality(S) + Cardinality(T)
<1>1. /\ IsFiniteSet(S \cup T)
      /\ Cardinality(S \cup T) = Cardinality(S) + Cardinality(T) - Cardinality(S \cap T)
  BY FS_Union
<1>2. IsFiniteSet(S \cap T)
  <2>1. S \cap T \in SUBSET S
    OBVIOUS
  <2> QED
    BY <2>1, FS_Subset
<1>3. Cardinality(S) \in Nat /\ Cardinality(T) \in Nat /\ Cardinality(S \cap T) \in Nat
  BY <1>2, FS_CardinalityType
<1> QED
  BY <1>1, <1>3

\* What PageOf does with the position of an asset.
LEMMA OnPage ==
  ASSUME NEW n \in Nat, NEW p \in Nat \ {0}
  PROVE  n \div PageSize = p - 1 <=> (p - 1) * PageSize <= n /\ n < p * PageSize
<1>1. PageSize \in Nat \ {0}
  BY RefreshAssumption
<1> DEFINE q == n \div PageSize
           r == n % PageSize
<1>2. q \in Nat /\ r \in Nat /\ r < PageSize /\ n = q * PageSize + r
  BY <1>1, Z3
<1> HIDE DEF q, r
<1>3. ASSUME q = p - 1 PROVE (p - 1) * PageSize <= n /\ n < p * PageSize
  <2>1. n = (p - 1) * PageSize + r
    BY <1>2, <1>3
  <2>2. (p - 1) * PageSize \in Nat /\ p * PageSize = (p - 1) * PageSize + PageSize
    BY <1>1
  <2> QED
    BY <1>1, <1>2, <2>1, <2>2
<1>4. ASSUME (p - 1) * PageSize <= n, n < p * PageSize, q < p - 1 PROVE FALSE
  <2>1. q + 1 <= p - 1 /\ q + 1 \in Nat /\ p - 1 \in Nat
    BY <1>2, <1>4
  <2>2. (q + 1) * PageSize <= (p - 1) * PageSize
    BY <1>1, <2>1
  <2>3. (q + 1) * PageSize = q * PageSize + PageSize
    BY <1>1, <1>2
  <2>4. q * PageSize \in Nat
    BY <1>1, <1>2
  <2>5. (p - 1) * PageSize \in Nat
    BY <1>1
  <2> QED
    BY <1>1, <1>2, <1>4, <2>2, <2>3, <2>4, <2>5
<1>5. ASSUME (p - 1) * PageSize <= n, n < p * PageSize, q > p - 1 PROVE FALSE
  <2>1. q >= p
    BY <1>2, <1>5
  <2>2. q * PageSize >= p * PageSize
    BY <1>1, <1>2, <2>1
  <2>3. q * PageSize \in Nat /\ p * PageSize \in Nat
    BY <1>1, <1>2
  <2> QED
    BY <1>1, <1>2, <1>5, <2>2, <2>3
<1> QED
  BY <1>2, <1>3, <1>4, <1>5 DEF q

\* The places of the assets of a set are all different, ...
LEMMA PlacesDiffer ==
  ASSUME NEW found \in SUBSET Assets, NEW x \in found, NEW y \in found, x < y
  PROVE  Before(found, x) < Before(found, y)
<1> DEFINE fx == {b \in found : b < x}
           fy == {b \in found : b < y}
<1>1. IsFiniteSet(found) /\ found \subseteq Nat
  BY AssetsAreFinite
<1>2. IsFiniteSet(fx) /\ IsFiniteSet(fy)
  BY <1>1, FS_Subset
<1>3. fx \cup {x} \in SUBSET fy /\ x \notin fx
  <2>1. x \in Nat /\ y \in Nat /\ \A b \in found : b \in Nat
    BY <1>1
  <2>2. \A b \in found : b < x => b < y
    BY <2>1
  <2>3. fx \subseteq fy /\ x \in fy
    BY <2>2
  <2>4. x \notin fx
    BY <2>1
  <2> HIDE DEF fx, fy
  <2> QED
    BY <2>3, <2>4
<1>4. Cardinality(fx \cup {x}) = Cardinality(fx) + 1
  BY <1>2, <1>3, FS_AddElement
<1>5. Cardinality(fx \cup {x}) <= Cardinality(fy)
  BY <1>2, <1>3, FS_Subset
<1>6. Cardinality(fx) \in Nat /\ Cardinality(fy) \in Nat
  BY <1>2, FS_CardinalityType
<1> QED
  BY <1>4, <1>5, <1>6 DEF Before

\* ... so no more of them have a place of an interval than it is long.
LEMMA FewHavePlaces ==
  ASSUME NEW found \in SUBSET Assets, NEW lo \in Nat, NEW hi \in Nat, lo <= hi,
         NEW part \in SUBSET found,
         \A a \in part : lo <= Before(found, a) /\ Before(found, a) < hi
  PROVE  IsFiniteSet(part) /\ Cardinality(part) \in Nat /\ Cardinality(part) <= hi - lo
<1> DEFINE places == lo..(hi - 1)
           place == [a \in part |-> Before(found, a)]
<1>1. IsFiniteSet(found) /\ found \subseteq Nat
  BY AssetsAreFinite
<1>2. IsFiniteSet(part) /\ Cardinality(part) \in Nat
  BY <1>1, FS_Subset, FS_CardinalityType
<1>3. IsFiniteSet(places) /\ Cardinality(places) = hi - lo
  <2>1. lo \in Int /\ hi - 1 \in Int
    OBVIOUS
  <2>2. Cardinality(places) = IF lo > hi - 1 THEN 0 ELSE hi - 1 - lo + 1
    BY <2>1, FS_Interval
  <2>3. IsFiniteSet(places)
    BY <2>1, FS_Interval
  <2>4. Cardinality(places) = hi - lo
    BY <2>2
  <2> QED
    BY <2>3, <2>4
<1>4. \A a \in found : Before(found, a) \in Nat
  BY <1>1, FS_Subset, FS_CardinalityType DEF Before
<1>5. place \in [part -> places]
  BY <1>4
<1>6. ASSUME Cardinality(places) < Cardinality(part) PROVE FALSE
  <2> HIDE DEF places, place
  <2>1. PICK x \in part, y \in part : x # y /\ place[x] = place[y]
    BY <1>2, <1>3, <1>5, <1>6, FS_PigeonHole
  <2>2. Before(found, x) = Before(found, y)
    BY <2>1 DEF place
  <2>3. x < y \/ y < x
    BY <1>1, <2>1
  <2> QED
    BY <1>4, <2>2, <2>3, PlacesDiffer
<1> QED
  BY <1>2, <1>3, <1>6

\* The first place after a page is the first of the next.
LEMMA PageBounds ==
  ASSUME NEW p \in Nat \ {0}
  PROVE  /\ (p - 1) * PageSize \in Nat /\ p * PageSize \in Nat
         /\ p * PageSize = (p - 1) * PageSize + PageSize
         /\ p - 1 <= (p - 1) * PageSize
<1>1. PageSize \in Nat \ {0} /\ p - 1 \in Nat
  BY Parameters
<1>2. /\ (p - 1) * PageSize \in Nat /\ p * PageSize \in Nat
      /\ p * PageSize = (p - 1) * PageSize + PageSize
  BY <1>1
<1>3. (p - 1) * 1 <= (p - 1) * PageSize
  BY <1>1
<1> QED
  BY <1>1, <1>2, <1>3

\* A page holds the assets whose place is on it.
LEMMA PageHolds ==
  ASSUME NEW found \in SUBSET Assets, NEW p \in Nat \ {0}, NEW a \in found
  PROVE  /\ Before(found, a) \in Nat /\ Before(found, a) < Cardinality(found)
         /\ a \in PageOf(found, p) <=> /\ (p - 1) * PageSize <= Before(found, a)
                                      /\ Before(found, a) < p * PageSize
<1>1. {b \in found : b < a} \in SUBSET (found \ {a})
  BY AssetsAreFinite
<1>2. IsFiniteSet(found) /\ Cardinality(found) \in Nat
  BY AssetsAreFinite
<1>3. /\ IsFiniteSet(found \ {a}) /\ Cardinality(found \ {a}) = Cardinality(found) - 1
  BY <1>2, FS_RemoveElement
<1>4. /\ IsFiniteSet({b \in found : b < a})
      /\ Cardinality({b \in found : b < a}) <= Cardinality(found) - 1
  BY <1>1, <1>3, FS_Subset
<1>5. Cardinality({b \in found : b < a}) \in Nat
  BY <1>4, FS_CardinalityType
<1>6. Before(found, a) \in Nat /\ Before(found, a) < Cardinality(found)
  BY <1>2, <1>4, <1>5 DEF Before
<1>7. a \in PageOf(found, p) <=> Before(found, a) \div PageSize = p - 1
  BY DEF PageOf, Before
<1> QED
  BY <1>6, <1>7, OnPage

(* A page that is followed by another is full, ... *)
LEMMA PageIsFull ==
  ASSUME NEW found \in SUBSET Assets, NEW p \in Nat \ {0}, HasNext(found, p)
  PROVE  Cardinality(PageOf(found, p)) >= PageSize
<1> DEFINE lo == (p - 1) * PageSize
           hi == p * PageSize
           page == PageOf(found, p)
           early == {a \in found : Before(found, a) < lo}
           late == {a \in found : Before(found, a) >= hi}
           c == Cardinality(found)
<1>1. /\ lo \in Nat /\ hi \in Nat /\ hi = lo + PageSize /\ PageSize \in Nat \ {0}
      /\ c \in Nat /\ hi < c
  BY PageBounds, Parameters, AssetsAreFinite DEF HasNext
<1>2. \A a \in found : /\ Before(found, a) \in Nat /\ Before(found, a) < c
                       /\ a \in page <=> (lo <= Before(found, a) /\ Before(found, a) < hi)
  BY PageHolds
<1> HIDE DEF lo, hi, c
<1>3. page \subseteq found /\ found = early \cup page \cup late
  <2>1. page \subseteq found
    BY DEF PageOf
  <2>2. ASSUME NEW a \in found PROVE a \in early \cup page \cup late
    BY <1>1, <1>2
  <2> QED
    BY <2>1, <2>2
<1>4. IsFiniteSet(early) /\ Cardinality(early) \in Nat /\ Cardinality(early) <= lo
  <2>1. \A a \in early : 0 <= Before(found, a) /\ Before(found, a) < lo
    BY <1>2
  <2>2. early \in SUBSET found /\ 0 <= lo /\ 0 \in Nat /\ lo \in Nat /\ lo - 0 = lo
    BY <1>1
  <2> HIDE DEF early
  <2>3. IsFiniteSet(early) /\ Cardinality(early) \in Nat /\ Cardinality(early) <= lo - 0
    BY <2>1, <2>2, FewHavePlaces
  <2> QED
    BY <2>2, <2>3
<1>5. IsFiniteSet(late) /\ Cardinality(late) \in Nat /\ Cardinality(late) <= c - hi
  <2>1. \A a \in late : hi <= Before(found, a) /\ Before(found, a) < c
    BY <1>1, <1>2
  <2>2. late \in SUBSET found /\ hi <= c /\ hi \in Nat /\ c \in Nat
    BY <1>1
  <2> HIDE DEF late
  <2> QED
    BY <2>1, <2>2, FewHavePlaces
<1>6. IsFiniteSet(page) /\ Cardinality(page) \in Nat
  <2>1. page \in SUBSET Assets
    BY <1>3
  <2> QED
    BY <2>1, AssetsAreFinite
<1> HIDE DEF early, page, late
<1>7. /\ IsFiniteSet(early \cup page)
      /\ Cardinality(early \cup page) <= Cardinality(early) + Cardinality(page)
  BY <1>4, <1>6, UnionIsSmall
<1>8. Cardinality(early \cup page \cup late) <= Cardinality(early \cup page) + Cardinality(late)
  BY <1>5, <1>7, UnionIsSmall
<1>9. Cardinality(early \cup page) \in Nat
  BY <1>7, FS_CardinalityType
<1>10. c <= Cardinality(early \cup page) + Cardinality(late)
  BY <1>3, <1>8 DEF c
<1>11. Cardinality(page) >= PageSize
  BY <1>1, <1>4, <1>5, <1>6, <1>7, <1>9, <1>10
<1> QED
  BY <1>11 DEF page

(* ... and the last one has all that no page before it had. *)
LEMMA LastPageHasTheRest ==
  ASSUME NEW found \in SUBSET Assets, NEW p \in Nat \ {0}, ~HasNext(found, p),
         NEW a \in found, Before(found, a) >= (p - 1) * PageSize
  PROVE  a \in PageOf(found, p)
<1>1. p * PageSize \in Nat /\ Cardinality(found) \in Nat
  BY PageBounds, AssetsAreFinite
<1>2. Cardinality(found) <= p * PageSize
  BY <1>1 DEF HasNext
<1>3. Before(found, a) \in Nat /\ Before(found, a) < Cardinality(found)
  BY PageHolds
<1>4. Before(found, a) < p * PageSize
  BY <1>1, <1>2, <1>3
<1> QED
  BY <1>4, PageHolds

(* A sweep that has seen as many assets as its pages hold, none of them twice *)
(* and all of them still listed, has seen all there are.                      *)
LEMMA SweptIsListed ==
  ASSUME NEW found \in SUBSET Assets, NEW p \in Nat \ {0}, ~HasNext(found, p),
         NEW seen \in SUBSET found, seen \cap PageOf(found, p) = {},
         Cardinality(seen) >= (p - 1) * PageSize
  PROVE  seen \cup PageOf(found, p) = found
<1> DEFINE lo == (p - 1) * PageSize
           early == {a \in found : Before(found, a) < lo}
<1>1. lo \in Nat
  BY PageBounds
<1>2. \A a \in found : a \in early \/ a \in PageOf(found, p)
  <2> SUFFICES ASSUME NEW a \in found, a \notin early PROVE a \in PageOf(found, p)
    OBVIOUS
  <2>1. Before(found, a) \in Nat
    BY PageHolds
  <2>2. Before(found, a) >= lo
    BY <1>1, <2>1
  <2> QED
    BY <2>2, LastPageHasTheRest
<1>3. seen \subseteq early
  BY <1>2
<1>4. IsFiniteSet(early) /\ Cardinality(early) \in Nat /\ Cardinality(early) <= lo
  <2>1. \A a \in early : 0 <= Before(found, a) /\ Before(found, a) < lo
    <3>1. \A a \in found : Before(found, a) \in Nat
      BY PageHolds
    <3> QED
      BY <3>1
  <2>2. early \in SUBSET found /\ 0 <= lo /\ 0 \in Nat /\ lo \in Nat /\ lo - 0 = lo
    BY <1>1
  <2> HIDE DEF early, lo
  <2>3. IsFiniteSet(early) /\ Cardinality(early) \in Nat /\ Cardinality(early) <= lo - 0
    BY <2>1, <2>2, FewHavePlaces
  <2> QED
    BY <2>2, <2>3
<1>5. Cardinality(seen) \in Nat /\ Cardinality(seen) <= Cardinality(early)
  <2>1. seen \in SUBSET early /\ seen \in SUBSET Assets
    BY <1>3
  <2> HIDE DEF early
  <2> QED
    BY <1>4, <2>1, FS_Subset, AssetsAreFinite
<1>6. Cardinality(seen) = Cardinality(early)
  BY <1>1, <1>4, <1>5
<1>7. seen = early
  <2> HIDE DEF early
  <2> QED
    BY <1>3, <1>4, <1>6, FS_Subset
<1>8. PageOf(found, p) \subseteq found
  BY DEF PageOf
<1> QED
  BY <1>2, <1>7, <1>8

-----------------------------------------------------------------------------
(* The invariant of the cursor and the sweeps.                             *)

ScanType ==
  [step : {"idle", "wait", "read", "albums"}, full : BOOLEAN, fallback : BOOLEAN,
   sweep : Nat, page : Nat \ {0}, lower : Nat, high : Nat, seen : SUBSET Assets,
   previous : SUBSET (Assets \cup {None}), start : Nat]
UploadType == [step : {"read"}, asset : Ours, detail : Row, start : 0..MaxTime]
MutationType ==
  [step : {"asked", "sent"}, kind : {"trash", "restore"}, asset : Ours,
   start : 0..MaxTime]

ControlTypes ==
  /\ changes \in 0..MaxChanges /\ faults \in 0..MaxFaults
  /\ pages \in 0..N + 1 /\ trusted \in BOOLEAN
  /\ service \in {"down", "starting", "offline", "online"}
  /\ requests \in {"empty", "delta", "full"} /\ fullRequested \in BOOLEAN
  /\ scan \in ScanType
  /\ upload = NoUpload \/ upload \in UploadType
  /\ mutation = NoMutation \/ mutation \in MutationType

\* What was asked of the server was asked within the overlap.
Recent(t) == t.start <= now /\ now <= t.start + Overlap

ClockFits ==
  /\ highWater \in Nat /\ highWater <= now
  /\ \A a \in Assets : server[a].upd <= now
  /\ scan.high <= now
  /\ scan.step = "read" => Recent(scan)
  /\ upload.step = "read" => Recent(upload)
  /\ mutation.step = "sent" => Recent(mutation)

\* A row that was read of the server at t is right, or its asset has changed
\* since.
Known(a, row, t) ==
  \/ row.trashed = server[a].trashed /\ row.motion = server[a].motion
  \/ server[a].upd >= t

AnswersFit ==
  /\ scan.step = "read" =>
       \A a \in DOMAIN incoming : Known(a, incoming[a], scan.start)
  /\ upload.step = "read" => Known(upload.asset, upload.detail, upload.start)
  /\ mutation.step = "sent" => server[mutation.asset].upd >= mutation.start

\* The sweep before saw an asset that is gone for good, or all that were always
\* listed; what it did not see has changed since this one began.
Settled ==
  \/ \E b \in scan.previous : b \notin listed /\ b \notin scan.seen
  \/ /\ since.always \subseteq scan.previous
     /\ \A a \in listed \ scan.previous : server[a].upd >= scan.start

\* A sweep has staged what it has seen, a full page for each it has read.
SweepFits ==
  scan.step = "read" /\ scan.full =>
    /\ DOMAIN incoming = scan.seen
    /\ Cardinality(scan.seen) >= (scan.page - 1) * PageSize
    /\ since.always \subseteq listed /\ listed \cup scan.seen \subseteq since.ever
    /\ scan.previous \subseteq Assets /\ ~since.returned =>
         scan.previous \subseteq since.ever /\ Settled

\* An asset that changed between the cursor and the begin of a delta is staged,
\* or on a page to come.
DeltaFits ==
  scan.step = "read" /\ ~scan.full =>
    /\ scan.lower = IF highWater > Overlap THEN highWater - Overlap ELSE 0
    /\ ~shifted =>
         \A a \in listed :
           \/ server[a].upd < scan.lower \/ server[a].upd >= scan.start
           \/ a \in DOMAIN incoming
           \/ Before(Matching, a) >= (scan.page - 1) * PageSize

Queued(t, q) == \E i \in DOMAIN q : q[i] = t
AtMostOnce(q) == \A i, k \in DOMAIN q : q[i] = q[k] => i = k
InQueue(t) == Queued(t, lockQueue)

Active(t) ==
  \/ t = "refresh" /\ scan.step # "idle"
  \/ t = "upload" /\ upload.step # "idle"
  \/ t = "mutation" /\ mutation.step # "idle"

\* The queue of the lock has each task that is under way once, and no other.
QueueFits ==
  /\ \A t \in Tasks : InQueue(t) <=> Active(t)
  /\ AtMostOnce(lockQueue)
  /\ service = "down" => lockQueue = <<>> /\ requests = "empty"

CursorInvariant ==
  /\ RefreshInvariant
  /\ ControlTypes /\ ClockFits /\ AnswersFit
  /\ SweepFits /\ DeltaFits /\ QueueFits /\ CursorCovers

-----------------------------------------------------------------------------
(* The queue of the lock.                                                  *)

\* Who joins a queue is in it once.
LEMMA Joins ==
  ASSUME NEW q \in Seq(Tasks), NEW t \in Tasks, ~Queued(t, q), AtMostOnce(q)
  PROVE  /\ AtMostOnce(Append(q, t))
         /\ \A x : Queued(x, Append(q, t)) <=> Queued(x, q) \/ x = t
<1> DEFINE r == Append(q, t)
<1>1. /\ Len(q) \in Nat /\ DOMAIN q = 1..Len(q)
      /\ DOMAIN r = 1..(Len(q) + 1) /\ r[Len(q) + 1] = t
      /\ \A i \in 1..Len(q) : r[i] = q[i]
  OBVIOUS
<1> HIDE DEF r
<1>2. \A i \in DOMAIN r : \/ (i \in DOMAIN q /\ r[i] = q[i])
                        \/ (i = Len(q) + 1 /\ r[i] = t)
  BY <1>1
<1>3. \A i \in DOMAIN q : i \in DOMAIN r /\ r[i] = q[i] /\ q[i] # t
  BY <1>1 DEF Queued
<1>4. Len(q) + 1 \in DOMAIN r
  BY <1>1
<1>5. AtMostOnce(r)
  BY <1>2, <1>3 DEF AtMostOnce
<1>6. \A x : Queued(x, r) <=> Queued(x, q) \/ x = t
  BY <1>1, <1>2, <1>3, <1>4 DEF Queued
<1> QED
  BY <1>5, <1>6 DEF r

\* Who leaves a queue is no more in it.
LEMMA Leaves ==
  ASSUME NEW q \in Seq(Tasks), q # <<>>, AtMostOnce(q)
  PROVE  /\ AtMostOnce(Tail(q)) /\ Queued(Head(q), q)
         /\ \A x : Queued(x, Tail(q)) <=> Queued(x, q) /\ x # Head(q)
<1> DEFINE r == Tail(q)
<1>1. /\ Len(q) \in Nat \ {0} /\ DOMAIN q = 1..Len(q) /\ Head(q) = q[1]
      /\ DOMAIN r = 1..(Len(q) - 1)
      /\ \A i \in 1..(Len(q) - 1) : r[i] = q[i + 1]
  OBVIOUS
<1> HIDE DEF r
<1>2. \A i \in DOMAIN r : i + 1 \in DOMAIN q /\ r[i] = q[i + 1] /\ i + 1 # 1 /\ i \in Nat
  BY <1>1
<1>3. \A i \in DOMAIN q : i = 1 \/ (i - 1 \in DOMAIN r /\ r[i - 1] = q[i])
  BY <1>1
<1>4. 1 \in DOMAIN q
  BY <1>1
<1>5. AtMostOnce(r)
  <2> SUFFICES ASSUME NEW i \in DOMAIN r, NEW k \in DOMAIN r, r[i] = r[k] PROVE i = k
    BY DEF AtMostOnce
  <2>1. i + 1 = k + 1 /\ i \in Nat /\ k \in Nat
    BY <1>2 DEF AtMostOnce
  <2> QED
    BY <2>1
<1>6. ASSUME NEW x PROVE Queued(x, r) <=> Queued(x, q) /\ x # q[1]
  <2>1. ASSUME NEW i \in DOMAIN r, r[i] = x PROVE Queued(x, q) /\ x # q[1]
    BY <1>2, <1>4, <2>1 DEF Queued, AtMostOnce
  <2>2. ASSUME NEW i \in DOMAIN q, q[i] = x, x # q[1] PROVE Queued(x, r)
    BY <1>3, <2>2 DEF Queued
  <2> QED
    BY <2>1, <2>2 DEF Queued
<1>7. Queued(Head(q), q)
  BY <1>1, <1>4 DEF Queued
<1> QED
  BY <1>1, <1>5, <1>6, <1>7 DEF r

\* What the actions do with the queue: somebody joins it, its holder leaves it,
\* or leaves it for its end.
LEMMA QueueMoves ==
  ASSUME LockedWhileSent, QueueFits
  PROVE  /\ \A t \in Tasks : Wait(t) /\ ~InQueue(t) =>
              AtMostOnce(lockQueue)' /\ \A x : InQueue(x)' <=> InQueue(x) \/ x = t
         /\ \A t \in Tasks : Holds(t) /\ Released =>
              AtMostOnce(lockQueue)' /\ \A x : InQueue(x)' <=> InQueue(x) /\ x # t
         /\ \A t \in Tasks : Holds(t) /\ lockQueue' = Append(Tail(lockQueue), t) =>
              AtMostOnce(lockQueue)' /\ \A x : InQueue(x)' <=> InQueue(x)
         /\ \A t \in Tasks : Holds(t) => InQueue(t)
<1>1. lockQueue \in Seq(Tasks) /\ AtMostOnce(lockQueue)
  BY DEF LockedWhileSent, QueueFits
<1>2. ASSUME NEW t \in Tasks, Wait(t), ~InQueue(t)
      PROVE  AtMostOnce(lockQueue)' /\ \A x : InQueue(x)' <=> InQueue(x) \/ x = t
  <2>1. /\ AtMostOnce(Append(lockQueue, t))
        /\ \A x : Queued(x, Append(lockQueue, t)) <=> Queued(x, lockQueue) \/ x = t
    BY <1>1, <1>2, Joins DEF InQueue
  <2> QED
    BY <1>2, <2>1 DEF Wait, InQueue, AtMostOnce
<1>3. ASSUME NEW t \in Tasks, Holds(t)
      PROVE  /\ AtMostOnce(Tail(lockQueue)) /\ Tail(lockQueue) \in Seq(Tasks)
             /\ \A x : Queued(x, Tail(lockQueue)) <=> InQueue(x) /\ x # t
             /\ InQueue(t)
  BY <1>1, <1>3, Leaves, QueueSteps DEF Holds, InQueue
<1>4. ASSUME NEW t \in Tasks, Holds(t), Released
      PROVE  AtMostOnce(lockQueue)' /\ \A x : InQueue(x)' <=> InQueue(x) /\ x # t
  BY <1>3, <1>4 DEF Released, InQueue, AtMostOnce
<1>5. ASSUME NEW t \in Tasks, Holds(t), lockQueue' = Append(Tail(lockQueue), t)
      PROVE  AtMostOnce(lockQueue)' /\ \A x : InQueue(x)' <=> InQueue(x)
  <2> DEFINE q == Tail(lockQueue)
  <2>1. AtMostOnce(q) /\ q \in Seq(Tasks) /\ \A x : Queued(x, q) <=> InQueue(x) /\ x # t
    BY <1>3, <1>5
  <2>2. InQueue(t)
    BY <1>3, <1>5
  <2> HIDE DEF q
  <2>3. AtMostOnce(Append(q, t)) /\ \A x : Queued(x, Append(q, t)) <=> Queued(x, q) \/ x = t
    BY <2>1, Joins
  <2>4. lockQueue' = Append(q, t)
    BY <1>5 DEF q
  <2> QED
    BY <2>1, <2>2, <2>3, <2>4 DEF InQueue, AtMostOnce
<1> QED
  BY <1>2, <1>3, <1>4, <1>5

\* The steps of the scans that start, fail and end.
LEMMA StepsOfIdle ==
  /\ Idle.step = "idle"
  /\ \A full, fallback :
       /\ Requested(full, fallback).step = "wait"
       /\ [Idle EXCEPT !.step = "albums", !.full = full, !.fallback = fallback].step = "albums"
  BY DEF Idle, Requested

\* The scan that a step of a refresh leaves, field by field.
LEMMA ScanAfter ==
  ASSUME scan \in ScanType
  PROVE  /\ \A full : Begin(full) =>
              scan' = [step |-> "read", full |-> scan.full, fallback |-> scan.fallback,
                       sweep |-> IF full THEN 1 ELSE 0, page |-> 1,
                       lower |-> IF ~full /\ highWater > Overlap
                                 THEN highWater - Overlap ELSE 0,
                       high |-> IF full THEN 0 ELSE highWater, seen |-> {},
                       previous |-> NoSweep, start |-> now]
         /\ ReadPage =>
              scan' = [step |-> scan.step, full |-> scan.full, fallback |-> scan.fallback,
                       sweep |-> scan.sweep, page |-> scan.page + 1,
                       lower |-> scan.lower, high |-> High, seen |-> Seen,
                       previous |-> scan.previous, start |-> scan.start]
         /\ NextSweep =>
              scan' = [step |-> scan.step, full |-> scan.full, fallback |-> scan.fallback,
                       sweep |-> scan.sweep + 1, page |-> 1,
                       lower |-> scan.lower, high |-> 0, seen |-> {},
                       previous |-> Seen, start |-> now]
<1>1. scan = [step |-> scan.step, full |-> scan.full, fallback |-> scan.fallback,
              sweep |-> scan.sweep, page |-> scan.page, lower |-> scan.lower,
              high |-> scan.high, seen |-> scan.seen, previous |-> scan.previous,
              start |-> scan.start]
  BY DEF ScanType
<1>2. ASSUME NEW full, Begin(full)
      PROVE  scan' = [step |-> "read", full |-> scan.full, fallback |-> scan.fallback,
                      sweep |-> IF full THEN 1 ELSE 0, page |-> 1,
                      lower |-> IF ~full /\ highWater > Overlap
                                THEN highWater - Overlap ELSE 0,
                      high |-> IF full THEN 0 ELSE highWater, seen |-> {},
                      previous |-> NoSweep, start |-> now]
  BY <1>1, <1>2 DEF Begin
<1>3. ASSUME ReadPage
      PROVE  scan' = [step |-> scan.step, full |-> scan.full, fallback |-> scan.fallback,
                      sweep |-> scan.sweep, page |-> scan.page + 1,
                      lower |-> scan.lower, high |-> High, seen |-> Seen,
                      previous |-> scan.previous, start |-> scan.start]
  BY <1>1, <1>3 DEF ReadPage
<1>4. ASSUME NextSweep
      PROVE  scan' = [step |-> scan.step, full |-> scan.full, fallback |-> scan.fallback,
                      sweep |-> scan.sweep + 1, page |-> 1,
                      lower |-> scan.lower, high |-> 0, seen |-> {},
                      previous |-> Seen, start |-> now]
  BY <1>1, <1>4 DEF NextSweep
<1> QED
  BY <1>2, <1>3, <1>4

\* The queue keeps to the tasks that are under way.
LEMMA QueueStep ==
  ASSUME RefreshInvariant, ControlTypes, QueueFits, [Next]_vars
  PROVE  QueueFits'
<1> DEFINE Up == service' = "down" => service = "down" /\ requests' = requests
<1> USE DEF RefreshInvariant
<1>1. /\ AtMostOnce(lockQueue) /\ Tasks = {"refresh", "upload", "mutation"}
      /\ \A t \in Tasks : InQueue(t) <=> Active(t)
      /\ service = "down" => lockQueue = <<>> /\ requests = "empty"
      /\ \A t : Holds(t) => service # "down"
  BY DEF QueueFits, Tasks, Holds
<1>2. ASSUME UNCHANGED lockQueue, \A t \in Tasks : Active(t)' <=> Active(t), Up PROVE QueueFits'
  BY <1>1, <1>2 DEF QueueFits, InQueue, AtMostOnce
<1>3. ASSUME NEW t \in Tasks, Wait(t), ~InQueue(t), service' # "down",
             \A x \in Tasks : Active(x)' <=> Active(x) \/ x = t
      PROVE  QueueFits'
  <2>1. AtMostOnce(lockQueue)' /\ \A x : InQueue(x)' <=> InQueue(x) \/ x = t
    BY <1>3, QueueMoves
  <2> QED
    BY <1>1, <1>3, <2>1 DEF QueueFits
<1>4. ASSUME NEW t \in Tasks, Holds(t), Released, service' # "down",
             \A x \in Tasks : Active(x)' <=> Active(x) /\ x # t
      PROVE  QueueFits'
  <2>1. AtMostOnce(lockQueue)' /\ \A x : InQueue(x)' <=> InQueue(x) /\ x # t
    BY <1>4, QueueMoves
  <2> QED
    BY <1>1, <1>4, <2>1 DEF QueueFits
<1>5. ASSUME NEW t \in Tasks, Holds(t), lockQueue' = Append(Tail(lockQueue), t),
             service' # "down", \A x \in Tasks : Active(x)' <=> Active(x)
      PROVE  QueueFits'
  <2>1. AtMostOnce(lockQueue)' /\ \A x : InQueue(x)' <=> InQueue(x)
    BY <1>5, QueueMoves
  <2> QED
    BY <1>1, <1>5, <2>1 DEF QueueFits
<1>6. ASSUME Down PROVE QueueFits'
  BY <1>1, <1>6, StepsOfIdle DEF Down, QueueFits, AtMostOnce, InQueue, Queued, Active, NoUpload, NoMutation
<1>7. ASSUME NEW a \in Assets, Appear(a) \/ Vanish(a) \/ Toggle(a) \/ Unlink(a)
      PROVE  UNCHANGED <<lockQueue, scan, upload, mutation, service, requests>>
  BY <1>7 DEF Appear, Vanish, Toggle, Unlink, Unchanged, taskVars
<1>8. ASSUME Tick \/ UNCHANGED vars
      PROVE  UNCHANGED <<lockQueue, scan, upload, mutation, service, requests>>
  BY <1>8 DEF Tick, Unchanged, vars, taskVars
<1>9. ASSUME AskDelta \/ AskFull \/ RetryOffline
      PROVE  UNCHANGED <<lockQueue, scan, upload, mutation, service>> /\ service # "down"
  BY <1>9 DEF AskDelta, AskFull, RetryOffline, Unasked
<1>10. ASSUME UNCHANGED <<lockQueue, scan, upload, mutation, service>>,
              service = "down" => UNCHANGED requests
       PROVE  QueueFits'
  BY <1>2, <1>10 DEF Active
<1>11. CASE BeginFull \/ BeginDelta \/ ReadPage \/ NextSweep
  <2>1. /\ UNCHANGED <<lockQueue, upload, mutation, service, requests>>
        /\ scan.step # "idle" /\ scan'.step # "idle"
    <3>1. scan'.step \in {"read", scan.step}
      <4>1. Begin(TRUE) \/ Begin(FALSE) \/ ReadPage \/ NextSweep
        BY <1>11 DEF BeginFull, BeginDelta
      <4>2. scan \in ScanType
        BY DEF ControlTypes
      <4>3. ASSUME NEW full, Begin(full) PROVE scan'.step = "read"
        BY <4>2, <4>3, ScanAfter
      <4>4. ASSUME ReadPage \/ NextSweep PROVE scan'.step = scan.step
        BY <4>2, <4>4, ScanAfter
      <4> QED
        BY <4>1, <4>3, <4>4
    <3> QED
      BY <1>11, <3>1 DEF BeginFull, BeginDelta, ReadPage, NextSweep, LastPage
  <2> QED
    BY <1>2, <2>1 DEF Active
<1>12. ASSUME LastPage \/ scan.step = "albums"
       PROVE  scan.step # "idle"
  BY <1>12 DEF LastPage
<1>13. CASE FinishFull
  <2>1. /\ Holds("refresh") /\ UNCHANGED <<upload, mutation, service>>
        /\ lockQueue' = Append(Tail(lockQueue), "refresh") /\ scan.step # "idle"
        /\ scan' = [Idle EXCEPT !.step = "albums", !.full = TRUE, !.fallback = scan.fallback]
    BY <1>13 DEF FinishFull, LastPage, LockedWhileSent
  <2>2. scan'.step # "idle"
    BY <2>1, StepsOfIdle
  <2> QED
    BY <1>1, <1>5, <2>1, <2>2 DEF Active
<1>14. CASE FinishDelta \/ Reconcile
  <2>1. /\ Holds("refresh") /\ UNCHANGED <<upload, mutation>> /\ Released
        /\ scan' = Idle /\ service' \in {service, "online"}
    BY <1>14 DEF FinishDelta, Reconcile, LastPage, LockedWhileSent
  <2> QED
    BY <1>1, <1>4, <2>1, StepsOfIdle DEF Active
<1>15. ASSUME NEW kind, Fail(kind), Holds("refresh"), scan.step # "idle" PROVE QueueFits'
  <2>1. CASE FailOnline(kind) /\ scan' = Idle
    BY <1>1, <1>4, <1>15, <2>1, StepsOfIdle DEF FailOnline, Quit, Requested, Active
  <2>2. CASE FailOnline(kind) /\ scan' # Idle
    <3>1. /\ lockQueue' = Append(Tail(lockQueue), "refresh")
          /\ scan' = Requested(TRUE, TRUE) /\ UNCHANGED <<upload, mutation, service>>
      BY <2>2 DEF FailOnline
    <3> QED
      BY <1>1, <1>5, <1>15, <3>1, StepsOfIdle DEF Active
  <2>3. CASE FailElsewhere(kind) /\ ~Down
    <3>1. /\ service' = "offline" /\ scan' = Idle /\ Released
          /\ UNCHANGED <<upload, mutation>>
      BY <2>3 DEF FailElsewhere, Quit
    <3> QED
      BY <1>1, <1>4, <1>15, <3>1, StepsOfIdle DEF Active
  <2> QED
    BY <1>6, <1>15, <2>1, <2>2, <2>3 DEF Fail
<1>16. ASSUME NEW kind, RequestFails(kind) PROVE QueueFits'
  BY <1>15, <1>16 DEF RequestFails
<1>17. CASE Refused \/ GiveUp
  <2>1. Holds("refresh") /\ (Fail("refused") \/ Fail("other")) /\ scan.step # "idle"
    BY <1>17 DEF Refused, GiveUp, Unsettled, Invalid, LastPage, LockedWhileSent
  <2> QED
    BY <1>15, <2>1
<1>18. CASE Start \/ Take
  <2>1. /\ Wait("refresh") /\ UNCHANGED <<upload, mutation>> /\ service' # "down"
        /\ ~InQueue("refresh") /\ \E full : scan' = Requested(full, FALSE)
    <3>1. CASE Start
      <4>1. service = "down" /\ lockQueue = <<>>
        BY <1>1, <3>1 DEF Start
      <4>2. ~InQueue("refresh")
        BY <4>1 DEF InQueue, Queued
      <4>3. scan' = Requested(TRUE, FALSE)
        BY <3>1 DEF Start
      <4> QED
        BY <3>1, <4>2, <4>3 DEF Start, Unasked
    <3>2. CASE Take
      BY <1>1, <3>2, StepsOfIdle DEF Take, Unasked, Active
    <3> QED
      BY <1>18, <3>1, <3>2
  <2>2. scan'.step # "idle"
    BY <2>1, StepsOfIdle
  <2> QED
    BY <1>1, <1>3, <2>1, <2>2 DEF Active
<1>19. CASE Crash
  BY <1>6, <1>19 DEF Crash
<1>20. ASSUME NEW a \in Assets, ReadDetail(a) PROVE QueueFits'
  <2>1. /\ Wait("upload") /\ UNCHANGED <<scan, mutation, service>> /\ service # "down"
        /\ upload.step = "idle" /\ upload'.step = "read"
    BY <1>20 DEF ReadDetail, NoUpload
  <2> QED
    BY <1>1, <1>3, <2>1 DEF Active
<1>21. ASSUME NEW kind \in {"trash", "restore"}, NEW a \in Ours, Ask(kind, a)
       PROVE  QueueFits'
  <2>1. /\ Wait("mutation") /\ UNCHANGED <<scan, upload, service>> /\ service # "down"
        /\ mutation.step = "idle" /\ mutation'.step = "asked"
    BY <1>21 DEF Ask, NoMutation
  <2> QED
    BY <1>1, <1>3, <2>1 DEF Active
<1>22. CASE AddUploaded
  <2>1. /\ Holds("upload") /\ Released /\ UNCHANGED <<scan, mutation, service>>
        /\ upload'.step = "idle"
    BY <1>22 DEF AddUploaded, NoUpload
  <2> QED
    BY <1>1, <1>4, <2>1 DEF Active
<1>23. CASE Carry
  <2>1. /\ mutation.step = "asked" /\ mutation'.step = "sent"
        /\ UNCHANGED <<lockQueue, scan, upload, service, requests>>
    BY <1>23 DEF Carry, ControlTypes, NoMutation
  <2> QED
    BY <1>2, <2>1 DEF Active
<1>24. CASE Mark \/ NotCarried \/ AnswerLost
  <2>1. /\ Holds("mutation") /\ Released /\ UNCHANGED <<scan, upload, service>>
        /\ mutation'.step = "idle"
    BY <1>24 DEF Mark, NotCarried, AnswerLost, Ended, NoMutation
  <2> QED
    BY <1>1, <1>4, <2>1 DEF Active
<1> QED
  BY <1>7, <1>8, <1>9, <1>10, <1>11, <1>13, <1>14, <1>16, <1>17, <1>18, <1>19, <1>20,
     <1>21, <1>22, <1>23, <1>24 DEF Next, Server, Refresh, Mutate

-----------------------------------------------------------------------------
(* The types of what is under way.                                         *)

\* The scans that start, fail and end.
LEMMA ScansAreTyped ==
  /\ Idle \in ScanType
  /\ \A full \in BOOLEAN, fallback \in BOOLEAN :
       /\ Requested(full, fallback) \in ScanType
       /\ [Idle EXCEPT !.step = "albums", !.full = full, !.fallback = fallback] \in ScanType
<1>1. Idle \in ScanType
  BY DEF Idle, ScanType, NoSweep
<1>2. ASSUME NEW full \in BOOLEAN, NEW fallback \in BOOLEAN
      PROVE  Requested(full, fallback) \in ScanType
  BY <1>1 DEF Requested, ScanType
<1>3. ASSUME NEW full \in BOOLEAN, NEW fallback \in BOOLEAN
      PROVE  [Idle EXCEPT !.step = "albums", !.full = full, !.fallback = fallback] \in ScanType
  BY <1>1 DEF ScanType
<1> QED
  BY <1>1, <1>2, <1>3

\* The largest of some times is one of them: the one the fewest are after.
LEMMA LargestTime ==
  ASSUME NEW n \in Nat, NEW S \in SUBSET (0..n), S # {}
  PROVE  MaxOf(S) \in S /\ \A x \in S : x <= MaxOf(S)
<1> DEFINE after == {x..n : x \in S}
           R == StrictSubsetOrdering(0..n)
<1>1. IsWellFoundedOn(R, SUBSET (0..n))
  <2>1. 0 \in Int /\ n \in Int
    OBVIOUS
  <2>2. IsFiniteSet(0..n)
    BY <2>1, FS_Interval
  <2>3. FiniteSubsetsOf(0..n) = SUBSET (0..n)
    BY <2>2, FS_FiniteSubsetsOfFinite
  <2>4. IsWellFoundedOn(R, FiniteSubsetsOf(0..n))
    BY FS_StrictSubsetOrderingWellFounded
  <2> QED
    BY <2>3, <2>4
<1>2. after \subseteq SUBSET (0..n) /\ after # {}
  <2>1. PICK z \in S : TRUE
    OBVIOUS
  <2>2. z..n \in after
    OBVIOUS
  <2>3. \A x \in S : x..n \subseteq 0..n
    OBVIOUS
  <2> QED
    BY <2>2, <2>3
<1>3. PICK s \in after : \A u \in after : ~ (<<u, s>> \in R)
  <2> HIDE DEF after, R
  <2>1. \E s \in after : \A u \in after : ~ (<<u, s>> \in R)
    BY <1>1, <1>2, WFMin
  <2> QED
    BY <2>1
<1>4. PICK x \in S : s = x..n
  BY <1>3
<1>5. ASSUME NEW y \in S, y > x PROVE FALSE
  <2>1. /\ y..n \in after /\ y..n \subseteq x..n /\ x \in x..n /\ x \notin y..n
        /\ y..n \in SUBSET (0..n) /\ x..n \in SUBSET (0..n)
    BY <1>5
  <2>2. <<y..n, x..n>> \in R
    BY <2>1 DEF StrictSubsetOrdering
  <2> QED
    BY <1>3, <1>4, <2>1, <2>2
<1>6. \A y \in S : y <= x
  BY <1>5
<1> QED
  BY <1>6 DEF MaxOf

\* What a page adds to the sweep.
LEMMA PageIsTyped ==
  ASSUME TablesHoldRows, ControlTypes, ClockFits
  PROVE  /\ Page \subseteq Matching /\ Matching \subseteq listed /\ Matching \in SUBSET Assets
         /\ Seen \in SUBSET Assets
         /\ High \in Nat /\ High <= now /\ scan.high <= High
<1>1. Page \subseteq Matching /\ Matching \subseteq listed /\ listed \subseteq Assets
  BY DEF Page, PageOf, Matching, TablesHoldRows
<1>2. Seen \in SUBSET Assets
  BY <1>1 DEF Seen, ControlTypes, ScanType
<1> DEFINE S == {scan.high} \cup {server[a].upd : a \in Page}
<1>3. now \in Nat /\ S \in SUBSET (0..now) /\ S # {}
  <2>1. now \in Nat
    BY Parameters DEF TablesHoldRows
  <2>2. scan.high \in 0..now
    BY <2>1 DEF ControlTypes, ScanType, ClockFits
  <2>3. \A a \in Page : server[a].upd \in 0..now
    BY <1>1, <2>1, Parameters DEF TablesHoldRows, ClockFits, Row
  <2> QED
    BY <2>1, <2>2, <2>3
<1>4. MaxOf(S) \in S /\ \A x \in S : x <= MaxOf(S)
  <2> HIDE DEF S
  <2> QED
    BY <1>3, LargestTime
<1>5. High = MaxOf(S)
  BY DEF High
<1>6. High \in 0..now /\ scan.high <= High
  BY <1>3, <1>4, <1>5
<1> QED
  BY <1>1, <1>2, <1>3, <1>6

\* A page budget is one more than the assets at most.
LEMMA PagesAreFew ==
  ASSUME ControlTypes, SweepFits, scan.step = "read", scan.full
  PROVE  scan.page \in 0..N + 1
<1>1. scan.page \in Nat \ {0} /\ scan.seen \in SUBSET Assets
  BY DEF ControlTypes, ScanType
<1>2. /\ (scan.page - 1) * PageSize \in Nat /\ scan.page - 1 <= (scan.page - 1) * PageSize
  BY <1>1, PageBounds
<1>3. /\ Cardinality(scan.seen) >= (scan.page - 1) * PageSize
      /\ Cardinality(scan.seen) \in Nat /\ Cardinality(scan.seen) <= N
  BY <1>1, AssetsAreFinite DEF SweepFits
<1> QED
  BY <1>1, <1>2, <1>3, Parameters

\* No step leaves the types of what is under way.
LEMMA ControlStep ==
  ASSUME RefreshInvariant, ControlTypes, ClockFits, SweepFits, [Next]_vars
  PROVE  ControlTypes'
<1> USE DEF RefreshInvariant
<1> DEFINE Same == UNCHANGED <<pages, trusted, service, requests, fullRequested>>
           Tasked == UNCHANGED <<scan, upload, mutation>>
<1>0. now \in 0..MaxTime /\ now \in Nat
  BY Parameters DEF TablesHoldRows
<1>1. ASSUME NEW a \in Assets, Appear(a) \/ Vanish(a) \/ Toggle(a) \/ Unlink(a)
      PROVE  ControlTypes'
  <2>1. Counted /\ UNCHANGED faults /\ Same /\ Tasked
    BY <1>1 DEF Appear, Vanish, Toggle, Unlink, Change, Unchanged, tables, taskVars
  <2>2. changes' \in 0..MaxChanges
    BY <2>1, Parameters DEF Counted, ControlTypes
  <2> QED
    BY <2>1, <2>2 DEF ControlTypes
<1>2. CASE Tick \/ UNCHANGED vars
  <2>1. UNCHANGED <<changes, faults>> /\ Same /\ Tasked
    BY <1>2 DEF Tick, Unchanged, vars, serverVars, tables, taskVars
  <2> QED
    BY <2>1 DEF ControlTypes
<1>3. CASE BeginFull \/ BeginDelta
  <2>1. UNCHANGED <<changes, faults, upload, mutation>> /\ Same
    BY <1>3 DEF BeginFull, BeginDelta, serverVars, tables
  <2>2. (highWater > Overlap => highWater - Overlap \in Nat) /\ highWater \in Nat
    BY Parameters DEF ClockFits
  <2>3. scan' \in ScanType
    <3>1. PICK full \in BOOLEAN : Begin(full)
      BY <1>3 DEF BeginFull, BeginDelta
    <3>2. (IF ~full /\ highWater > Overlap THEN highWater - Overlap ELSE 0) \in Nat
      BY <2>2
    <3>3. (IF full THEN 0 ELSE highWater) \in Nat
      BY <2>2
    <3>4. scan \in ScanType
      BY DEF ControlTypes
    <3> DEFINE lower == IF ~full /\ highWater > Overlap THEN highWater - Overlap ELSE 0
               high == IF full THEN 0 ELSE highWater
    <3>5. scan' = [step |-> "read", full |-> scan.full, fallback |-> scan.fallback,
                   sweep |-> IF full THEN 1 ELSE 0, page |-> 1, lower |-> lower,
                   high |-> high, seen |-> {}, previous |-> NoSweep, start |-> now]
      BY <3>1, <3>4, ScanAfter
    <3> HIDE DEF lower, high
    <3>6. lower \in Nat /\ high \in Nat
      BY <3>2, <3>3 DEF lower, high
    <3> QED
      BY <1>0, <3>4, <3>5, <3>6 DEF NoSweep, ScanType
  <2> QED
    BY <2>1, <2>3 DEF ControlTypes
<1>4. CASE ReadPage \/ NextSweep
  <2>1. UNCHANGED <<changes, faults, upload, mutation>> /\ Same
    BY <1>4 DEF ReadPage, NextSweep, serverVars, tables
  <2>2. High \in Nat /\ Seen \in SUBSET Assets
    BY PageIsTyped
  <2>3. CASE ReadPage
    <3>1. scan' \in ScanType
      BY <2>2, <2>3, ScanAfter DEF ControlTypes, ScanType
    <3> QED
      BY <2>1, <3>1 DEF ControlTypes
  <2>4. CASE NextSweep
    <3>1. scan' \in ScanType
      BY <1>0, <2>2, <2>4, ScanAfter DEF ControlTypes, ScanType
    <3> QED
      BY <2>1, <3>1 DEF ControlTypes
  <2> QED
    BY <1>4, <2>3, <2>4
<1>5. CASE FinishFull
  <2>1. /\ UNCHANGED <<changes, faults, trusted, service, requests, fullRequested,
                       upload, mutation>>
        /\ pages' = scan.page /\ scan.step = "read" /\ scan.full
        /\ scan' = [Idle EXCEPT !.step = "albums", !.full = TRUE, !.fallback = scan.fallback]
    BY <1>5 DEF FinishFull, LastPage, Publish, serverVars
  <2>2. scan.fallback \in BOOLEAN
    BY DEF ControlTypes, ScanType
  <2> QED
    BY <2>1, <2>2, PagesAreFew, ScansAreTyped DEF ControlTypes
<1>6. CASE FinishDelta \/ Reconcile
  <2>1. /\ UNCHANGED <<changes, faults, requests, pages, upload, mutation>>
        /\ scan' = Idle /\ trusted' \in {trusted, TRUE} /\ service' \in {service, "online"}
        /\ \/ UNCHANGED fullRequested
           \/ fullRequested' = (fullRequested /\ service # "offline")
    BY <1>6 DEF FinishDelta, Reconcile, Publish, serverVars, tables
  <2>2. fullRequested' \in BOOLEAN
    BY <2>1 DEF ControlTypes
  <2> QED
    BY <2>1, <2>2, ScansAreTyped DEF ControlTypes
<1>7. ASSUME Down, UNCHANGED <<changes, pages, trusted>>, faults' \in 0..MaxFaults
      PROVE  ControlTypes'
  BY <1>7, ScansAreTyped DEF Down, ControlTypes
<1>8. ASSUME NEW kind, Fail(kind), faults' \in 0..MaxFaults PROVE ControlTypes'
  <2>1. UNCHANGED <<changes, pages, trusted>>
    BY <1>8 DEF Fail, serverVars, tables
  <2>2. CASE FailOnline(kind)
    <3>1. /\ scan' = Requested(TRUE, TRUE) \/ scan' = Idle
          /\ UNCHANGED <<service, requests, fullRequested, upload, mutation>>
      BY <2>2 DEF FailOnline
    <3> QED
      BY <1>8, <2>1, <3>1, ScansAreTyped DEF ControlTypes
  <2>3. CASE FailElsewhere(kind) /\ ~Down
    <3>1. service' = "offline" /\ scan' = Idle
          /\ UNCHANGED <<requests, fullRequested, upload, mutation>>
      BY <2>3 DEF FailElsewhere
    <3> QED
      BY <1>8, <2>1, <3>1, ScansAreTyped DEF ControlTypes
  <2> QED
    BY <1>7, <1>8, <2>1, <2>2, <2>3 DEF Fail
<1>9. faults < MaxFaults /\ faults' = faults + 1 => faults' \in 0..MaxFaults
  BY Parameters DEF ControlTypes
<1>10. ASSUME NEW kind, RequestFails(kind) PROVE ControlTypes'
  BY <1>8, <1>9, <1>10 DEF RequestFails
<1>11. CASE Refused \/ GiveUp
  BY <1>8, <1>11 DEF Refused, GiveUp, ControlTypes
<1>12. CASE Crash
  BY <1>7, <1>9, <1>12 DEF Crash, serverVars, tables
<1>13. CASE Start \/ Take
  <2>1. /\ UNCHANGED <<changes, faults, pages, trusted, upload, mutation>>
        /\ requests' \in {requests, "empty"} /\ service' \in {service, "starting"}
        /\ fullRequested' \in BOOLEAN
        /\ \E full \in BOOLEAN : scan' = Requested(full, FALSE)
    <3>1. CASE Start
      BY <3>1 DEF Start, Unasked, serverVars, tables, ControlTypes
    <3>2. CASE Take
      <4>1. (requests = "full" \/ fullRequested \/ service = "offline") \in BOOLEAN
        BY DEF ControlTypes
      <4>2. (fullRequested /\ service = "offline") \in BOOLEAN
        BY DEF ControlTypes
      <4> QED
        BY <3>2, <4>1, <4>2 DEF Take, Unasked, serverVars, tables
    <3> QED
      BY <1>13, <3>1, <3>2
  <2>2. scan' \in ScanType
    BY <2>1, ScansAreTyped
  <2> QED
    BY <2>1, <2>2 DEF ControlTypes
<1>14. CASE AskDelta \/ AskFull \/ RetryOffline
  <2>1. /\ UNCHANGED <<changes, faults, pages, trusted, service>> /\ Tasked
        /\ requests' \in {requests, "delta", "full"} /\ fullRequested' \in {fullRequested, TRUE}
    BY <1>14 DEF AskDelta, AskFull, RetryOffline, Send, Unasked, serverVars, tables
  <2> QED
    BY <2>1 DEF ControlTypes
<1>15. ASSUME NEW a \in Assets, ReadDetail(a) PROVE ControlTypes'
  <2>1. UNCHANGED <<changes, faults, scan, mutation>> /\ Same
    BY <1>15 DEF ReadDetail, serverVars, tables
  <2>2. a \in Ours /\ server[a] \in Row
    BY <1>15 DEF ReadDetail, TablesHoldRows
  <2>3. upload' \in UploadType
    BY <1>0, <1>15, <2>2 DEF ReadDetail, UploadType
  <2> QED
    BY <2>1, <2>3 DEF ControlTypes
<1>16. ASSUME NEW kind \in {"trash", "restore"}, NEW a \in Ours, Ask(kind, a)
       PROVE  ControlTypes'
  <2>1. Counted /\ UNCHANGED <<faults, scan, upload>> /\ Same
    BY <1>16 DEF Ask, tables
  <2>2. changes' \in 0..MaxChanges
    BY <2>1, Parameters DEF Counted, ControlTypes
  <2>3. mutation' \in MutationType
    BY <1>16, Parameters DEF Ask, MutationType
  <2> QED
    BY <2>1, <2>2, <2>3 DEF ControlTypes
<1>17. CASE AddUploaded
  BY <1>17 DEF AddUploaded, serverVars, ControlTypes
<1>18. CASE Carry
  <2>1. UNCHANGED <<changes, faults, scan, upload>> /\ Same
    BY <1>18 DEF Carry, tables
  <2>2. mutation \in MutationType /\ mutation' = [mutation EXCEPT !.step = "sent", !.start = now]
    BY <1>18 DEF Carry, ControlTypes, NoMutation
  <2>3. mutation' \in MutationType
    BY <1>0, <2>2 DEF MutationType
  <2> QED
    BY <2>1, <2>3 DEF ControlTypes
<1>19. CASE Mark \/ NotCarried \/ AnswerLost
  <2>1. /\ UNCHANGED <<changes, pages, trusted, service, fullRequested, scan, upload>>
        /\ requests' \in {requests, "delta"} /\ mutation' = NoMutation
    BY <1>19 DEF Mark, NotCarried, AnswerLost, Ended, Send, serverVars
  <2>2. faults' \in 0..MaxFaults
    BY <1>9, <1>19 DEF Mark, NotCarried, AnswerLost, ControlTypes
  <2> QED
    BY <2>1, <2>2 DEF ControlTypes
<1> QED
  BY <1>1, <1>2, <1>3, <1>4, <1>5, <1>6, <1>10, <1>11, <1>12, <1>13, <1>14, <1>15,
     <1>16, <1>17, <1>18, <1>19 DEF Next, Server, Refresh, Mutate

-----------------------------------------------------------------------------
(* What a step does to the catalog, the server and what was read of it.    *)

\* The server changes an asset, on behalf of this client or not.
Touched(a) ==
  /\ UNCHANGED <<now, tables, incoming, scan, upload>>
  /\ server'[a].upd = now /\ \A b \in Assets \ {a} : server'[b] = server[b]
  /\ listed' \subseteq listed \cup {a} /\ listed \subseteq listed' \cup {a}
  /\ scan.step = "read" /\ scan.full =>
       since' = [always |-> since.always \cap listed',
                 ever |-> since.ever \cup listed',
                 returned |-> \/ since.returned
                              \/ (listed' \ listed) \cap since.ever # {}]
  /\ shifted' = \/ shifted
                \/ ~ (listed \subseteq listed') /\ scan.step = "read" /\ ~scan.full
  /\ \/ mutation' = mutation
     \/ mutation' = [mutation EXCEPT !.step = "sent", !.start = now] /\ mutation.asset = a

\* Nothing of the catalog and the server changes, and nothing is asked of it.
Quiet ==
  /\ UNCHANGED <<now, listed, server, tables, shifted>>
  /\ \/ UNCHANGED <<scan, incoming, since>>
     \/ scan'.step # "read" /\ scan'.high = 0
  /\ upload' \in {upload, NoUpload}
  /\ mutation' = mutation \/ mutation'.step # "sent"

\* Every update touches its asset and no other.
LEMMA UpdateTouches ==
  ASSUME TablesHoldRows, NEW a \in Assets, NEW row \in Row, NEW list \in SUBSET Assets,
         Update(a, row, list), list \subseteq listed \cup {a}, listed \subseteq list \cup {a},
         UNCHANGED <<tables, incoming, scan, upload>>,
         \/ mutation' = mutation
         \/ mutation' = [mutation EXCEPT !.step = "sent", !.start = now] /\ mutation.asset = a
  PROVE  Touched(a)
<1>1. server \in [Assets -> Row] /\ [row EXCEPT !.upd = now].upd = now
  BY DEF TablesHoldRows, Row
<1>2. server'[a].upd = now /\ \A b \in Assets \ {a} : server'[b] = server[b]
  BY <1>1 DEF Update
<1> QED
  BY <1>2 DEF Update, Touched

\* A scan that is idle, waits or reconciles reads nothing.
LEMMA ScansAtRest ==
  /\ Idle.step # "read" /\ Idle.high = 0
  /\ \A full, fallback :
       /\ Requested(full, fallback).step # "read" /\ Requested(full, fallback).high = 0
       /\ [Idle EXCEPT !.step = "albums", !.full = full, !.fallback = fallback].step # "read"
       /\ [Idle EXCEPT !.step = "albums", !.full = full, !.fallback = fallback].high = 0
  BY DEF Idle, Requested

\* Every step is of one of these shapes.
LEMMA Shapes ==
  ASSUME RefreshInvariant, ControlTypes, [Next]_vars
  PROVE  \/ \E a \in Assets : Touched(a)
         \/ Tick
         \/ BeginFull \/ BeginDelta \/ ReadPage \/ NextSweep \/ FinishFull \/ FinishDelta
         \/ \E a \in Assets : ReadDetail(a)
         \/ AddUploaded \/ Mark
         \/ Quiet
<1> USE DEF RefreshInvariant
<1>1. ASSUME NEW a \in Assets, Appear(a) \/ Vanish(a) \/ Toggle(a) \/ Unlink(a)
      PROVE  Touched(a)
  <2>1. /\ server[a] \in Row /\ [server[a] EXCEPT !.trashed = ~@] \in Row
        /\ [server[a] EXCEPT !.motion = None] \in Row
    BY DEF Row, TablesHoldRows
  <2>2. /\ listed \cup {a} \in SUBSET Assets /\ listed \ {a} \in SUBSET Assets
        /\ listed \in SUBSET Assets
    BY DEF TablesHoldRows
  <2>3. \/ Update(a, server[a], listed \cup {a})
        \/ Update(a, server[a], listed \ {a})
        \/ Update(a, [server[a] EXCEPT !.trashed = ~@], listed)
        \/ Update(a, [server[a] EXCEPT !.motion = None], listed)
    BY <1>1 DEF Appear, Vanish, Toggle, Unlink, Change
  <2>4. UNCHANGED <<tables, incoming, scan, upload>> /\ mutation' = mutation
    BY <1>1 DEF Appear, Vanish, Toggle, Unlink, Unchanged, taskVars
  <2>5. PICK row \in Row, list \in SUBSET Assets :
          /\ Update(a, row, list)
          /\ list \subseteq listed \cup {a} /\ listed \subseteq list \cup {a}
    BY <2>1, <2>2, <2>3
  <2> QED
    BY <2>4, <2>5, UpdateTouches
<1>2. CASE Carry
  <2> DEFINE a == mutation.asset
             row == [server[a] EXCEPT !.trashed = mutation.kind = "trash"]
  <2>1. a \in Assets /\ row \in Row
    BY <1>2 DEF Row, Carry, TablesHoldRows
  <2>2. listed \in SUBSET Assets
    BY DEF TablesHoldRows
  <2>3. /\ Update(a, row, listed) /\ UNCHANGED <<tables, incoming, scan, upload>>
        /\ mutation' = [mutation EXCEPT !.step = "sent", !.start = now]
    BY <1>2 DEF Carry
  <2>4. Touched(a)
    BY <2>1, <2>2, <2>3, UpdateTouches
  <2> QED
    BY <2>1, <2>4
<1>3. ASSUME NEW kind, Fail(kind) PROVE Quiet
  <2>1. UNCHANGED <<now, listed, server, tables, shifted>>
    BY <1>3 DEF Fail, serverVars
  <2>2. /\ scan' = Idle \/ scan' = Requested(TRUE, TRUE)
        /\ \/ UNCHANGED <<upload, mutation>>
           \/ upload' = NoUpload /\ mutation' = NoMutation
    <3>1. CASE FailOnline(kind)
      BY <3>1 DEF FailOnline
    <3>2. CASE FailElsewhere(kind)
      BY <3>2 DEF FailElsewhere, Down
    <3> QED
      BY <1>3, <3>1, <3>2 DEF Fail
  <2>3. scan'.step # "read" /\ scan'.high = 0
    <3>1. Requested(TRUE, TRUE).step # "read" /\ Requested(TRUE, TRUE).high = 0
      BY ScansAtRest
    <3> QED
      BY <2>2, <3>1, ScansAtRest
  <2> QED
    BY <2>1, <2>2, <2>3 DEF Quiet, NoMutation
<1>4. ASSUME NEW kind, RequestFails(kind) PROVE Quiet
  BY <1>3, <1>4 DEF RequestFails
<1>5. ASSUME Refused \/ GiveUp PROVE Quiet
  BY <1>3, <1>5 DEF Refused, GiveUp
<1>6. ASSUME Reconcile PROVE Quiet
  BY <1>6, ScansAtRest DEF Reconcile, Quiet, serverVars
<1>7. ASSUME Crash PROVE Quiet
  BY <1>7, ScansAtRest DEF Crash, Down, Quiet, NoMutation, serverVars
<1>8. ASSUME Start \/ Take PROVE Quiet
  <2>1. /\ UNCHANGED <<now, listed, server, tables, shifted, upload, mutation>>
        /\ \E full : scan' = Requested(full, FALSE)
    BY <1>8 DEF Start, Take, Unasked, serverVars
  <2>2. PICK full : scan' = Requested(full, FALSE)
    BY <2>1
  <2>3. Requested(full, FALSE).step # "read" /\ Requested(full, FALSE).high = 0
    BY ScansAtRest
  <2> QED
    BY <2>1, <2>2, <2>3 DEF Quiet
<1>9. ASSUME AskDelta \/ AskFull \/ RetryOffline PROVE Quiet
  BY <1>9 DEF AskDelta, AskFull, RetryOffline, Unasked, Quiet, serverVars
<1>10. ASSUME NEW kind, NEW a, Ask(kind, a) PROVE Quiet
  BY <1>10 DEF Ask, Quiet
<1>11. ASSUME NotCarried \/ AnswerLost PROVE Quiet
  BY <1>11 DEF NotCarried, AnswerLost, Ended, Quiet, NoMutation, serverVars, tables
<1>12. ASSUME UNCHANGED vars PROVE Quiet
  BY <1>12 DEF vars, serverVars, taskVars, Quiet
<1> QED
  BY <1>1, <1>2, <1>4, <1>5, <1>6, <1>7, <1>8, <1>9, <1>10, <1>11, <1>12
     DEF Next, Server, Refresh, Mutate

\* The times are numbers, and none is ahead of the clock.
LEMMA Numbers ==
  ASSUME TablesHoldRows, ControlTypes, ClockFits
  PROVE  /\ now \in Nat /\ Overlap \in Nat /\ highWater \in Nat
         /\ \A x \in Assets : server[x].upd \in Nat /\ server[x].upd <= now
         /\ scan.start \in Nat /\ scan.high \in Nat /\ scan.lower \in Nat
         /\ scan.page \in Nat \ {0}
         /\ upload.start \in Nat /\ mutation.start \in Nat
<1>1. now \in Nat /\ \A x \in Assets : server[x].upd \in Nat
  BY Parameters DEF TablesHoldRows, Row
<1>2. /\ scan.start \in Nat /\ scan.high \in Nat /\ scan.lower \in Nat
      /\ scan.page \in Nat \ {0}
  BY DEF ControlTypes, ScanType
<1>3. upload.start \in Nat
  BY Parameters DEF ControlTypes, NoUpload, UploadType
<1>4. mutation.start \in Nat
  BY Parameters DEF ControlTypes, NoMutation, MutationType
<1> QED
  BY <1>1, <1>2, <1>3, <1>4, Parameters DEF ClockFits

\* The trash and restore are the steps that write the table of the rows.
LEMMA MarkIs ==
  ASSUME RefreshInvariant, Mark
  PROVE  /\ UNCHANGED <<now, listed, server, highWater, pages, incoming, scan, upload, since, shifted>>
         /\ mutation' = NoMutation
  BY DEF Mark, Ended, serverVars

\* No step runs ahead of the clock, nor outruns the overlap.
LEMMA ClockStep ==
  ASSUME RefreshInvariant, ControlTypes, ClockFits, [Next]_vars
  PROVE  ClockFits'
<1> USE DEF RefreshInvariant
<1>1. /\ now \in Nat /\ Overlap \in Nat /\ highWater \in Nat
      /\ \A x \in Assets : server[x].upd \in Nat /\ server[x].upd <= now
      /\ scan.start \in Nat /\ scan.high \in Nat
      /\ upload.start \in Nat /\ mutation.start \in Nat
      /\ highWater <= now /\ scan.high <= now
  BY Numbers DEF ClockFits
<1>2. ASSUME NEW a \in Assets, Touched(a) PROVE ClockFits'
  <2>1. \A x \in Assets : server'[x].upd <= now
    BY <1>1, <1>2 DEF Touched
  <2>2. mutation'.step = "sent" => Recent(mutation)'
    <3>1. CASE mutation' = mutation
      BY <1>2, <3>1 DEF Touched, ClockFits, Recent
    <3>2. CASE mutation' # mutation
      <4>1. mutation' = [mutation EXCEPT !.step = "sent", !.start = now]
        BY <1>2, <3>2 DEF Touched
      <4>2. mutation \in MutationType \/ mutation = NoMutation
        BY DEF ControlTypes
      <4>3. mutation'.start = now
        BY <4>1, <4>2 DEF MutationType, NoMutation
      <4> QED
        BY <1>1, <1>2, <4>3 DEF Touched, Recent
    <3> QED
      BY <3>1, <3>2
  <2> QED
    BY <1>2, <2>1, <2>2 DEF Touched, ClockFits, Recent, tables
<1>3. CASE Tick
  <2>1. /\ now' = now + 1 /\ UNCHANGED <<server, highWater, scan, upload, mutation>>
        /\ \A t \in Reads : now - t < Overlap
    BY <1>3 DEF Tick, Unchanged, tables, taskVars
  <2>2. ASSUME NEW r \in {scan, upload, mutation}, r.step \in {"read", "sent"}, Recent(r), r.start \in Nat
        PROVE  r.start <= now + 1 /\ now + 1 <= r.start + Overlap
    <3>1. r.start \in Reads
      BY <2>2 DEF Reads
    <3>2. now - r.start < Overlap
      BY <2>1, <3>1
    <3> QED
      BY <1>1, <2>2, <3>2 DEF Recent
  <2>3. \A x \in Assets : server[x].upd <= now + 1
    BY <1>1
  <2>4. /\ scan.step = "read" => Recent(scan)'
        /\ upload.step = "read" => Recent(upload)'
        /\ mutation.step = "sent" => Recent(mutation)'
    BY <1>1, <2>1, <2>2 DEF ClockFits, Recent
  <2> QED
    BY <1>1, <2>1, <2>3, <2>4 DEF ClockFits
<1>4. ASSUME UNCHANGED <<now, server, highWater, upload, mutation>>, scan'.high <= now,
             scan'.step = "read" => scan'.start \in {now, scan.start} /\
                (scan'.start = scan.start => scan.step = "read" \/ scan'.start = now)
      PROVE  ClockFits'
  BY <1>1, <1>4 DEF ClockFits, Recent
<1>5. scan \in ScanType
  BY DEF ControlTypes
<1>6. CASE BeginFull \/ BeginDelta
  <2>1. PICK full \in BOOLEAN : Begin(full)
    BY <1>6 DEF BeginFull, BeginDelta
  <2>2. scan'.high = (IF full THEN 0 ELSE highWater) /\ scan'.start = now
    BY <1>5, <2>1, ScanAfter
  <2>3. scan'.high <= now
    BY <1>1, <2>2
  <2> QED
    BY <1>4, <1>6, <2>2, <2>3 DEF BeginFull, BeginDelta, serverVars, tables
<1>7. CASE ReadPage
  <2>1. scan'.high = High /\ scan'.start = scan.start /\ scan.step = "read" /\ High <= now
    BY <1>5, <1>7, ScanAfter, PageIsTyped DEF ReadPage
  <2> QED
    BY <1>4, <1>7, <2>1 DEF ReadPage, serverVars, tables
<1>8. CASE NextSweep
  <2>1. scan'.high = 0 /\ scan'.start = now
    BY <1>5, <1>8, ScanAfter
  <2> QED
    BY <1>1, <1>4, <1>8, <2>1 DEF NextSweep, serverVars, tables
<1>9. ASSUME UNCHANGED <<now, server>>, highWater' \in {highWater, High},
             scan'.step # "read", scan'.high = 0, UNCHANGED <<upload, mutation>>
      PROVE  ClockFits'
  BY <1>1, <1>9, PageIsTyped DEF ClockFits, Recent
<1>10. CASE FinishFull
  <2>1. /\ UNCHANGED <<now, server, upload, mutation>> /\ highWater' = High
        /\ scan' = [Idle EXCEPT !.step = "albums", !.full = TRUE, !.fallback = scan.fallback]
    BY <1>10 DEF FinishFull, Publish, serverVars
  <2>2. scan'.step # "read" /\ scan'.high = 0
    BY <2>1, ScansAtRest
  <2> QED
    BY <1>9, <2>1, <2>2
<1>11. CASE FinishDelta
  <2>1. /\ UNCHANGED <<now, server, upload, mutation>> /\ scan' = Idle
        /\ highWater' = MaxOf({highWater, High})
    BY <1>11 DEF FinishDelta, Publish, serverVars
  <2>2. {highWater, High} \in SUBSET (0..now) /\ {highWater, High} # {}
    BY <1>1, PageIsTyped
  <2>3. highWater' \in {highWater, High}
    BY <1>1, <2>1, <2>2, LargestTime
  <2> QED
    BY <1>9, <2>1, <2>3, ScansAtRest
<1>12. ASSUME NEW a \in Assets, ReadDetail(a) PROVE ClockFits'
  <2>1. /\ UNCHANGED <<now, server, highWater, scan, mutation>> /\ upload'.start = now
    BY <1>12 DEF ReadDetail, serverVars, tables
  <2> QED
    BY <1>1, <2>1 DEF ClockFits, Recent
<1>13. CASE AddUploaded
  <2>1. UNCHANGED <<now, server, highWater, scan, mutation>> /\ upload'.step = "idle"
    BY <1>13 DEF AddUploaded, serverVars, NoUpload
  <2> QED
    BY <2>1 DEF ClockFits, Recent
<1>14. CASE Mark
  <2>1. UNCHANGED <<now, server, highWater, scan, upload>> /\ mutation'.step = "idle"
    BY <1>14, MarkIs DEF NoMutation
  <2> QED
    BY <2>1 DEF ClockFits, Recent
<1>15. CASE Quiet
  <2>1. UNCHANGED <<now, server, highWater>>
    BY <1>15 DEF Quiet, tables
  <2>2. scan' = scan \/ (scan'.step # "read" /\ scan'.high = 0)
    BY <1>15 DEF Quiet
  <2>3. upload' = upload \/ upload'.step = "idle"
    BY <1>15 DEF Quiet, NoUpload
  <2>4. mutation' = mutation \/ mutation'.step # "sent"
    BY <1>15 DEF Quiet
  <2> QED
    BY <1>1, <2>1, <2>2, <2>3, <2>4 DEF ClockFits, Recent
<1> QED
  BY <1>2, <1>3, <1>6, <1>7, <1>8, <1>10, <1>11, <1>12, <1>13, <1>14, <1>15, Shapes

-----------------------------------------------------------------------------
(* What was read of the server.                                            *)

\* The pages staged after the next one.
LEMMA StagedIs ==
  /\ DOMAIN Staged = Page \cup DOMAIN incoming
  /\ \A a \in Page : Staged[a] = server[a]
  /\ \A a \in DOMAIN incoming \ Page : Staged[a] = incoming[a]
  BY DEF Staged, Upsert

\* They are known since the refresh began.
LEMMA StagedIsKnown ==
  ASSUME AnswersFit, scan.step = "read"
  PROVE  \A a \in DOMAIN Staged : Known(a, Staged[a], scan.start)
  BY StagedIs DEF AnswersFit, Known

\* What is known of an asset stays so: if it changes, it has changed since.
LEMMA KnownStays ==
  ASSUME TablesHoldRows, ControlTypes, ClockFits, NEW a \in Assets, Touched(a),
         NEW x \in Assets, NEW row, NEW t \in Nat, t <= now, Known(x, row, t)
  PROVE  \/ row.trashed = server'[x].trashed /\ row.motion = server'[x].motion
         \/ server'[x].upd >= t
<1>1. CASE x = a
  BY <1>1, Numbers DEF Touched
<1>2. CASE x # a
  <2>1. server'[x] = server[x]
    BY <1>2 DEF Touched
  <2> QED
    BY <2>1 DEF Known
<1> QED
  BY <1>1, <1>2

\* What was read stays known.
LEMMA AnswersStep ==
  ASSUME RefreshInvariant, ControlTypes, ClockFits, AnswersFit, [Next]_vars
  PROVE  AnswersFit'
<1> USE DEF RefreshInvariant
<1>1. scan \in ScanType
  BY DEF ControlTypes
<1>2. /\ DOMAIN incoming \subseteq Assets
      /\ upload.step = "read" => upload.asset \in Assets
      /\ mutation.step = "sent" => mutation.asset \in Assets
  BY TableIs DEF TablesHoldRows
<1>3. ASSUME NEW a \in Assets, Touched(a) PROVE AnswersFit'
  <2>1. ASSUME scan'.step = "read", NEW x \in DOMAIN incoming'
        PROVE  Known(x, incoming[x], scan.start)'
    <3>1. UNCHANGED <<scan, incoming>>
      BY <1>3 DEF Touched
    <3>2. Known(x, incoming[x], scan.start) /\ scan.start \in Nat /\ scan.start <= now /\ x \in Assets
      BY <1>2, <2>1, <3>1, Numbers DEF AnswersFit, ClockFits, Recent
    <3>3. \/ incoming[x].trashed = server'[x].trashed /\ incoming[x].motion = server'[x].motion
          \/ server'[x].upd >= scan.start
      BY <1>3, <3>2, KnownStays
    <3> QED
      BY <3>1, <3>3 DEF Known
  <2>2. ASSUME upload'.step = "read"
        PROVE  Known(upload.asset, upload.detail, upload.start)'
    <3>1. upload' = upload
      BY <1>3 DEF Touched
    <3>2. /\ Known(upload.asset, upload.detail, upload.start)
          /\ upload.start \in Nat /\ upload.start <= now /\ upload.asset \in Assets
      BY <1>2, <2>2, <3>1, Numbers DEF AnswersFit, ClockFits, Recent
    <3>3. \/ /\ upload.detail.trashed = server'[upload.asset].trashed
             /\ upload.detail.motion = server'[upload.asset].motion
          \/ server'[upload.asset].upd >= upload.start
      BY <1>3, <3>2, KnownStays
    <3> QED
      BY <3>1, <3>3 DEF Known
  <2>3. ASSUME mutation'.step = "sent"
        PROVE  server'[mutation'.asset].upd >= mutation'.start
    <3>1. CASE mutation' = mutation
      <4>1. /\ server[mutation.asset].upd >= mutation.start /\ mutation.asset \in Assets
            /\ mutation.start <= now /\ mutation.start \in Nat /\ now \in Nat
        BY <1>2, <2>3, <3>1, Numbers DEF AnswersFit, ClockFits, Recent
      <4>2. server'[mutation.asset].upd \in {now, server[mutation.asset].upd}
        BY <1>3, <4>1 DEF Touched
      <4> QED
        BY <3>1, <4>1, <4>2
    <3>2. CASE mutation' # mutation
      <4>1. mutation' = [mutation EXCEPT !.step = "sent", !.start = now] /\ mutation.asset = a
        BY <1>3, <3>2 DEF Touched
      <4>2. mutation \in MutationType \/ mutation = NoMutation
        BY DEF ControlTypes
      <4>3. mutation'.start = now /\ mutation'.asset = a
        BY <4>1, <4>2 DEF MutationType, NoMutation
      <4> QED
        BY <1>3, <4>3, Numbers DEF Touched
    <3> QED
      BY <3>1, <3>2
  <2> QED
    BY <2>1, <2>2, <2>3 DEF AnswersFit
<1>4. ASSUME UNCHANGED <<server, upload, mutation>>,
             scan'.step = "read" => incoming' = NoRows \/ UNCHANGED <<scan, incoming>>
      PROVE  AnswersFit'
  BY <1>4 DEF AnswersFit, Known, NoRows
<1>5. CASE Tick
  BY <1>4, <1>5 DEF Tick, Unchanged, taskVars
<1>6. CASE BeginFull \/ BeginDelta \/ NextSweep
  BY <1>4, <1>6 DEF BeginFull, BeginDelta, Begin, NextSweep, serverVars
<1>7. CASE ReadPage
  <2>1. /\ UNCHANGED <<server, upload, mutation>> /\ incoming' = Staged
        /\ scan'.start = scan.start /\ scan.step = "read"
    BY <1>1, <1>7, ScanAfter DEF ReadPage, serverVars
  <2>2. \A a \in DOMAIN Staged : Known(a, Staged[a], scan.start)
    BY <2>1, StagedIsKnown
  <2> QED
    BY <2>1, <2>2 DEF AnswersFit, Known
<1>8. CASE FinishFull \/ FinishDelta
  <2>1. /\ UNCHANGED <<server, upload, mutation>>
        /\ \/ scan' = [Idle EXCEPT !.step = "albums", !.full = TRUE, !.fallback = scan.fallback]
           \/ scan' = Idle
    BY <1>8 DEF FinishFull, FinishDelta, serverVars
  <2>2. scan'.step # "read"
    BY <2>1, NotReading
  <2> QED
    BY <1>4, <2>1, <2>2
<1>9. ASSUME NEW a \in Assets, ReadDetail(a) PROVE AnswersFit'
  <2>1. /\ UNCHANGED <<server, scan, incoming, mutation>>
        /\ upload'.asset = a /\ upload'.detail = server[a]
    BY <1>9 DEF ReadDetail, serverVars
  <2> QED
    BY <2>1 DEF AnswersFit, Known
<1>10. CASE AddUploaded
  <2>1. UNCHANGED <<server, scan, incoming, mutation>> /\ upload'.step = "idle"
    BY <1>10 DEF AddUploaded, serverVars, NoUpload
  <2> QED
    BY <2>1 DEF AnswersFit, Known
<1>11. CASE Mark
  <2>1. UNCHANGED <<server, scan, incoming, upload>> /\ mutation'.step = "idle"
    BY <1>11, MarkIs DEF NoMutation
  <2> QED
    BY <2>1 DEF AnswersFit, Known
<1>12. CASE Quiet
  <2>1. UNCHANGED server /\ (UNCHANGED <<scan, incoming>> \/ scan'.step # "read")
    BY <1>12 DEF Quiet
  <2>2. upload' = upload \/ upload'.step = "idle"
    BY <1>12 DEF Quiet, NoUpload
  <2>3. mutation' = mutation \/ mutation'.step # "sent"
    BY <1>12 DEF Quiet
  <2>4. scan'.step = "read" =>
          \A x \in DOMAIN incoming' : Known(x, incoming[x], scan.start)'
    BY <2>1 DEF AnswersFit, Known
  <2>5. upload'.step = "read" => Known(upload.asset, upload.detail, upload.start)'
    BY <2>1, <2>2 DEF AnswersFit, Known
  <2>6. mutation'.step = "sent" => server'[mutation'.asset].upd >= mutation'.start
    BY <2>1, <2>3 DEF AnswersFit
  <2> QED
    BY <2>4, <2>5, <2>6 DEF AnswersFit
<1> QED
  BY <1>3, <1>5, <1>6, <1>7, <1>8, <1>9, <1>10, <1>11, <1>12, Shapes

-----------------------------------------------------------------------------
(* The sweeps of a complete refresh.                                       *)

\* A sweep that ends has seen an asset that is gone, or all that are listed.
LEMMA SweepEnds ==
  ASSUME TablesHoldRows, ControlTypes, ClockFits, SweepFits, LastPage, scan.full
  PROVE  (\E b \in Seen : b \notin listed) \/ Seen = listed
<1>1. Matching = listed /\ listed \in SUBSET Assets
  BY DEF Matching, LastPage, TablesHoldRows
<1>2. /\ scan.page \in Nat \ {0} /\ ~HasNext(listed, scan.page)
      /\ Page = PageOf(listed, scan.page) /\ Seen = scan.seen \cup Page
      /\ scan.seen \cap Page = {}
      /\ Cardinality(scan.seen) >= (scan.page - 1) * PageSize
  BY <1>1, Numbers DEF LastPage, More, Page, Seen, Duplicate, SweepFits
<1>3. CASE scan.seen \subseteq listed
  <2>1. scan.seen \cup PageOf(listed, scan.page) = listed
    BY <1>1, <1>2, <1>3, SweptIsListed
  <2> QED
    BY <1>2, <2>1
<1> QED
  BY <1>2, <1>3

\* The sweeps fit the history of the refresh.
LEMMA SweepStep ==
  ASSUME RefreshInvariant, ControlTypes, ClockFits, SweepFits, [Next]_vars
  PROVE  SweepFits'
<1> USE DEF RefreshInvariant
<1>1. scan \in ScanType
  BY DEF ControlTypes
<1>2. ASSUME NEW a \in Assets, Touched(a) PROVE SweepFits'
  <2> SUFFICES ASSUME scan.step = "read", scan.full, UNCHANGED <<scan, incoming>>
               PROVE  SweepFits'
    BY <1>2 DEF Touched, SweepFits
  <2>1. /\ since'.always = since.always \cap listed'
        /\ since'.ever = since.ever \cup listed'
        /\ ~since'.returned => ~since.returned /\ (listed' \ listed) \cap since.ever = {}
    BY <1>2 DEF Touched
  <2>2. /\ DOMAIN incoming = scan.seen
        /\ Cardinality(scan.seen) >= (scan.page - 1) * PageSize
        /\ since.always \subseteq listed /\ listed \cup scan.seen \subseteq since.ever
    BY DEF SweepFits
  <2>3. ASSUME scan.previous \subseteq Assets, ~since'.returned
        PROVE  scan.previous \subseteq since'.ever /\ Settled'
    <3>1. scan.previous \subseteq since.ever /\ Settled
      BY <2>1, <2>3 DEF SweepFits
    <3>2. ASSUME NEW b \in scan.previous, b \notin listed, b \notin scan.seen PROVE Settled'
      BY <2>1, <2>3, <3>1, <3>2 DEF Settled
    <3>3. ASSUME since.always \subseteq scan.previous,
                 \A x \in listed \ scan.previous : server[x].upd >= scan.start
          PROVE  Settled'
      <4>1. ASSUME NEW x \in listed' \ scan.previous PROVE server'[x].upd >= scan.start
        <5>1. CASE x = a
          BY <1>2, <5>1, Numbers DEF Touched, ClockFits, Recent
        <5>2. CASE x # a
          <6>1. x \in listed /\ x \in Assets /\ server'[x] = server[x]
            BY <1>2, <5>2 DEF Touched, TablesHoldRows
          <6> QED
            BY <3>3, <6>1
        <5> QED
          BY <5>1, <5>2
      <4> QED
        BY <2>1, <3>3, <4>1 DEF Settled
    <3> QED
      BY <2>1, <3>1, <3>2, <3>3 DEF Settled
  <2> QED
    BY <2>1, <2>2, <2>3 DEF SweepFits
<1>3. ASSUME scan'.step # "read" \/ ~scan'.full PROVE SweepFits'
  BY <1>3 DEF SweepFits
<1>4. ASSUME UNCHANGED <<listed, server, scan, incoming, since>> PROVE SweepFits'
  BY <1>4 DEF SweepFits, Settled
<1>5. CASE BeginFull
  <2>1. /\ scan'.page = 1 /\ scan'.seen = {} /\ scan'.previous = NoSweep
        /\ incoming' = NoRows /\ Fresh /\ UNCHANGED listed
    <3>1. Begin(TRUE)
      BY <1>5 DEF BeginFull
    <3> QED
      BY <1>1, <1>5, <3>1, ScanAfter DEF BeginFull, Begin, serverVars
  <2>2. Cardinality({}) = 0 /\ (1 - 1) * PageSize = 0
    BY FS_EmptySet, Parameters
  <2>3. ~(NoSweep \subseteq Assets)
    BY Parameters DEF NoSweep, None, Assets
  <2>4. DOMAIN NoRows = {}
    BY DEF NoRows
  <2>5. since'.always = listed /\ since'.ever = listed
    BY <2>1 DEF Fresh
  <2> QED
    BY <2>1, <2>2, <2>3, <2>4, <2>5 DEF SweepFits
<1>6. CASE BeginDelta
  <2>1. PICK full \in BOOLEAN : Begin(full)
    BY <1>6 DEF BeginDelta
  <2>2. scan'.full = scan.full /\ ~scan.full
    BY <1>1, <1>6, <2>1, ScanAfter DEF BeginDelta
  <2> QED
    BY <1>3, <2>1, <2>2
<1>7. CASE ReadPage /\ scan.full
  <2>1. /\ scan'.page = scan.page + 1 /\ scan'.seen = scan.seen \cup Page
        /\ scan'.previous = scan.previous /\ scan'.start = scan.start
        /\ incoming' = Staged /\ UNCHANGED <<listed, server, since>>
        /\ scan.step = "read"
    BY <1>1, <1>7, ScanAfter DEF ReadPage, Seen, serverVars
  <2>2. /\ DOMAIN incoming = scan.seen
        /\ Cardinality(scan.seen) >= (scan.page - 1) * PageSize
        /\ since.always \subseteq listed /\ listed \cup scan.seen \subseteq since.ever
    BY <1>7, <2>1 DEF SweepFits
  <2>3. Page \subseteq listed /\ listed \in SUBSET Assets
    BY PageIsTyped DEF TablesHoldRows
  <2>4. Cardinality(scan.seen \cup Page) >= (scan.page + 1 - 1) * PageSize
    <3>1. /\ Matching \in SUBSET Assets /\ scan.page \in Nat \ {0} /\ HasNext(Matching, scan.page)
          /\ Page = PageOf(Matching, scan.page) /\ scan.seen \cap Page = {}
      BY <1>7, PageIsTyped, Numbers DEF ReadPage, More, Page, Duplicate
    <3>2. Cardinality(Page) >= PageSize
      BY <3>1, PageIsFull
    <3>3. Page \in SUBSET Assets /\ scan.seen \in SUBSET Assets
      BY <1>1, <2>3 DEF ScanType
    <3>4. /\ IsFiniteSet(Page) /\ Cardinality(Page) \in Nat
          /\ IsFiniteSet(scan.seen) /\ Cardinality(scan.seen) \in Nat
      BY <3>3, AssetsAreFinite
    <3>5. Cardinality(scan.seen \cup Page) = Cardinality(scan.seen) + Cardinality(Page)
      <4>1. Cardinality(scan.seen \cup Page)
              = Cardinality(scan.seen) + Cardinality(Page) - Cardinality(scan.seen \cap Page)
        BY <3>4, FS_Union
      <4>2. Cardinality(scan.seen \cap Page) = 0
        BY <3>1, FS_EmptySet
      <4> QED
        BY <3>4, <4>1, <4>2
    <3>6. /\ (scan.page - 1) * PageSize \in Nat /\ PageSize \in Nat
          /\ (scan.page + 1 - 1) * PageSize = (scan.page - 1) * PageSize + PageSize
      <4>1. scan.page + 1 - 1 = scan.page
        BY <3>1
      <4> QED
        BY <3>1, <4>1, PageBounds, Parameters
    <3> QED
      BY <2>2, <3>2, <3>4, <3>5, <3>6
  <2>5. DOMAIN Staged = Page \cup DOMAIN incoming
    BY StagedIs
  <2>6. Settled => Settled'
    BY <2>1, <2>3 DEF Settled
  <2>7. scan.previous \subseteq Assets /\ ~since.returned =>
          scan.previous \subseteq since.ever /\ Settled
    BY <1>7, <2>1 DEF SweepFits
  <2>8. DOMAIN incoming' = scan'.seen
    BY <2>1, <2>2, <2>5
  <2>9. Cardinality(scan'.seen) >= (scan'.page - 1) * PageSize
    <3>1. (scan'.page - 1) * PageSize = (scan.page + 1 - 1) * PageSize
      <4>1. scan'.page = scan.page + 1 /\ scan.page \in Nat /\ PageSize \in Nat
        BY <2>1, Numbers, Parameters
      <4> QED
        BY <4>1
    <3>2. Cardinality(scan'.seen) = Cardinality(scan.seen \cup Page)
      BY <2>1
    <3> QED
      BY <2>4, <3>1, <3>2
  <2>10. since'.always \subseteq listed' /\ listed' \cup scan'.seen \subseteq since'.ever
    BY <2>1, <2>2, <2>3
  <2>11. ASSUME scan'.previous \subseteq Assets, ~since'.returned
         PROVE  scan'.previous \subseteq since'.ever /\ Settled'
    <3>1. scan.previous \subseteq since.ever /\ Settled
      BY <2>1, <2>7, <2>11
    <3> QED
      BY <2>1, <2>6, <3>1
  <2> QED
    BY <2>8, <2>9, <2>10, <2>11 DEF SweepFits
<1>8. CASE ReadPage /\ ~scan.full
  <2>1. scan'.full = scan.full
    BY <1>1, <1>8, ScanAfter
  <2> QED
    BY <1>3, <1>8, <2>1
<1>9. CASE NextSweep
  <2>1. /\ scan'.page = 1 /\ scan'.seen = {} /\ scan'.previous = Seen
        /\ incoming' = NoRows /\ UNCHANGED <<listed, server, since>>
        /\ LastPage /\ scan.full /\ scan.step = "read"
    BY <1>1, <1>9, ScanAfter DEF NextSweep, LastPage, serverVars
  <2>2. Cardinality({}) = 0 /\ (1 - 1) * PageSize = 0
    BY FS_EmptySet, Parameters
  <2>3. DOMAIN NoRows = {}
    BY DEF NoRows
  <2>4. since.always \subseteq listed /\ listed \cup scan.seen \subseteq since.ever
    BY <2>1 DEF SweepFits
  <2>5. Page \subseteq listed /\ Seen = scan.seen \cup Page
    BY <2>1, PageIsTyped DEF Seen
  <2>6. Settled'
    BY <2>1, <2>4, SweepEnds DEF Settled
  <2> QED
    BY <2>1, <2>2, <2>3, <2>4, <2>5, <2>6 DEF SweepFits
<1>10. CASE FinishFull \/ FinishDelta
  <2>1. \/ scan' = [Idle EXCEPT !.step = "albums", !.full = TRUE, !.fallback = scan.fallback]
        \/ scan' = Idle
    BY <1>10 DEF FinishFull, FinishDelta
  <2>2. scan'.step # "read"
    BY <2>1, NotReading
  <2> QED
    BY <1>3, <2>2
<1>11. CASE Tick
  BY <1>4, <1>11 DEF Tick, Unchanged, taskVars
<1>12. ASSUME NEW a \in Assets, ReadDetail(a) PROVE SweepFits'
  BY <1>4, <1>12 DEF ReadDetail, serverVars
<1>13. CASE AddUploaded
  BY <1>4, <1>13 DEF AddUploaded, serverVars
<1>14. CASE Mark
  BY <1>4, <1>14, MarkIs
<1>15. CASE Quiet
  BY <1>3, <1>4, <1>15 DEF Quiet
<1> QED
  BY <1>2, <1>5, <1>6, <1>7, <1>8, <1>9, <1>10, <1>11, <1>12, <1>13, <1>14, <1>15, Shapes

-----------------------------------------------------------------------------
(* The pages of a delta.                                                   *)

\* Where more is found there is more before an asset.
LEMMA MoreBefore ==
  ASSUME NEW found \in SUBSET Assets, NEW more \in SUBSET Assets, found \subseteq more, NEW x
  PROVE  /\ Before(found, x) \in Nat /\ Before(more, x) \in Nat
         /\ Before(found, x) <= Before(more, x)
<1> DEFINE f == {b \in found : b < x}
           m == {b \in more : b < x}
<1>1. f \in SUBSET m /\ f \in SUBSET Assets /\ m \in SUBSET Assets
  OBVIOUS
<1>2. Before(found, x) = Cardinality(f) /\ Before(more, x) = Cardinality(m)
  BY DEF Before
<1> HIDE DEF f, m
<1> QED
  BY <1>1, <1>2, AssetsAreFinite, FS_Subset

\* No page of a delta is skipped unless an asset goes.
LEMMA DeltaStep ==
  ASSUME RefreshInvariant, ControlTypes, ClockFits, DeltaFits, [Next]_vars
  PROVE  DeltaFits'
<1> USE DEF RefreshInvariant
<1>1. scan \in ScanType
  BY DEF ControlTypes
<1>2. ASSUME NEW a \in Assets, Touched(a) PROVE DeltaFits'
  <2> SUFFICES ASSUME scan.step = "read", ~scan.full, UNCHANGED <<scan, incoming, highWater>>
               PROVE  DeltaFits'
    BY <1>2 DEF Touched, DeltaFits, tables
  <2>1. ASSUME ~shifted', NEW x \in listed'
        PROVE  \/ server'[x].upd < scan.lower \/ server'[x].upd >= scan.start
               \/ x \in DOMAIN incoming
               \/ Before(Matching', x) >= (scan.page - 1) * PageSize
    <3>1. ~shifted /\ listed \subseteq listed'
      BY <1>2, <2>1 DEF Touched
    <3>2. CASE x = a
      BY <1>2, <3>2, Numbers DEF Touched, ClockFits, Recent
    <3>3. CASE x # a
      <4>1. x \in listed /\ x \in Assets /\ server'[x] = server[x]
        BY <1>2, <2>1, <3>3 DEF Touched, TablesHoldRows
      <4>2. Matching \subseteq Matching'
        <5>1. \A b \in Assets : server'[b].upd = server[b].upd \/ server'[b].upd = now
          BY <1>2 DEF Touched
        <5>2. \A b \in Assets : server[b].upd >= scan.lower => server'[b].upd >= scan.lower
          BY <5>1, Numbers
        <5>3. listed \subseteq Assets
          BY DEF TablesHoldRows
        <5> QED
          BY <3>1, <5>2, <5>3 DEF Matching
      <4>3. Matching \in SUBSET Assets /\ Matching' \in SUBSET Assets
        BY <1>2 DEF Matching, TablesHoldRows, Touched
      <4>4. /\ Before(Matching, x) <= Before(Matching', x)
            /\ Before(Matching, x) \in Nat /\ Before(Matching', x) \in Nat
        BY <4>2, <4>3, MoreBefore
      <4>5. (scan.page - 1) * PageSize \in Nat
        BY Numbers, PageBounds
      <4>6. \/ server[x].upd < scan.lower \/ server[x].upd >= scan.start
            \/ x \in DOMAIN incoming
            \/ Before(Matching, x) >= (scan.page - 1) * PageSize
        BY <3>1, <4>1 DEF DeltaFits
      <4> QED
        BY <4>1, <4>4, <4>5, <4>6
    <3> QED
      BY <3>2, <3>3
  <2>2. scan.lower = IF highWater > Overlap THEN highWater - Overlap ELSE 0
    BY DEF DeltaFits
  <2> QED
    BY <2>1, <2>2 DEF DeltaFits, Before
<1>3. ASSUME scan'.step # "read" \/ scan'.full PROVE DeltaFits'
  BY <1>3 DEF DeltaFits
<1>4. ASSUME UNCHANGED <<listed, server, scan, incoming, highWater, shifted>> PROVE DeltaFits'
  BY <1>4 DEF DeltaFits, Before, Matching
<1>5. CASE BeginFull
  <2>1. PICK full \in BOOLEAN : Begin(full)
    BY <1>5 DEF BeginFull
  <2>2. scan'.full
    BY <1>1, <1>5, <2>1, ScanAfter DEF BeginFull
  <2> QED
    BY <1>3, <2>2
<1>6. CASE BeginDelta
  <2>1. ASSUME NEW full, full = FALSE, Begin(full)
        PROVE  scan'.page = 1 /\ scan'.lower = IF highWater > Overlap
                                              THEN highWater - Overlap ELSE 0
    <3>1. /\ scan'.page = 1
          /\ scan'.lower = IF ~full /\ highWater > Overlap THEN highWater - Overlap ELSE 0
      BY <1>1, <2>1, ScanAfter
    <3> QED
      BY <2>1, <3>1
  <2>2. scan'.page = 1 /\ scan'.lower = IF highWater > Overlap THEN highWater - Overlap ELSE 0
    BY <1>6, <2>1 DEF BeginDelta
  <2>3. UNCHANGED <<listed, server, highWater>>
    BY <1>6 DEF BeginDelta, serverVars, tables
  <2>4. (scan'.page - 1) * PageSize = 0
    BY <2>2, Parameters
  <2>5. Matching' \in SUBSET Assets
    BY <2>3 DEF Matching, TablesHoldRows
  <2>6. \A x : Before(Matching', x) >= 0
    BY <2>5, MoreBefore
  <2>7. scan'.lower = IF highWater' > Overlap THEN highWater' - Overlap ELSE 0
    BY <2>2, <2>3
  <2>8. ASSUME NEW x PROVE Before(Matching, x)' >= (scan'.page - 1) * PageSize
    <3>1. Before(Matching, x)' = Before(Matching', x)
      BY DEF Before
    <3> QED
      BY <2>4, <2>6, <3>1
  <2> QED
    BY <2>7, <2>8 DEF DeltaFits
<1>7. CASE ReadPage /\ scan.full
  <2>1. ReadPage => scan'.full = scan.full
    BY <1>1, ScanAfter
  <2> QED
    BY <1>3, <1>7, <2>1
<1>8. CASE ReadPage /\ ~scan.full
  <2>1. /\ scan'.page = scan.page + 1 /\ scan'.lower = scan.lower
        /\ scan'.start = scan.start /\ scan'.full = scan.full /\ scan.step = "read"
        /\ incoming' = Staged /\ UNCHANGED <<listed, server, highWater, shifted>>
    BY <1>1, <1>8, ScanAfter DEF ReadPage, serverVars, tables
  <2>2. Matching' = Matching /\ Matching \in SUBSET Assets
    BY <2>1, PageIsTyped DEF Matching
  <2>3. scan.page \in Nat \ {0} /\ scan.page + 1 - 1 = scan.page
    BY Numbers
  <2>4. ASSUME ~shifted, NEW x \in listed
        PROVE  \/ server[x].upd < scan.lower \/ server[x].upd >= scan.start
               \/ x \in DOMAIN Staged
               \/ Before(Matching, x) >= (scan.page + 1 - 1) * PageSize
    <3>1. CASE x \in DOMAIN incoming
      BY <3>1, StagedIs
    <3>2. CASE server[x].upd >= scan.lower /\ Before(Matching, x) >= (scan.page - 1) * PageSize
      <4>1. x \in Matching
        BY <3>2 DEF Matching
      <4>2. /\ Before(Matching, x) \in Nat
            /\ x \in PageOf(Matching, scan.page) <=>
                 /\ (scan.page - 1) * PageSize <= Before(Matching, x)
                 /\ Before(Matching, x) < scan.page * PageSize
        BY <2>2, <2>3, <4>1, PageHolds
      <4>3. scan.page * PageSize \in Nat /\ (scan.page - 1) * PageSize \in Nat
        BY <2>3, PageBounds
      <4>4. x \in Page \/ Before(Matching, x) >= scan.page * PageSize
        BY <3>2, <4>2, <4>3 DEF Page
      <4> QED
        BY <2>3, <4>4, StagedIs
    <3>3. x \in Assets
      BY DEF TablesHoldRows
    <3>4. \/ server[x].upd < scan.lower \/ server[x].upd >= scan.start
          \/ x \in DOMAIN incoming
          \/ Before(Matching, x) >= (scan.page - 1) * PageSize
      BY <1>8, <2>1, <2>4 DEF DeltaFits
    <3> QED
      BY <3>1, <3>2, <3>3, <3>4, Numbers
  <2>5. scan.lower = IF highWater > Overlap THEN highWater - Overlap ELSE 0
    BY <1>8, <2>1 DEF DeltaFits
  <2>6. \A x : Before(Matching, x)' = Before(Matching, x)
    BY <2>2 DEF Before
  <2>7. (scan'.page - 1) * PageSize = (scan.page + 1 - 1) * PageSize
    <3>1. scan'.page = scan.page + 1 /\ scan.page \in Nat /\ PageSize \in Nat
      BY <2>1, <2>3, Parameters
    <3> QED
      BY <3>1
  <2>8. ASSUME ~shifted', NEW x \in listed'
        PROVE  (\/ server[x].upd < scan.lower \/ server[x].upd >= scan.start
                \/ x \in DOMAIN incoming
                \/ Before(Matching, x) >= (scan.page - 1) * PageSize)'
    <3>1. \/ server[x].upd < scan.lower \/ server[x].upd >= scan.start
          \/ x \in DOMAIN Staged
          \/ Before(Matching, x) >= (scan.page + 1 - 1) * PageSize
      BY <2>1, <2>4, <2>8
    <3> QED
      BY <2>1, <2>6, <2>7, <3>1
  <2>9. (scan.lower = IF highWater > Overlap THEN highWater - Overlap ELSE 0)'
    BY <2>1, <2>5
  <2> QED
    BY <2>8, <2>9 DEF DeltaFits
<1>9. CASE NextSweep
  <2>1. scan'.full = scan.full
    BY <1>1, <1>9, ScanAfter
  <2>2. scan.full
    BY <1>9 DEF NextSweep
  <2> QED
    BY <1>3, <2>1, <2>2
<1>10. CASE FinishFull \/ FinishDelta
  <2>1. \/ scan' = [Idle EXCEPT !.step = "albums", !.full = TRUE, !.fallback = scan.fallback]
        \/ scan' = Idle
    BY <1>10 DEF FinishFull, FinishDelta
  <2>2. scan'.step # "read"
    BY <2>1, NotReading
  <2> QED
    BY <1>3, <2>2
<1>11. CASE Tick
  BY <1>4, <1>11 DEF Tick, Unchanged, taskVars, tables
<1>12. ASSUME NEW a \in Assets, ReadDetail(a) PROVE DeltaFits'
  BY <1>4, <1>12 DEF ReadDetail, serverVars, tables
<1>13. CASE AddUploaded
  BY <1>4, <1>13 DEF AddUploaded, serverVars
<1>14. CASE Mark
  BY <1>4, <1>14, MarkIs
<1>15. CASE Quiet
  BY <1>3, <1>4, <1>15 DEF Quiet, tables
<1> QED
  BY <1>2, <1>5, <1>6, <1>7, <1>8, <1>9, <1>10, <1>11, <1>12, <1>13, <1>14, <1>15, Shapes

-----------------------------------------------------------------------------
(* The cursor.                                                             *)

\* The rows of an upsert.
LEMMA UpsertIs ==
  ASSUME NEW new, NEW table
  PROVE  /\ DOMAIN Upsert(new, table) = DOMAIN new \cup DOMAIN table
         /\ \A a \in DOMAIN new : Upsert(new, table)[a] = new[a]
         /\ \A a \in DOMAIN table \ DOMAIN new : Upsert(new, table)[a] = table[a]
  BY DEF Upsert

\* A complete refresh that ends has what is listed, or it has changed since.
LEMMA FullCovers ==
  ASSUME TablesHoldRows, ControlTypes, ClockFits, AnswersFit, SweepFits,
         LastPage, scan.full, Seen = scan.previous, ~since.returned
  PROVE  /\ DOMAIN Staged = Seen /\ Seen \subseteq since.ever /\ since.always \subseteq Seen
         /\ \A a \in listed : \/ a \in DOMAIN Staged /\ Known(a, Staged[a], scan.start)
                              \/ server[a].upd >= scan.start
<1>1. /\ scan.step = "read" /\ DOMAIN incoming = scan.seen
      /\ Page \subseteq listed /\ Seen = scan.seen \cup Page /\ Seen \subseteq Assets
      /\ listed \cup scan.seen \subseteq since.ever
  BY PageIsTyped DEF LastPage, SweepFits, Seen
<1>2. Settled
  BY <1>1 DEF SweepFits
<1>3. since.always \subseteq Seen /\ \A a \in listed \ Seen : server[a].upd >= scan.start
  BY <1>1, <1>2 DEF Settled
<1>4. DOMAIN Staged = Seen
  BY <1>1, StagedIs
<1>5. \A a \in DOMAIN Staged : Known(a, Staged[a], scan.start)
  BY <1>1, StagedIsKnown
<1> QED
  BY <1>1, <1>3, <1>4, <1>5

\* A delta that ends has what has changed between the cursor and its begin.
LEMMA DeltaCovers ==
  ASSUME TablesHoldRows, ControlTypes, ClockFits, AnswersFit, DeltaFits,
         LastPage, ~scan.full, ~shifted, NEW a \in listed
  PROVE  \/ a \in DOMAIN Staged /\ Known(a, Staged[a], scan.start)
         \/ server[a].upd >= scan.start
         \/ a \notin DOMAIN Staged /\ server[a].upd + Overlap < highWater
<1>1. scan.step = "read" /\ ~HasNext(Matching, scan.page)
  BY DEF LastPage, More
<1>2. \A x \in DOMAIN Staged : Known(x, Staged[x], scan.start)
  BY <1>1, StagedIsKnown
<1>3. a \in Assets
  BY DEF TablesHoldRows
<1>4. CASE server[a].upd >= scan.lower /\ Before(Matching, a) >= (scan.page - 1) * PageSize
  <2>1. a \in Matching /\ Matching \in SUBSET Assets /\ scan.page \in Nat \ {0}
    BY <1>4, PageIsTyped, Numbers DEF Matching
  <2>2. a \in Page
    BY <1>1, <1>4, <2>1, LastPageHasTheRest DEF Page
  <2> QED
    BY <1>2, <2>2, StagedIs
<1>5. CASE server[a].upd < scan.lower /\ a \notin DOMAIN Staged
  <2>1. scan.lower = IF highWater > Overlap THEN highWater - Overlap ELSE 0
    BY <1>1 DEF DeltaFits
  <2> QED
    BY <1>3, <1>5, <2>1, Numbers
<1>6. \/ server[a].upd < scan.lower \/ server[a].upd >= scan.start
      \/ a \in DOMAIN incoming
      \/ Before(Matching, a) >= (scan.page - 1) * PageSize
  BY <1>1 DEF DeltaFits
<1> QED
  BY <1>2, <1>3, <1>4, <1>5, <1>6, StagedIs, Numbers

\* No step lets the cursor pass what was missed.
LEMMA CursorStep ==
  ASSUME RefreshInvariant, ControlTypes, ClockFits, AnswersFit, SweepFits, DeltaFits,
         CursorCovers, [Next]_vars
  PROVE  CursorCovers'
<1> USE DEF RefreshInvariant
<1> DEFINE Covered(a) == Agrees(a) \/ server[a].upd + Overlap >= highWater
<1>1. /\ now \in Nat /\ Overlap \in Nat /\ highWater \in Nat /\ highWater <= now
      /\ \A x \in Assets : server[x].upd \in Nat
      /\ scan.start \in Nat /\ upload.start \in Nat /\ mutation.start \in Nat
  BY Numbers DEF ClockFits
<1>2. listed \subseteq Assets
  BY DEF TablesHoldRows
<1>3. ASSUME NEW x \in Assets, NEW t \in Nat, server[x].upd >= t, now <= t + Overlap
      PROVE  server[x].upd + Overlap >= now
  BY <1>1, <1>3
<1>4. ASSUME UNCHANGED <<listed, server, rows, pages, highWater, shifted>> PROVE CursorCovers'
  BY <1>4 DEF CursorCovers, Agrees, Rows
<1>5. ASSUME NEW a \in Assets, Touched(a) PROVE CursorCovers'
  <2> SUFFICES ASSUME pages' >= 1, ~shifted', NEW x \in listed' PROVE Covered(x)'
    BY DEF CursorCovers
  <2>1. UNCHANGED <<rows, pages, highWater>> /\ ~shifted
    BY <1>5 DEF Touched, tables
  <2>2. CASE x = a
    BY <1>1, <1>5, <2>1, <2>2 DEF Touched
  <2>3. CASE x # a
    <3>1. x \in listed /\ server'[x] = server[x]
      BY <1>2, <1>5, <2>3 DEF Touched
    <3>2. Covered(x)
      BY <2>1, <3>1 DEF CursorCovers
    <3> QED
      BY <2>1, <3>1, <3>2 DEF Agrees, Rows
  <2> QED
    BY <2>2, <2>3
<1>6. CASE FinishFull
  <2> SUFFICES ASSUME ~shifted', NEW x \in listed' PROVE Covered(x)'
    BY DEF CursorCovers
  <2>1. /\ UNCHANGED <<listed, server>> /\ rows' = Staged /\ highWater' = High
        /\ shifted' = since.returned /\ LastPage /\ scan.full /\ Seen = scan.previous
    BY <1>6 DEF FinishFull, Publish, serverVars
  <2>2. High <= now /\ High \in Nat /\ now <= scan.start + Overlap
    BY <2>1, PageIsTyped DEF LastPage, ClockFits, Recent
  <2>3. \/ x \in DOMAIN Staged /\ Known(x, Staged[x], scan.start)
        \/ server[x].upd >= scan.start
    BY <2>1, FullCovers
  <2>4. CASE server[x].upd >= scan.start
    BY <1>1, <1>2, <1>3, <2>1, <2>2, <2>4
  <2>5. CASE x \in DOMAIN Staged /\ server[x].upd < scan.start
    <3>1. Staged[x].trashed = server[x].trashed /\ Staged[x].motion = server[x].motion
      BY <1>1, <1>2, <2>1, <2>3, <2>5 DEF Known
    <3> QED
      BY <2>1, <2>5, <3>1 DEF Agrees, Rows
  <2> QED
    BY <1>1, <1>2, <2>1, <2>3, <2>4, <2>5
<1>7. CASE FinishDelta
  <2> SUFFICES ASSUME pages' >= 1, ~shifted', NEW x \in listed' PROVE Covered(x)'
    BY DEF CursorCovers
  <2>1. /\ UNCHANGED <<listed, server, pages, shifted>> /\ rows' = Upsert(Staged, rows)
        /\ highWater' = MaxOf({highWater, High}) /\ LastPage /\ ~scan.full
    BY <1>7 DEF FinishDelta, Publish, serverVars
  <2>2. highWater' <= now /\ highWater' \in Nat /\ now <= scan.start + Overlap
    <3>1. {highWater, High} \in SUBSET (0..now) /\ {highWater, High} # {}
      BY <1>1, PageIsTyped
    <3>2. highWater' \in 0..now
      BY <1>1, <2>1, <3>1, LargestTime
    <3> QED
      BY <1>1, <2>1, <3>2 DEF LastPage, ClockFits, Recent
  <2>3. \/ x \in DOMAIN Staged /\ Known(x, Staged[x], scan.start)
        \/ server[x].upd >= scan.start
        \/ x \notin DOMAIN Staged /\ server[x].upd + Overlap < highWater
    BY <2>1, DeltaCovers
  <2>4. CASE server[x].upd >= scan.start
    BY <1>1, <1>2, <1>3, <2>1, <2>2, <2>4
  <2>5. CASE x \in DOMAIN Staged /\ server[x].upd < scan.start /\ Known(x, Staged[x], scan.start)
    <3>1. Staged[x].trashed = server[x].trashed /\ Staged[x].motion = server[x].motion
      BY <1>1, <1>2, <2>1, <2>5 DEF Known
    <3>2. x \in DOMAIN rows' /\ rows'[x] = Staged[x]
      BY <2>1, <2>5, UpsertIs
    <3> QED
      BY <2>1, <3>1, <3>2 DEF Agrees, Rows
  <2>6. CASE x \notin DOMAIN Staged /\ server[x].upd + Overlap < highWater
    <3>1. x \in listed /\ Covered(x)
      BY <2>1 DEF CursorCovers
    <3>2. Agrees(x)
      BY <1>1, <1>2, <2>6, <3>1
    <3>3. x \in DOMAIN rows' /\ rows'[x] = rows[x]
      <4>1. x \in DOMAIN rows \ DOMAIN Staged
        BY <2>1, <2>6, <3>1, <3>2 DEF Agrees, Rows
      <4>2. /\ DOMAIN Upsert(Staged, rows) = DOMAIN Staged \cup DOMAIN rows
            /\ \A b \in DOMAIN rows \ DOMAIN Staged : Upsert(Staged, rows)[b] = rows[b]
        BY UpsertIs
      <4> QED
        BY <2>1, <4>1, <4>2
    <3> QED
      BY <2>1, <3>2, <3>3 DEF Agrees, Rows
  <2> QED
    BY <1>1, <1>2, <2>1, <2>3, <2>4, <2>5, <2>6
\* A row that is written of an asset a, known since t within the overlap.
<1>8. ASSUME NEW a \in Assets, NEW row, NEW t \in Nat, Known(a, row, t), now <= t + Overlap,
             rows' = Upsert([b \in {a} |-> row], rows),
             UNCHANGED <<listed, server, pages, highWater, shifted>>
      PROVE  CursorCovers'
  <2> SUFFICES ASSUME pages' >= 1, ~shifted', NEW x \in listed' PROVE Covered(x)'
    BY DEF CursorCovers
  <2> DEFINE new == [b \in {a} |-> row]
  <2>1. DOMAIN new = {a} /\ new[a] = row
    OBVIOUS
  <2>2. /\ DOMAIN rows' = {a} \cup DOMAIN rows /\ rows'[a] = row
        /\ \A b \in DOMAIN rows \ {a} : rows'[b] = rows[b]
    <3>1. rows' = Upsert(new, rows)
      BY <1>8
    <3> HIDE DEF new
    <3>2. /\ DOMAIN Upsert(new, rows) = DOMAIN new \cup DOMAIN rows
          /\ \A b \in DOMAIN new : Upsert(new, rows)[b] = new[b]
          /\ \A b \in DOMAIN rows \ DOMAIN new : Upsert(new, rows)[b] = rows[b]
      BY UpsertIs
    <3> QED
      BY <2>1, <3>1, <3>2
  <2>3. x \in listed /\ x \in Assets /\ Covered(x)
    BY <1>2, <1>8 DEF CursorCovers
  <2>4. CASE x # a
    BY <1>8, <2>2, <2>3, <2>4 DEF Agrees, Rows
  <2>5. CASE x = a /\ server[a].upd >= t
    BY <1>1, <1>3, <1>8, <2>5
  <2>6. CASE x = a /\ row.trashed = server[a].trashed /\ row.motion = server[a].motion
    BY <1>8, <2>2, <2>3, <2>6 DEF Agrees, Rows
  <2> QED
    BY <1>8, <2>4, <2>5, <2>6 DEF Known
<1>9. CASE AddUploaded
  <2>1. /\ upload.step = "read" /\ upload.asset \in Assets
        /\ UNCHANGED <<listed, server, pages, highWater, shifted>>
        /\ rows' = Upsert([b \in {upload.asset} |-> upload.detail], rows)
    BY <1>9 DEF AddUploaded, PutRow, TablesHoldRows, serverVars
  <2>2. Known(upload.asset, upload.detail, upload.start) /\ now <= upload.start + Overlap
    BY <2>1 DEF AnswersFit, ClockFits, Recent
  <2> QED
    BY <1>1, <1>8, <2>1, <2>2
<1>10. CASE Mark
  <2> DEFINE a == mutation.asset
             row == [rows[a] EXCEPT !.trashed = mutation.kind = "trash"]
  <2>1. /\ mutation.step = "sent" /\ a \in Assets
        /\ UNCHANGED <<listed, server, pages, highWater, shifted>>
        /\ rows' = Upsert([b \in {a} |-> row], rows)
    BY <1>10, MarkIs DEF Mark, PutRow, TablesHoldRows
  <2>2. server[a].upd >= mutation.start /\ now <= mutation.start + Overlap
    BY <2>1 DEF AnswersFit, ClockFits, Recent
  <2>3. Known(a, row, mutation.start)
    BY <2>2 DEF Known
  <2> HIDE DEF row
  <2> QED
    BY <1>1, <1>8, <2>1, <2>2, <2>3
<1>11. CASE Tick
  BY <1>4, <1>11 DEF Tick, Unchanged, tables
<1>12. CASE BeginFull \/ BeginDelta \/ ReadPage \/ NextSweep
  BY <1>4, <1>12 DEF BeginFull, BeginDelta, ReadPage, NextSweep, serverVars, tables
<1>13. ASSUME NEW a \in Assets, ReadDetail(a) PROVE CursorCovers'
  BY <1>4, <1>13 DEF ReadDetail, serverVars, tables
<1>14. CASE Quiet
  BY <1>4, <1>14 DEF Quiet, tables
<1> QED
  BY <1>5, <1>6, <1>7, <1>9, <1>10, <1>11, <1>12, <1>13, <1>14, Shapes

-----------------------------------------------------------------------------
(* The theorems.                                                           *)

\* The invariant holds at first, ...
LEMMA CursorInit ==
  ASSUME Init
  PROVE  CursorInvariant
<1>1. RefreshInvariant
  BY RefreshInit
<1>2. ControlTypes
  <2>1. 0 \in 0..MaxChanges /\ 0 \in 0..MaxFaults /\ 0 \in 0..N + 1
    BY Parameters
  <2> QED
    BY <2>1, ScansAreTyped DEF Init, ControlTypes
<1>3. ClockFits
  <2>1. highWater = 0 /\ now = 0 /\ \A a \in Assets : server[a].upd = 0
    BY DEF Init
  <2>2. /\ scan.high = 0 /\ scan.step # "read" /\ upload.step # "read"
        /\ mutation.step # "sent"
    BY DEF Init, Idle, NoUpload, NoMutation
  <2> QED
    BY <2>1, <2>2 DEF ClockFits
<1>4. scan.step = "idle" /\ upload.step = "idle" /\ mutation.step = "idle" /\ pages = 0
  BY DEF Init, Idle, NoUpload, NoMutation
<1>5. AnswersFit /\ SweepFits /\ DeltaFits /\ CursorCovers
  BY <1>4 DEF AnswersFit, SweepFits, DeltaFits, CursorCovers
<1>6. QueueFits
  <2>1. lockQueue = <<>> /\ requests = "empty"
    BY DEF Init
  <2>2. AtMostOnce(lockQueue) /\ \A t : ~InQueue(t)
    BY <2>1 DEF AtMostOnce, InQueue, Queued
  <2> QED
    BY <1>4, <2>1, <2>2 DEF QueueFits, Active
<1> QED
  BY <1>1, <1>2, <1>3, <1>5, <1>6 DEF CursorInvariant

\* ... and every step keeps it.
LEMMA CursorInvariantStep ==
  ASSUME CursorInvariant, [Next]_vars
  PROVE  CursorInvariant'
<1>1. RefreshInvariant'
  BY TablesStep, LockStep, LinksStep DEF CursorInvariant, RefreshInvariant
<1>2. ControlTypes' /\ ClockFits' /\ AnswersFit'
  BY ControlStep, ClockStep, AnswersStep DEF CursorInvariant
<1>3. SweepFits' /\ DeltaFits' /\ QueueFits'
  BY SweepStep, DeltaStep, QueueStep DEF CursorInvariant
<1>4. CursorCovers'
  BY CursorStep DEF CursorInvariant
<1> QED
  BY <1>1, <1>2, <1>3, <1>4 DEF CursorInvariant

(* What a refresh has read fits what the server has, whatever the server, the  *)
(* uploads, the trashes and restores, the failures and restarts do meanwhile   *)
(* (refresh_catalog, refresh_catalog_incremental, the refresh task).           *)
THEOREM CursorInvariantHolds == Spec => []CursorInvariant
<1>1. Init => CursorInvariant
  BY CursorInit
<1>2. CursorInvariant /\ [Next]_vars => CursorInvariant'
  BY CursorInvariantStep
<1> QED
  BY <1>1, <1>2, PTL DEF Spec

(* The tables hold rows of assets, the page budget of a delta is within the    *)
(* pages there can be, and no task waits for the catalog's lock twice          *)
(* (catalog_lock, finish_refresh).                                             *)
THEOREM CatalogIsTyped == Spec => []TypeOK
<1>1. CursorInvariant => TypeOK
  <2> SUFFICES ASSUME CursorInvariant PROVE TypeOK
    OBVIOUS
  <2> USE DEF CursorInvariant, RefreshInvariant
  <2>1. link \subseteq Rows
    BY DEF LinksMatchRows, Standalone, Rows
  <2>2. highWater \in 0..MaxTime
    BY Parameters DEF ClockFits, TablesHoldRows
  <2>3. ASSUME NEW t \in Tasks
        PROVE  Cardinality({i \in DOMAIN lockQueue : lockQueue[i] = t}) <= 1
    <3> DEFINE places == {i \in DOMAIN lockQueue : lockQueue[i] = t}
    <3>1. \A i, k \in places : i = k
      BY DEF QueueFits, AtMostOnce
    <3>2. CASE places = {}
      BY <3>2, FS_EmptySet
    <3>3. ASSUME NEW i \in places PROVE Cardinality(places) = 1
      <4>1. places = {i}
        BY <3>1
      <4> QED
        BY <4>1, FS_Singleton
    <3> QED
      BY <3>2, <3>3
  <2>4. scan.step \in {"idle", "wait", "read", "albums"}
    BY DEF ControlTypes, ScanType
  <2> QED
    BY <2>1, <2>2, <2>3, <2>4 DEF TypeOK, TablesHoldRows, ControlTypes, UploadType, MutationType
<1> QED
  BY <1>1, CursorInvariantHolds, PTL

(* The cursor never runs ahead of what the catalog has missed: a listed asset  *)
(* is right in it, or has changed within the overlap of the cursor, so that    *)
(* the next delta asks for it (refresh_catalog_incremental,                    *)
(* finish_incremental, add_uploaded, mark_trashed).                            *)
THEOREM CursorAlwaysCovers == Spec => []CursorCovers
<1>1. CursorInvariant => CursorCovers
  BY DEF CursorInvariant
<1> QED
  BY <1>1, CursorInvariantHolds, PTL

(* A complete refresh drops no asset that was listed throughout, and has none  *)
(* that never was, for any number of sweeps and pages (refresh_catalog,        *)
(* finish_refresh).                                                            *)
THEOREM AbsenceIsAlwaysReal == Spec => AbsenceIsReal
<1> DEFINE Real == FinishFull => \/ since.returned
                               \/ /\ since.always \subseteq DOMAIN rows'
                                  /\ DOMAIN rows' \subseteq since.ever
<1>1. CursorInvariant => [Real]_vars
  <2> SUFFICES ASSUME CursorInvariant, FinishFull, ~since.returned
               PROVE  /\ since.always \subseteq DOMAIN rows'
                      /\ DOMAIN rows' \subseteq since.ever
    OBVIOUS
  <2>1. LastPage /\ scan.full /\ Seen = scan.previous /\ rows' = Staged
    BY DEF FinishFull, Publish
  <2> QED
    BY <2>1, FullCovers DEF CursorInvariant, RefreshInvariant
<1> QED
  BY <1>1, CursorInvariantHolds, PTL DEF AbsenceIsReal
=============================================================================
