------------------------- MODULE RequestStoreProofs -------------------------
(***************************************************************************)
(* Theorems about RequestStore, for any number of requests, threads, rows  *)
(* and restarts.                                                           *)
(***************************************************************************)
EXTENDS RequestStore, TLAPS

Rows == [id : Nat, owner : Requests]
Bodies == [id : Nat, kind : Kinds, owner : Owners]
Pages == [row : Rows, owners : SUBSET Owners]
Scans == [ver : Nat, rows : SUBSET Rows]
Places == {"serving", "bodies", "capture", "done", "idle", "free", "freeDropLog", "freeDiag",
           "freeMinKeep", "freeDropDiag", "dropLog", "clear", "prune", "pruned", "row", "read",
           "stats", "statsCache", "logged", "freed", "cleared", "committed"}

\* The places that only console calls, and only records, come to.
AdminPlaces == {"prune", "pruned", "row", "read", "stats", "statsCache"}
RecordPlaces == {"logged", "bodies", "capture"}
CountPlaces == {"logged", "freed", "cleared", "committed"}

-----------------------------------------------------------------------------
(* Types *)

TablesType ==
  /\ requests \subseteq Rows /\ nextId \in Nat \ {0}
  /\ blobs \subseteq Bodies /\ captures \subseteq Rows
  /\ legacy \subseteq LegacyIds
SharedType ==
  /\ logOpen \in BOOLEAN /\ reader \in {"untried", "tried", "open"}
  /\ llock \in Threads \cup {Nobody} /\ dlock \in Threads \cup {Nobody}
  /\ version \in Nat /\ cache \in Scans \cup {None}
LocalType ==
  /\ rid \in [Requests -> Nat \cup {None}]
  /\ todo \in [Threads -> SUBSET {"diag", "log"}]
  /\ query \in [Threads -> Queries]
  /\ sel \in [Admins -> SUBSET Rows]
BoundsType == calls \in [Admins -> Nat] /\ restarts \in Nat

\* What a thread holds at each place.
PlaceType ==
  /\ pc \in [Threads -> Places]
  /\ page \in [Admins -> Pages \cup {None}] /\ scan \in [Admins -> Scans \cup {None}]
  /\ \A t \in Threads :
       /\ pc[t] \in RecordPlaces => t \in Requests /\ rid[t] # None
       /\ pc[t] \in AdminPlaces => t \in Admins
       /\ pc[t] = "read" => page[t] \in Pages
       /\ pc[t] \in {"stats", "statsCache"} => scan[t] \in Scans

Typed == TablesType /\ SharedType /\ LocalType /\ BoundsType /\ PlaceType

LEMMA InitTyped == Init => Typed
  BY StoreAssumption
  DEF Init, Typed, TablesType, SharedType, LocalType, BoundsType, PlaceType, Places, Threads,
      Queries, RecordPlaces, AdminPlaces

\* The groups of actions, to be cited by the proofs below.
LEMMA Steps ==
  ASSUME NEW t \in Threads, Step(t)
  PROVE  \/ LogRow(t) \/ CountVersion(t) \/ LogRowFails(t) \/ LogBodies(t) \/ LogBodiesFails(t)
         \/ SaveCapture(t) \/ SaveCaptureFails(t)
         \/ CallFree(t) \/ FreeLog(t) \/ FreeLogFails(t) \/ DropLog(t) \/ FreeDiagLock(t)
         \/ FreeDiag(t) \/ FreeDiagFails(t) \/ FreeDropDiag(t)
         \/ ClearLog(t) \/ ClearBodies(t) \/ PruneSelect(t) \/ PruneBodies(t) \/ PruneCommit(t)
         \/ CallRead(t) \/ ReadRow(t) \/ ReadBodies(t) \/ StatsBegin(t) \/ StatsScan(t)
         \/ StatsCache(t)
         \/ ReopenLog(t) \/ PickReader(t) \/ OpenReader(t)
  BY DEF Step, Record, FreeSpace, QueryLog, Prune, Read

\* A call that has committed holds the log lock until the version is counted.
LEMMA CommitPlaces == DOMAIN AfterCommit = CountPlaces
  BY DEF AfterCommit, CountPlaces

LEMMA Counted ==
  ASSUME NEW t, CountVersion(t)
  PROVE  \/ pc[t] = "logged" /\ Goto(t, "bodies")
         \/ pc[t] = "freed" /\ Goto(t, "freeDiag")
         \/ pc[t] = "cleared" /\ Goto(t, "clear")
         \/ pc[t] = "committed" /\ Goto(t, "idle")
  BY DEF CountVersion, AfterCommit

LEMMA NewestSubset == ASSUME NEW rows, NEW n PROVE Newest(rows, n) \subseteq rows
  BY DEF Newest

LEMMA TablesKept ==
  ASSUME Typed, NEW t \in Threads, Step(t)
  PROVE  TablesType'
  <1> USE DEF TablesType, tables
  <1>0. TablesType /\ LocalType /\ PlaceType
    BY DEF Typed
  <1>1. CASE LogRow(t)
    <2>1. [id |-> nextId, owner |-> t] \in Rows /\ nextId + 1 \in Nat \ {0}
      BY <1>0, <1>1 DEF LogRow, Rows
    <2>2. requests' \subseteq Rows
      BY <1>0, <1>1, <2>1, NewestSubset DEF LogRow, NewId
    <2> QED
      BY <1>0, <1>1, <2>1, <2>2 DEF LogRow
  <1>2. CASE LogBodies(t)
    <2>1. t \in Requests /\ rid[t] \in Nat /\ t \in Owners
      BY <1>0, <1>2 DEF LogBodies, PlaceType, LocalType, Owners, RecordPlaces
    <2>2. ASSUME NEW kinds \in SUBSET Kinds PROVE Put(blobs, rid[t], kinds, t) \subseteq Bodies
      BY <1>0, <2>1 DEF Put, Bodies
    <2> QED
      BY <1>0, <1>2, <2>2 DEF LogBodies
  <1>3. CASE SaveCapture(t)
    <2>1. t \in Requests /\ rid[t] \in Nat
      BY <1>0, <1>3 DEF SaveCapture, PlaceType, LocalType, RecordPlaces
    <2>2. [id |-> rid[t], owner |-> t] \in Rows
      BY <2>1 DEF Rows
    <2> QED
      BY <1>0, <1>3, <2>2 DEF SaveCapture, Trims
  <1>4. CASE \/ CountVersion(t) \/ LogRowFails(t) \/ LogBodiesFails(t) \/ SaveCaptureFails(t)
             \/ CallFree(t)
    BY <1>0, <1>4 DEF CountVersion, LogRowFails, LogBodiesFails, SaveCaptureFails, CallFree
  <1>5. CASE FreeLog(t) \/ FreeLogFails(t) \/ DropLog(t) \/ FreeDiagLock(t)
    BY <1>0, <1>5, NewestSubset DEF FreeLog, FreeLogFails, DropLog, FreeDiagLock
  <1>6. CASE FreeDiag(t) \/ FreeDiagFails(t) \/ FreeDropDiag(t)
    BY <1>0, <1>6 DEF FreeDiag, FreeDiagFails, FreeDropDiag, Trims
  <1>7. CASE ClearLog(t) \/ ClearBodies(t) \/ PruneSelect(t) \/ PruneBodies(t) \/ PruneCommit(t)
    BY <1>0, <1>7 DEF ClearLog, ClearBodies, PruneSelect, PruneBodies, PruneCommit
  <1>8. CASE \/ CallRead(t) \/ ReadRow(t) \/ ReadBodies(t) \/ StatsBegin(t) \/ StatsScan(t)
             \/ StatsCache(t)
    BY <1>0, <1>8 DEF CallRead, ReadRow, ReadBodies, StatsBegin, StatsScan, StatsCache
  <1>9. CASE ReopenLog(t) \/ PickReader(t) \/ OpenReader(t)
    BY <1>0, <1>9 DEF ReopenLog, PickReader, OpenReader
  <1> QED
    BY <1>1, <1>2, <1>3, <1>4, <1>5, <1>6, <1>7, <1>8, <1>9, Steps

LEMMA SharedKept ==
  ASSUME Typed, NEW t \in Threads, Step(t)
  PROVE  SharedType'
  <1> USE DEF SharedType, locks
  <1>0. SharedType /\ LocalType /\ PlaceType
    BY DEF Typed
  <1>1. version' \in Nat
    <2>1. version' \in {version, version + 1}
      BY Steps DEF LogRow, LogRowFails, CountVersion, LogBodies, LogBodiesFails, SaveCapture,
         SaveCaptureFails, CallFree, FreeLog, FreeLogFails, DropLog, FreeDiagLock, FreeDiag,
         FreeDiagFails, FreeDropDiag, ReopenLog, PickReader, OpenReader, ClearLog, ClearBodies,
         PruneSelect, PruneBodies, PruneCommit, CallRead, ReadRow, ReadBodies, StatsBegin,
         StatsScan, StatsCache
    <2> QED
      BY <1>0, <2>1
  <1>2. llock' \in Threads \cup {Nobody} /\ dlock' \in Threads \cup {Nobody}
    <2>1. llock' \in {llock, t, Nobody} /\ dlock' \in {dlock, t, Nobody}
      BY Steps DEF LogRow, LogRowFails, CountVersion, LogBodies, LogBodiesFails, SaveCapture,
         SaveCaptureFails, CallFree, FreeLog, FreeLogFails, DropLog, FreeDiagLock, FreeDiag,
         FreeDiagFails, FreeDropDiag, ReopenLog, PickReader, OpenReader, ClearLog, ClearBodies,
         PruneSelect, PruneBodies, PruneCommit, CallRead, ReadRow, ReadBodies, StatsBegin,
         StatsScan, StatsCache
    <2> QED
      BY <1>0, <2>1
  <1>3. cache' \in Scans \cup {None}
    <2>1. CASE StatsCache(t)
      BY <1>0, <2>1 DEF StatsCache, PlaceType
    <2>2. CASE ~StatsCache(t)
      <3>1. cache' = cache
        BY <2>2, Steps DEF LogRow, LogRowFails, CountVersion, LogBodies, LogBodiesFails,
           SaveCapture, SaveCaptureFails, CallFree, FreeLog, FreeLogFails, DropLog,
           FreeDiagLock, FreeDiag, FreeDiagFails, FreeDropDiag, ReopenLog, PickReader,
           OpenReader, ClearLog, ClearBodies, PruneSelect, PruneBodies, PruneCommit, CallRead,
           ReadRow, ReadBodies, StatsBegin, StatsScan
      <3> QED
        BY <1>0, <3>1
    <2> QED
      BY <2>1, <2>2
  <1>4. logOpen' \in BOOLEAN
    <2>1. UNCHANGED logOpen \/ logOpen' = TRUE \/ logOpen' = FALSE
      BY Steps DEF OpenLog, log, LogRow, LogRowFails, CountVersion, LogBodies, LogBodiesFails,
         SaveCapture, SaveCaptureFails, CallFree, FreeLog, FreeLogFails, DropLog, FreeDiagLock,
         FreeDiag, FreeDiagFails, FreeDropDiag, ReopenLog, PickReader, OpenReader, ClearLog,
         ClearBodies, PruneSelect, PruneBodies, PruneCommit, CallRead, ReadRow, ReadBodies,
         StatsBegin, StatsScan, StatsCache
    <2> QED
      BY <1>0, <2>1
  <1>5. reader' \in {"untried", "tried", "open"}
    <2>1. reader' \in {reader, "untried", "tried", "open"}
      BY Steps DEF OpenLog, log, RunsOn, AskLog, LogRow, LogRowFails, CountVersion, LogBodies,
         LogBodiesFails, SaveCapture, SaveCaptureFails, CallFree, FreeLog, FreeLogFails, DropLog,
         FreeDiagLock, FreeDiag, FreeDiagFails, FreeDropDiag, ReopenLog, PickReader, OpenReader,
         ClearLog, ClearBodies, PruneSelect, PruneBodies, PruneCommit, CallRead, ReadRow,
         ReadBodies, StatsBegin, StatsScan, StatsCache
    <2> QED
      BY <1>0, <2>1
  <1> QED
    BY <1>1, <1>2, <1>3, <1>4, <1>5

LEMMA LocalKept ==
  ASSUME Typed, NEW t \in Threads, Step(t)
  PROVE  LocalType' /\ BoundsType'
  <1> USE DEF LocalType, BoundsType, local, bounds
  <1>0. LocalType /\ BoundsType /\ TablesType /\ SharedType
    BY DEF Typed
  <1>a. \A q \in Queries : [query EXCEPT ![t] = q] \in [Threads -> Queries]
    BY <1>0
  <1>b. {"none", "reopened", "open", "writer"} \subseteq Queries
    BY DEF Queries
  <1>c. Source \in Queries /\ (IF logOpen THEN Source ELSE "reopen") \in Queries
    BY <1>0 DEF Source, Queries, SharedType
  <1>1. CASE \/ LogRow(t) \/ CountVersion(t) \/ LogRowFails(t) \/ LogBodies(t)
             \/ LogBodiesFails(t)
    BY <1>0, <1>1 DEF LogRow, CountVersion, LogRowFails, LogBodies, LogBodiesFails, NewId,
       TablesType
  <1>2. CASE SaveCapture(t) \/ SaveCaptureFails(t)
    BY <1>0, <1>2 DEF SaveCapture, SaveCaptureFails
  <1>3. CASE CallFree(t)
    BY <1>0, <1>3 DEF CallFree, Begin
  <1>4. CASE FreeLog(t) \/ FreeLogFails(t) \/ DropLog(t)
    BY <1>0, <1>4 DEF FreeLog, FreeLogFails, DropLog
  <1>5. CASE FreeDiagLock(t) \/ FreeDiag(t) \/ FreeDiagFails(t) \/ FreeDropDiag(t)
    <2>1. query' = query \/ \E q \in Queries : query' = [query EXCEPT ![t] = q]
      BY <1>5, <1>b, <1>c DEF FreeDiagLock, FreeDiag, FreeDiagFails, FreeDropDiag, AskLog, RunsOn,
         Answered
    <2> QED
      BY <1>0, <1>5, <1>a, <2>1 DEF FreeDiagLock, FreeDiag, FreeDiagFails, FreeDropDiag
  <1>6. CASE ClearLog(t) \/ ClearBodies(t)
    BY <1>0, <1>6 DEF ClearLog, ClearBodies, Begin
  <1>7. CASE PruneSelect(t) \/ PruneBodies(t) \/ PruneCommit(t)
    BY <1>0, <1>7 DEF PruneSelect, PruneBodies, PruneCommit, Begin, TablesType
  <1>8. CASE \/ CallRead(t) \/ ReadRow(t) \/ ReadBodies(t) \/ StatsBegin(t) \/ StatsScan(t)
             \/ StatsCache(t)
    <2>1. query' = query \/ \E q \in Queries : query' = [query EXCEPT ![t] = q]
      BY <1>8, <1>b, <1>c DEF CallRead, ReadRow, ReadBodies, StatsBegin, StatsScan, StatsCache,
         AskLog, RunsOn, Answered
    <2> QED
      BY <1>0, <1>8, <1>a, <2>1 DEF CallRead, ReadRow, ReadBodies, StatsBegin, StatsScan,
         StatsCache, Begin
  <1>9. CASE ReopenLog(t) \/ PickReader(t) \/ OpenReader(t)
    <2>1. \E q \in Queries : query' = [query EXCEPT ![t] = q]
      BY <1>9, <1>b, <1>c DEF ReopenLog, PickReader, OpenReader, RunsOn
    <2> QED
      BY <1>0, <1>9, <1>a, <2>1 DEF ReopenLog, PickReader, OpenReader
  <1> QED
    BY <1>1, <1>2, <1>3, <1>4, <1>5, <1>6, <1>7, <1>8, <1>9, Steps

\* A thread moves on, and what the others hold stays.
LEMMA PlaceMove ==
  ASSUME PlaceType, NEW t \in Threads, NEW l \in Places, Goto(t, l),
         \A u \in Requests \ {t} : rid'[u] = rid[u],
         \A u \in Admins \ {t} : page'[u] = page[u] /\ scan'[u] = scan[u],
         page' \in [Admins -> Pages \cup {None}], scan' \in [Admins -> Scans \cup {None}],
         l \in RecordPlaces => t \in Requests /\ rid'[t] # None,
         l \in AdminPlaces => t \in Admins,
         l = "read" => page'[t] \in Pages,
         l \in {"stats", "statsCache"} => scan'[t] \in Scans
  PROVE  PlaceType'
  <1>1. pc \in [Threads -> Places] /\ pc' = [pc EXCEPT ![t] = l]
    BY DEF PlaceType, Goto
  <1>2. pc' \in [Threads -> Places] /\ pc'[t] = l
    BY <1>1
  <1>3. ASSUME NEW u \in Threads
        PROVE  /\ pc'[u] \in RecordPlaces => u \in Requests /\ rid'[u] # None
               /\ pc'[u] \in AdminPlaces => u \in Admins
               /\ pc'[u] = "read" => page'[u] \in Pages
               /\ pc'[u] \in {"stats", "statsCache"} => scan'[u] \in Scans
    <2>1. CASE u = t
      BY <1>2, <2>1
    <2>2. CASE u # t
      <3>1. pc'[u] = pc[u]
        BY <1>1, <2>2
      <3>2. /\ pc[u] \in RecordPlaces => u \in Requests /\ rid[u] # None
            /\ pc[u] \in AdminPlaces => u \in Admins
            /\ pc[u] = "read" => page[u] \in Pages
            /\ pc[u] \in {"stats", "statsCache"} => scan[u] \in Scans
        BY DEF PlaceType
      <3> QED
        BY <2>2, <3>1, <3>2 DEF RecordPlaces, AdminPlaces
    <2> QED
      BY <2>1, <2>2
  <1> QED
    BY <1>2, <1>3 DEF PlaceType

LEMMA PlaceKept ==
  ASSUME Typed, NEW t \in Threads, Step(t)
  PROVE  PlaceType'
  <1> USE DEF RecordPlaces, AdminPlaces
  <1>0. /\ PlaceType /\ TablesType /\ SharedType /\ LocalType
        /\ page \in [Admins -> Pages \cup {None}] /\ scan \in [Admins -> Scans \cup {None}]
    BY DEF Typed, PlaceType
  <1>1. CASE LogRow(t)
    <2>1. rid'[t] # None /\ \A u \in Requests \ {t} : rid'[u] = rid[u]
      BY <1>0, <1>1, StoreAssumption DEF LogRow, NewId, LocalType, TablesType
    <2>2. Goto(t, "logged") /\ t \in Requests /\ UNCHANGED <<page, scan>>
      BY <1>1 DEF LogRow
    <2> QED
      BY <1>0, <2>1, <2>2, PlaceMove DEF Places
  <1>2. CASE LogBodies(t)
    BY <1>0, <1>2, PlaceMove DEF LogBodies, Places, local, PlaceType
  <1>12. CASE CountVersion(t)
    <2>1. UNCHANGED <<rid, page, scan>>
      BY <1>12 DEF CountVersion, local
    <2>2. \/ Goto(t, "freeDiag") \/ Goto(t, "clear") \/ Goto(t, "idle")
          \/ Goto(t, "bodies") /\ t \in Requests /\ rid[t] # None
      BY <1>0, <1>12, Counted DEF PlaceType
    <2> QED
      BY <1>0, <2>1, <2>2, PlaceMove DEF Places
  <1>13. CASE QueryLog(t)
    BY <1>0, <1>13 DEF QueryLog, ReopenLog, PickReader, OpenReader, PlaceType
  <1>3. CASE SaveCapture(t) \/ SaveCaptureFails(t)
    <2>1. \A u \in Requests \ {t} : rid'[u] = rid[u]
      BY <1>0, <1>3 DEF SaveCapture, SaveCaptureFails, LocalType
    <2>2. UNCHANGED <<page, scan>> /\ (Goto(t, "done") \/ Goto(t, "free"))
      BY <1>3 DEF SaveCapture, SaveCaptureFails, FreeOr
    <2> QED
      BY <1>0, <2>1, <2>2, PlaceMove DEF Places
  <1>4. CASE LogRowFails(t) \/ LogBodiesFails(t)
    <2>1. UNCHANGED <<rid, page, scan>>
      BY <1>4 DEF LogRowFails, LogBodiesFails, local
    <2>2. \/ Goto(t, "done") \/ Goto(t, "free")
          \/ Goto(t, "capture") /\ t \in Requests /\ rid[t] # None
      BY <1>0, <1>4 DEF LogRowFails, LogBodiesFails, FreeOr, PlaceType
    <2> QED
      BY <1>0, <2>1, <2>2, PlaceMove DEF Places
  <1>5. CASE CallFree(t) \/ (FreeSpace(t) /\ ~QueryLog(t))
    <2>1. UNCHANGED <<rid, page, scan>>
      BY <1>5 DEF CallFree, FreeSpace, FreeLog, FreeLogFails, DropLog, FreeDiagLock, FreeDiag,
         FreeDiagFails, FreeDropDiag, local
    <2>2. AfterFree(t) \in {"capture", "done", "dropLog", "idle"}
      BY DEF AfterFree
    <2>3. AfterFree(t) = "capture" => t \in Requests /\ rid[t] # None
      BY DEF AfterFree
    <2>4. \E l \in {"free", "freed", "freeDiag", "freeDropLog", "idle", "freeMinKeep",
                     "freeDropDiag", AfterFree(t)} : Goto(t, l)
      BY <1>5 DEF CallFree, FreeSpace, FreeLog, FreeLogFails, DropLog, FreeDiagLock, FreeDiag,
         FreeDiagFails, FreeDropDiag
    <2>5. PICK l \in {"free", "freed", "freeDiag", "freeDropLog", "idle", "freeMinKeep",
                      "freeDropDiag", AfterFree(t)} : Goto(t, l)
      BY <2>4
    <2>6. /\ l \in Places /\ l \notin AdminPlaces \cup {"logged", "bodies"}
          /\ l = "capture" => t \in Requests /\ rid[t] # None
      BY <2>2, <2>3, <2>5 DEF Places
    <2> QED
      BY <1>0, <2>1, <2>5, <2>6, PlaceMove
  <1>6. CASE Prune(t)
    <2>1. UNCHANGED <<rid, page, scan>>
      BY <1>6 DEF Prune, ClearLog, ClearBodies, PruneSelect, PruneBodies, PruneCommit, local
    <2>2. \/ Goto(t, "cleared") \/ Goto(t, "committed") \/ Goto(t, "idle")
          \/ t \in Admins /\ (Goto(t, "prune") \/ Goto(t, "pruned"))
      BY <1>0, <1>6 DEF Prune, ClearLog, ClearBodies, PruneSelect, PruneBodies, PruneCommit,
         Begin, PlaceType
    <2> QED
      BY <1>0, <2>1, <2>2, PlaceMove DEF Places
  <1>14. CASE CallRead(t)
    <2>1. UNCHANGED <<rid, page, scan>> /\ Goto(t, "row") /\ t \in Admins
      BY <1>14 DEF CallRead, Begin
    <2> QED
      BY <1>0, <2>1, PlaceMove DEF Places
  <1>7. CASE ReadRow(t)
    <2>0. t \in Admins /\ UNCHANGED <<rid, scan>>
      BY <1>0, <1>7 DEF ReadRow, PlaceType
    <2>1. CASE page' = page /\ Goto(t, "idle")
      BY <1>0, <2>0, <2>1, PlaceMove DEF Places
    <2>2. ASSUME NEW r \in requests, page' = [page EXCEPT ![t] = [row |-> r, owners |-> {}]],
                 Goto(t, "read")
          PROVE  PlaceType'
      <3>1. [row |-> r, owners |-> {}] \in Pages
        BY <1>0 DEF Pages, TablesType
      <3>2. /\ page' \in [Admins -> Pages \cup {None}] /\ page'[t] \in Pages
            /\ \A u \in Admins \ {t} : page'[u] = page[u]
        BY <1>0, <2>0, <2>2, <3>1
      <3> QED
        BY <1>0, <2>0, <2>2, <3>2, PlaceMove DEF Places
    <2> QED
      BY <1>7, <2>1, <2>2 DEF ReadRow
  <1>8. CASE ReadBodies(t)
    <2>1. t \in Admins /\ page[t] \in Pages
      BY <1>0, <1>8 DEF ReadBodies, PlaceType
    <2>2. {b.owner : b \in {c \in blobs : c.id = page[t].row.id}} \in SUBSET Owners
      BY <1>0 DEF TablesType, Bodies
    <2>3. /\ page' \in [Admins -> Pages \cup {None}]
          /\ \A u \in Admins \ {t} : page'[u] = page[u]
      BY <1>0, <1>8, <2>1, <2>2 DEF ReadBodies, Pages
    <2>4. UNCHANGED <<rid, scan>> /\ Goto(t, "idle")
      BY <1>8 DEF ReadBodies
    <2> QED
      BY <1>0, <2>3, <2>4, PlaceMove DEF Places
  <1>9. CASE StatsBegin(t)
    <2>1. [ver |-> version, rows |-> {}] \in Scans /\ t \in Admins
      BY <1>0, <1>9 DEF StatsBegin, Begin, Scans, SharedType
    <2>2. /\ scan' \in [Admins -> Scans \cup {None}] /\ scan'[t] \in Scans
          /\ \A u \in Admins \ {t} : scan'[u] = scan[u]
      BY <1>0, <1>9, <2>1 DEF StatsBegin
    <2>3. UNCHANGED <<rid, page>> /\ Goto(t, "stats")
      BY <1>9 DEF StatsBegin
    <2> QED
      BY <1>0, <2>1, <2>2, <2>3, PlaceMove DEF Places
  <1>10. CASE StatsScan(t)
    <2>1. t \in Admins /\ scan[t] \in Scans
      BY <1>0, <1>10 DEF StatsScan, PlaceType
    <2>2. scan' = [scan EXCEPT ![t] = [scan[t] EXCEPT !.rows = requests]]
      BY <1>10 DEF StatsScan
    <2>3. [scan[t] EXCEPT !.rows = requests] \in Scans
      BY <1>0, <2>1 DEF Scans, TablesType
    <2>4. /\ scan' \in [Admins -> Scans \cup {None}] /\ scan'[t] \in Scans
          /\ \A u \in Admins \ {t} : scan'[u] = scan[u]
      BY <1>0, <2>1, <2>2, <2>3
    <2>5. UNCHANGED <<rid, page>> /\ Goto(t, "statsCache")
      BY <1>10 DEF StatsScan
    <2> QED
      BY <1>0, <2>1, <2>4, <2>5, PlaceMove DEF Places
  <1>11. CASE StatsCache(t)
    <2>1. /\ scan' \in [Admins -> Scans \cup {None}]
          /\ \A u \in Admins \ {t} : scan'[u] = scan[u]
      BY <1>0, <1>11 DEF StatsCache
    <2>2. UNCHANGED <<rid, page>> /\ Goto(t, "idle")
      BY <1>11 DEF StatsCache
    <2> QED
      BY <1>0, <2>1, <2>2, PlaceMove DEF Places
  <1> QED
    BY <1>1, <1>2, <1>3, <1>4, <1>5, <1>6, <1>7, <1>8, <1>9, <1>10, <1>11, <1>12, <1>13, <1>14
    DEF Step, Record, Read

LEMMA MigrateTyped == ASSUME Typed, Migrate PROVE Typed'
  <1>1. /\ UNCHANGED <<requests, nextId, captures, log, locks, version, cache, pc>>
        /\ UNCHANGED <<rid, todo, query, sel, page, scan, calls, restarts>>
    BY DEF Migrate, local, bounds
  <1>2. PICK i \in legacy : /\ legacy' = legacy \ {i}
                            /\ blobs' = Put(blobs, i, Kinds, Legacy) \/ blobs' = blobs
    BY DEF Migrate
  <1>3. i \in Nat /\ Legacy \in Owners /\ blobs \subseteq Bodies
    BY StoreAssumption DEF Typed, TablesType, Owners
  <1>4. Put(blobs, i, Kinds, Legacy) \subseteq Bodies
    BY <1>3 DEF Put, Bodies
  <1>5. TablesType'
    BY <1>1, <1>2, <1>3, <1>4 DEF Typed, TablesType
  <1>6. (SharedType /\ LocalType /\ BoundsType)'
    BY <1>1 DEF Typed, SharedType, LocalType, BoundsType, log, locks
  <1>7. PlaceType'
    BY <1>1 DEF Typed, PlaceType
  <1> QED
    BY <1>5, <1>6, <1>7 DEF Typed

LEMMA RestartTyped == ASSUME Typed, Restart PROVE Typed'
  <1>1. TablesType'
    BY DEF Typed, TablesType, Restart, tables
  <1>2. SharedType'
    BY DEF Restart, SharedType
  <1>3. LocalType' /\ BoundsType'
    BY DEF Typed, BoundsType, LocalType, Restart, Queries
  <1>4. PlaceType'
    BY DEF Typed, Restart, PlaceType, Places, RecordPlaces, AdminPlaces
  <1> QED
    BY <1>1, <1>2, <1>3, <1>4 DEF Typed

LEMMA StutterTyped == ASSUME Typed, UNCHANGED vars PROVE Typed'
  BY DEF vars, tables, log, locks, local, bounds, Typed, TablesType, SharedType, LocalType,
     BoundsType, PlaceType

LEMMA NextTyped == ASSUME Typed, [Next]_vars PROVE Typed'
  <1>1. CASE \E t \in Threads : Step(t)
    BY <1>1, TablesKept, SharedKept, LocalKept, PlaceKept, Zenon DEF Typed
  <1> QED
    BY <1>1, MigrateTyped, RestartTyped, StutterTyped DEF Next

\* Every stored row has an id and an owner, and the version and the sequence
\* stay numbers, through full disks, drops, migrations and restarts.
THEOREM StoreTypeOK == Spec => []TypeOK
  <1>1. Typed => TypeOK
    BY DEF Typed, TypeOK, TablesType, SharedType, LocalType, BoundsType, Rows, Bodies, Scans
  <1> QED
    BY <1>1, InitTyped, NextTyped, PTL DEF Spec

-----------------------------------------------------------------------------
(* Ids are handed out once, as long as nothing drops the log database *)

NothingDrops == "log" \notin Workload /\ SpaceErrors = FALSE

NoDrop == \A t \in Threads : pc[t] \notin {"freeDropLog", "dropLog"} /\ "log" \notin todo[t]

LEMMA StepNoDrop ==
  ASSUME NothingDrops, Typed, NoDrop, NEW t \in Threads, Step(t)
  PROVE  NoDrop'
  <1>0. pc \in [Threads -> Places] /\ todo \in [Threads -> SUBSET {"diag", "log"}]
    BY DEF Typed, PlaceType, LocalType
  <1>1. \A u \in Threads \ {t} : todo'[u] = todo[u]
    BY <1>0, Steps DEF LogRow, LogRowFails, CountVersion, LogBodies, LogBodiesFails,
       SaveCapture, SaveCaptureFails, CallFree, FreeLog, FreeLogFails, DropLog, FreeDiagLock,
       FreeDiag, FreeDiagFails, FreeDropDiag, ReopenLog, PickReader, OpenReader, ClearLog,
       ClearBodies, PruneSelect, PruneBodies, PruneCommit, CallRead, ReadRow, ReadBodies,
       StatsBegin, StatsScan, StatsCache, local
  <1>2. "log" \notin todo'[t]
    <2>1. CASE CallFree(t)
      BY <1>0, <2>1 DEF CallFree, NothingDrops
    <2>2. CASE ~CallFree(t)
      <3>1. todo'[t] = todo[t]
        BY <2>2, Steps DEF LogRow, LogRowFails, CountVersion, LogBodies, LogBodiesFails,
           SaveCapture, SaveCaptureFails, FreeLog, FreeLogFails, DropLog, FreeDiagLock,
           FreeDiag, FreeDiagFails, FreeDropDiag, ReopenLog, PickReader, OpenReader, ClearLog,
           ClearBodies, PruneSelect, PruneBodies, PruneCommit, CallRead, ReadRow, ReadBodies,
           StatsBegin, StatsScan, StatsCache, local
      <3> QED
        BY <3>1 DEF NoDrop
    <2> QED
      BY <2>1, <2>2
  <1>3. CASE ~QueryLog(t)
    <2>0. \E l \in Places \ {"freeDropLog", "dropLog"} : Goto(t, l)
      <3>1. CASE Record(t) /\ ~CountVersion(t)
        BY <3>1 DEF Record, NothingDrops, LogRow, LogRowFails, LogBodies, LogBodiesFails,
           SaveCapture, SaveCaptureFails, Places
      <3>2. CASE CountVersion(t)
        BY <3>2, Counted DEF Places
      <3>3. CASE CallFree(t) \/ FreeLog(t) \/ FreeLogFails(t) \/ DropLog(t) \/ FreeDiagLock(t)
        BY <3>3 DEF CallFree, FreeLog, FreeLogFails, DropLog, FreeDiagLock, NothingDrops, NoDrop,
           Places
      <3>4. AfterFree(t) \in Places \ {"freeDropLog", "dropLog"}
        BY DEF AfterFree, NoDrop, Places
      <3>5. CASE FreeDiag(t) \/ FreeDiagFails(t) \/ FreeDropDiag(t)
        BY <3>4, <3>5 DEF FreeDiag, FreeDiagFails, FreeDropDiag, NothingDrops, Places
      <3>6. CASE Prune(t)
        BY <3>6 DEF Prune, ClearLog, ClearBodies, PruneSelect, PruneBodies, PruneCommit, Places
      <3>7. CASE Read(t)
        BY <3>7 DEF Read, CallRead, ReadRow, ReadBodies, StatsBegin, StatsScan, StatsCache, Places
      <3> QED
        BY <1>3, <3>1, <3>2, <3>3, <3>5, <3>6, <3>7 DEF Step, FreeSpace
    <2>1. \A u \in Threads : pc'[u] \notin {"freeDropLog", "dropLog"}
      BY <1>0, <2>0 DEF Goto, NoDrop
    <2> QED
      BY <1>1, <1>2, <2>1 DEF NoDrop
  <1>4. CASE QueryLog(t)
    <2>1. pc' = pc
      BY <1>4 DEF QueryLog, ReopenLog, PickReader, OpenReader
    <2> QED
      BY <1>1, <1>2, <2>1 DEF NoDrop
  <1> QED
    BY <1>3, <1>4

LEMMA NextNoDrop ==
  ASSUME NothingDrops, Typed, NoDrop, [Next]_vars
  PROVE  NoDrop'
  <1>1. CASE Migrate
    BY <1>1 DEF Migrate, local, NoDrop
  <1>2. CASE Restart
    BY <1>2 DEF Restart, NoDrop
  <1>3. CASE UNCHANGED vars
    BY <1>3 DEF vars, local, NoDrop
  <1> QED
    BY <1>1, <1>2, <1>3, StepNoDrop DEF Next

\* Something stored or under way takes row i for owner o's.
Claim(i, o) ==
  \/ \E r \in requests : r.id = i /\ r.owner = o
  \/ \E b \in blobs : b.id = i /\ b.owner = o
  \/ \E c \in captures : c.id = i /\ c.owner = o
  \/ \E t \in Requests : rid[t] = i /\ t = o
  \/ \E t \in Admins : pc[t] = "read" /\ page[t].row.id = i /\ page[t].row.owner = o

OneOwner == \A i \in Nat : \A o, p \in Owners : Claim(i, o) /\ Claim(i, p) => o = p
Allotted == \A i \in Nat : \A o \in Owners : Claim(i, o) => i < nextId

\* What a claim after a step comes from, table by table.
RowsKept(new) == requests' \subseteq requests \cup new
BlobsKept(t) == \A b \in blobs' : \/ \E c \in blobs : c.id = b.id /\ c.owner = b.owner
                                  \/ t \in Requests /\ rid[t] = b.id /\ t = b.owner
CapturesKept(t) == \A c \in captures' : \/ c \in captures
                                        \/ t \in Requests /\ rid[t] = c.id /\ t = c.owner
RidsKept == \A u \in Requests : rid'[u] = rid[u] \/ rid'[u] = None
PagesKept == \A u \in Admins : pc'[u] = "read" =>
               \/ pc[u] = "read" /\ page'[u] = page[u]
               \/ page'[u].row \in requests

LEMMA ClaimsKept ==
  ASSUME NEW t, RowsKept({}), BlobsKept(t), CapturesKept(t), RidsKept, PagesKept,
         NEW i \in Nat, NEW o \in Owners, Claim(i, o)'
  PROVE  Claim(i, o)
  <1>1. ASSUME NEW r \in requests', r.id = i, r.owner = o PROVE Claim(i, o)
    BY <1>1 DEF RowsKept, Claim
  <1>2. ASSUME NEW b \in blobs', b.id = i, b.owner = o PROVE Claim(i, o)
    BY <1>2 DEF BlobsKept, Claim
  <1>3. ASSUME NEW c \in captures', c.id = i, c.owner = o PROVE Claim(i, o)
    BY <1>3 DEF CapturesKept, Claim
  <1>4. ASSUME NEW u \in Requests, rid'[u] = i, u = o PROVE Claim(i, o)
    BY <1>4, StoreAssumption DEF RidsKept, Claim
  <1>5. ASSUME NEW u \in Admins, pc'[u] = "read", page'[u].row.id = i, page'[u].row.owner = o
        PROVE  Claim(i, o)
    BY <1>5 DEF PagesKept, Claim
  <1> QED
    BY <1>1, <1>2, <1>3, <1>4, <1>5 DEF Claim

LEMMA PagesStay ==
  ASSUME Typed, NEW t \in Threads, NEW l \in Places \ {"read"}, Goto(t, l), UNCHANGED page
  PROVE  PagesKept
  BY DEF PagesKept, Goto, Typed, PlaceType

\* Only LogRow makes a claim of its own.
LEMMA StepClaims ==
  ASSUME NothingDrops, Typed, NEW t \in Threads, Step(t), ~LogRow(t)
  PROVE  RowsKept({}) /\ BlobsKept(t) /\ CapturesKept(t) /\ RidsKept /\ PagesKept
  <1>0. /\ pc \in [Threads -> Places] /\ page \in [Admins -> Pages \cup {None}]
        /\ rid \in [Requests -> Nat \cup {None}]
    BY DEF Typed, PlaceType, LocalType
  <1>1. RowsKept({})
    BY Steps, NewestSubset DEF RowsKept, tables, LogRowFails, CountVersion, LogBodies,
       LogBodiesFails, SaveCapture, SaveCaptureFails, CallFree, FreeLog, FreeLogFails, DropLog,
       FreeDiagLock, FreeDiag, FreeDiagFails, FreeDropDiag, ReopenLog, PickReader, OpenReader,
       ClearLog, ClearBodies, PruneSelect, PruneBodies, PruneCommit, CallRead, ReadRow,
       ReadBodies, StatsBegin, StatsScan, StatsCache
  <1>2. BlobsKept(t)
    <2>1. CASE LogBodies(t)
      BY <2>1 DEF LogBodies, BlobsKept, Put
    <2>2. CASE ~LogBodies(t)
      <3>1. blobs' \subseteq blobs
        BY <2>2, Steps DEF tables, LogRowFails, CountVersion, LogBodiesFails, SaveCapture,
           SaveCaptureFails, CallFree, FreeLog, FreeLogFails, DropLog, FreeDiagLock, FreeDiag,
           FreeDiagFails, FreeDropDiag, ReopenLog, PickReader, OpenReader, ClearLog,
           ClearBodies, PruneSelect, PruneBodies, PruneCommit, CallRead, ReadRow, ReadBodies,
           StatsBegin, StatsScan, StatsCache
      <3> QED
        BY <3>1 DEF BlobsKept
    <2> QED
      BY <2>1, <2>2
  <1>3. CapturesKept(t)
    <2>1. CASE SaveCapture(t)
      BY <2>1 DEF SaveCapture, CapturesKept, Trims
    <2>2. CASE ~SaveCapture(t)
      <3>1. captures' \subseteq captures
        BY <2>2, Steps DEF tables, Trims, LogRowFails, CountVersion, LogBodies, LogBodiesFails,
           SaveCaptureFails, CallFree, FreeLog, FreeLogFails, DropLog, FreeDiagLock, FreeDiag,
           FreeDiagFails, FreeDropDiag, ReopenLog, PickReader, OpenReader, ClearLog,
           ClearBodies, PruneSelect, PruneBodies, PruneCommit, CallRead, ReadRow, ReadBodies,
           StatsBegin, StatsScan, StatsCache
      <3> QED
        BY <3>1 DEF CapturesKept
    <2> QED
      BY <2>1, <2>2
  <1>4. RidsKept
    <2>1. CASE SaveCapture(t) \/ SaveCaptureFails(t)
      BY <1>0, <2>1 DEF SaveCapture, SaveCaptureFails, RidsKept
    <2>2. CASE ~(SaveCapture(t) \/ SaveCaptureFails(t))
      <3>1. rid' = rid
        BY <2>2, Steps DEF local, LogRowFails, CountVersion, LogBodies, LogBodiesFails,
           CallFree, FreeLog, FreeLogFails, DropLog, FreeDiagLock, FreeDiag, FreeDiagFails,
           FreeDropDiag, ReopenLog, PickReader, OpenReader, ClearLog, ClearBodies, PruneSelect,
           PruneBodies, PruneCommit, CallRead, ReadRow, ReadBodies, StatsBegin, StatsScan,
           StatsCache
      <3> QED
        BY <3>1 DEF RidsKept
    <2> QED
      BY <2>1, <2>2
  <1>5. PagesKept
    <2>1. CASE ReadRow(t)
      <3>1. t \in Admins
        BY <2>1 DEF ReadRow, Typed, PlaceType, AdminPlaces
      <3>2. CASE page' = page /\ Goto(t, "idle")
        BY <1>0, <3>2 DEF Goto, PagesKept, Threads
      <3>3. ASSUME NEW r \in requests, page' = [page EXCEPT ![t] = [row |-> r, owners |-> {}]],
                   Goto(t, "read")
            PROVE  PagesKept
        BY <1>0, <3>1, <3>3 DEF Goto, PagesKept, Threads
      <3> QED
        BY <2>1, <3>2, <3>3 DEF ReadRow
    <2>2. CASE ReadBodies(t)
      BY <1>0, <2>2 DEF ReadBodies, Goto, PagesKept
    <2>3. CASE QueryLog(t)
      BY <2>3 DEF QueryLog, ReopenLog, PickReader, OpenReader, PagesKept
    <2>4. CASE ~(ReadRow(t) \/ ReadBodies(t) \/ QueryLog(t))
      <3>1. page' = page
        BY <2>4, Steps DEF local, LogRowFails, CountVersion, LogBodies, LogBodiesFails,
           SaveCapture, SaveCaptureFails, CallFree, FreeLog, FreeLogFails, DropLog,
           FreeDiagLock, FreeDiag, FreeDiagFails, FreeDropDiag, QueryLog, ClearLog, ClearBodies,
           PruneSelect, PruneBodies, PruneCommit, CallRead, StatsBegin, StatsScan, StatsCache
      <3>2. \E l \in Places \ {"read"} : Goto(t, l)
        <4>1. AfterFree(t) \in Places \ {"read"}
          BY DEF AfterFree, Places
        <4>2. CASE (Record(t) /\ ~CountVersion(t)) \/ Prune(t)
          BY <4>2 DEF Record, Prune, LogRow, LogRowFails, LogBodies, LogBodiesFails, SaveCapture,
             SaveCaptureFails, FreeOr, ClearLog, ClearBodies, PruneSelect, PruneBodies,
             PruneCommit, Places
        <4>3. CASE CallFree(t) \/ (FreeSpace(t) /\ ~QueryLog(t))
          BY <4>1, <4>3 DEF CallFree, FreeSpace, FreeLog, FreeLogFails, DropLog, FreeDiagLock,
             FreeDiag, FreeDiagFails, FreeDropDiag, Places
        <4>4. CASE CallRead(t) \/ StatsBegin(t) \/ StatsScan(t) \/ StatsCache(t)
          BY <4>4 DEF CallRead, StatsBegin, StatsScan, StatsCache, Places
        <4>5. CASE CountVersion(t)
          BY <4>5, Counted DEF Places
        <4> QED
          BY <2>4, <4>2, <4>3, <4>4, <4>5 DEF Step, Read
      <3> QED
        BY <3>1, <3>2, PagesStay
    <2> QED
      BY <2>1, <2>2, <2>3, <2>4
  <1> QED
    BY <1>1, <1>2, <1>3, <1>4, <1>5

LEMMA StepOwners ==
  ASSUME NothingDrops, Typed, NoDrop, OneOwner, Allotted, NEW t \in Threads, Step(t)
  PROVE  OneOwner' /\ Allotted'
  <1>0. nextId \in Nat \ {0}
    BY DEF Typed, TablesType
  <1>1. CASE LogRow(t)
    <2>1. t \in Requests /\ t \in Owners /\ nextId' = nextId + 1
      BY <1>1 DEF LogRow, Owners
    <2>2. RowsKept({[id |-> nextId, owner |-> t]})
      BY <1>1, NewestSubset DEF LogRow, NewId, RowsKept
    <2>3. blobs' = blobs /\ captures' = captures
      BY <1>1 DEF LogRow
    <2>4. \A u \in Requests : rid'[u] = IF u = t THEN nextId ELSE rid[u]
      BY <1>1, <2>1 DEF LogRow, NewId, Typed, LocalType
    <2>5. PagesKept
      BY <1>1, PagesStay DEF LogRow, Places
    <2>6. ASSUME NEW i \in Nat, NEW o \in Owners, Claim(i, o)'
          PROVE  Claim(i, o) \/ (i = nextId /\ o = t)
      <3>1. ASSUME NEW r \in requests', r.id = i, r.owner = o
            PROVE  Claim(i, o) \/ (i = nextId /\ o = t)
        BY <2>2, <3>1 DEF RowsKept, Claim
      <3>2. ASSUME \/ \E b \in blobs' : b.id = i /\ b.owner = o
                   \/ \E c \in captures' : c.id = i /\ c.owner = o
            PROVE  Claim(i, o)
        BY <2>3, <3>2 DEF Claim
      <3>3. ASSUME NEW u \in Requests, rid'[u] = i, u = o
            PROVE  Claim(i, o) \/ (i = nextId /\ o = t)
        BY <2>4, <3>3 DEF Claim
      <3>4. ASSUME NEW u \in Admins, pc'[u] = "read", page'[u].row.id = i,
                   page'[u].row.owner = o
            PROVE  Claim(i, o)
        BY <2>5, <3>4 DEF PagesKept, Claim
      <3> QED
        BY <2>6, <3>1, <3>2, <3>3, <3>4 DEF Claim
    <2>7. Allotted'
      <3> SUFFICES ASSUME NEW i \in Nat, NEW o \in Owners, Claim(i, o)' PROVE i < nextId'
        BY DEF Allotted
      <3> QED
        BY <1>0, <2>1, <2>6 DEF Allotted
    <2>8. ASSUME NEW i \in Nat, NEW o \in Owners, NEW p \in Owners, Claim(i, o)', Claim(i, p)'
          PROVE  o = p
      <3>1. CASE i = nextId
        BY <1>0, <2>6, <2>8, <3>1 DEF Allotted
      <3>2. CASE i # nextId
        BY <2>6, <2>8, <3>2 DEF OneOwner
      <3> QED
        BY <3>1, <3>2
    <2> QED
      BY <2>7, <2>8 DEF OneOwner
  <1>2. CASE ~LogRow(t)
    <2>1. \A i \in Nat, o \in Owners : Claim(i, o)' => Claim(i, o)
      BY <1>2, StepClaims, ClaimsKept
    <2>2. nextId' = nextId
      BY <1>2, Steps DEF NoDrop, tables, LogRowFails, CountVersion, LogBodies, LogBodiesFails,
         SaveCapture, SaveCaptureFails, CallFree, FreeLog, FreeLogFails, DropLog, FreeDiagLock,
         FreeDiag, FreeDiagFails, FreeDropDiag, ReopenLog, PickReader, OpenReader, ClearLog,
         ClearBodies, PruneSelect, PruneBodies, PruneCommit, CallRead, ReadRow, ReadBodies,
         StatsBegin, StatsScan, StatsCache
    <2>3. Allotted'
      <3> SUFFICES ASSUME NEW i \in Nat, NEW o \in Owners, Claim(i, o)' PROVE i < nextId'
        BY DEF Allotted
      <3> QED
        BY <2>1, <2>2 DEF Allotted
    <2>4. ASSUME NEW i \in Nat, NEW o \in Owners, NEW p \in Owners, Claim(i, o)', Claim(i, p)'
          PROVE  o = p
      BY <2>1, <2>4 DEF OneOwner
    <2> QED
      BY <2>3, <2>4 DEF OneOwner
  <1> QED
    BY <1>1, <1>2

LEMMA RestartOwners ==
  ASSUME OneOwner, Allotted, Restart
  PROVE  OneOwner' /\ Allotted'
  <1>1. /\ requests' = requests /\ blobs' = blobs /\ captures' = captures /\ nextId' = nextId
        /\ \A u \in Requests : rid'[u] = None
        /\ \A u \in Admins : pc'[u] # "read"
    BY DEF Restart, tables, Threads
  <1>2. ASSUME NEW i \in Nat, NEW o \in Owners, Claim(i, o)' PROVE Claim(i, o)
    BY <1>1, <1>2, StoreAssumption DEF Claim
  <1>3. Allotted'
    <2> SUFFICES ASSUME NEW i \in Nat, NEW o \in Owners, Claim(i, o)' PROVE i < nextId'
      BY DEF Allotted
    <2> QED
      BY <1>1, <1>2 DEF Allotted
  <1>4. ASSUME NEW i \in Nat, NEW o \in Owners, NEW p \in Owners, Claim(i, o)', Claim(i, p)'
        PROVE  o = p
    BY <1>2, <1>4 DEF OneOwner
  <1> QED
    BY <1>3, <1>4 DEF OneOwner

OwnerInv == Typed /\ NoDrop /\ OneOwner /\ Allotted /\ legacy = {}

LEMMA InitOwners == ASSUME LegacyIds = {}, Init PROVE OwnerInv
  <1>1. NoDrop
    BY DEF Init, NoDrop, Threads
  <1>2. ASSUME NEW i \in Nat, NEW o \in Owners PROVE ~Claim(i, o)
    BY StoreAssumption DEF Init, Claim, Threads
  <1> QED
    BY <1>1, <1>2, InitTyped DEF Init, OwnerInv, OneOwner, Allotted

LEMMA NextOwners ==
  ASSUME NothingDrops, LegacyIds = {}, OwnerInv, [Next]_vars
  PROVE  OwnerInv'
  <1>0. Typed /\ NoDrop /\ OneOwner /\ Allotted /\ legacy = {}
    BY DEF OwnerInv
  <1>1. Typed' /\ NoDrop'
    BY <1>0, NextTyped, NextNoDrop
  <1>2. legacy' = {}
    BY <1>1 DEF Typed, TablesType
  <1>3. OneOwner' /\ Allotted'
    <2>1. CASE \E t \in Threads : Step(t)
      BY <1>0, <2>1, StepOwners
    <2>2. CASE Migrate
      BY <1>0, <2>2 DEF Migrate
    <2>3. CASE Restart
      BY <1>0, <2>3, RestartOwners
    <2>4. CASE UNCHANGED vars
      BY <1>0, <2>4 DEF vars, tables, local, OneOwner, Allotted, Claim
    <2> QED
      BY <2>1, <2>2, <2>3, <2>4 DEF Next
  <1> QED
    BY <1>1, <1>2, <1>3 DEF OwnerInv

\* Bodies and captures are found under the row of their own request
\* (log_request, save_capture), however inserts, prunes, trims and restarts
\* are interleaved, as long as the log database is not dropped.
THEOREM StoreBodiesBelong ==
  ASSUME NothingDrops, LegacyIds = {}
  PROVE  Spec => []BodiesBelong
  <1>1. OwnerInv => BodiesBelong
    <2> SUFFICES ASSUME OwnerInv, NEW r \in requests, NEW b \in blobs \cup captures, b.id = r.id
                 PROVE  b.owner = r.owner
      BY DEF BodiesBelong
    <2>1. r.id \in Nat /\ r.owner \in Owners /\ b.owner \in Owners
      BY DEF OwnerInv, Typed, TablesType, Rows, Bodies, Owners
    <2>2. Claim(r.id, r.owner) /\ Claim(r.id, b.owner)
      BY DEF Claim
    <2> QED
      BY <2>1, <2>2 DEF OwnerInv, OneOwner
  <1> QED
    BY <1>1, InitOwners, NextOwners, PTL DEF Spec

\* A step that does not read a page leaves the pages alone.
LEMMA PagesUntouched ==
  ASSUME NEW t \in Threads, Step(t), ~ReadRow(t), ~ReadBodies(t)
  PROVE  page' = page
  BY Steps DEF local, LogRow, LogRowFails, CountVersion, LogBodies, LogBodiesFails, SaveCapture,
     SaveCaptureFails, CallFree, FreeLog, FreeLogFails, DropLog, FreeDiagLock, FreeDiag,
     FreeDiagFails, FreeDropDiag, ReopenLog, PickReader, OpenReader, ClearLog, ClearBodies,
     PruneSelect, PruneBodies, PruneCommit, CallRead, StatsBegin, StatsScan, StatsCache

LEMMA NextPage ==
  ASSUME OwnerInv, PageOfOneRequest, [Next]_vars
  PROVE  PageOfOneRequest'
  <1>0. page \in [Admins -> Pages \cup {None}]
    BY DEF OwnerInv, Typed, PlaceType
  <1>1. ASSUME NEW t \in Threads, ReadRow(t) PROVE PageOfOneRequest'
    BY <1>0, <1>1 DEF ReadRow, PageOfOneRequest
  <1>2. ASSUME NEW t \in Threads, ReadBodies(t) PROVE PageOfOneRequest'
    <2> DEFINE found == {b.owner : b \in {c \in blobs : c.id = page[t].row.id}}
    <2>1. /\ t \in Admins /\ pc[t] = "read" /\ page[t] \in Pages
          /\ page' = [page EXCEPT ![t] = [page[t] EXCEPT !.owners = found]]
      BY <1>2 DEF ReadBodies, OwnerInv, Typed, PlaceType, AdminPlaces
    <2>2. page[t].row.id \in Nat /\ page[t].row.owner \in Owners
      BY <2>1 DEF Pages, Rows, Owners
    <2>3. Claim(page[t].row.id, page[t].row.owner)
      BY <2>1 DEF Claim
    <2>4. ASSUME NEW b \in blobs, b.id = page[t].row.id PROVE b.owner = page[t].row.owner
      <3>1. b.owner \in Owners /\ Claim(page[t].row.id, b.owner)
        BY <2>4 DEF Claim, OwnerInv, Typed, TablesType, Bodies
      <3> QED
        BY <2>2, <2>3, <3>1 DEF OwnerInv, OneOwner
    <2>5. found \subseteq {page[t].row.owner}
      BY <2>4
    <2> HIDE DEF found
    <2>6. page'[t].row = page[t].row /\ page'[t].owners = found
      BY <1>0, <2>1 DEF Pages
    <2>7. \A u \in Admins \ {t} : page'[u] = page[u]
      BY <1>0, <2>1
    <2> QED
      BY <2>5, <2>6, <2>7 DEF PageOfOneRequest
  <1>3. ASSUME UNCHANGED page PROVE PageOfOneRequest'
    BY <1>3 DEF PageOfOneRequest
  <1>4. CASE Migrate \/ UNCHANGED vars
    BY <1>3, <1>4 DEF Migrate, vars, local
  <1>5. CASE Restart
    BY <1>5 DEF Restart, PageOfOneRequest
  <1> QED
    BY <1>1, <1>2, <1>3, <1>4, <1>5, PagesUntouched DEF Next

\* The console's page of a request, put together from a query for the row and
\* one for its bodies (get_request), never shows another request's bodies,
\* even if the row goes between the two.
THEOREM StorePageOfOneRequest ==
  ASSUME NothingDrops, LegacyIds = {}
  PROVE  Spec => []PageOfOneRequest
  <1>1. Init => PageOfOneRequest
    BY DEF Init, PageOfOneRequest
  <1> QED
    BY <1>1, InitOwners, NextOwners, NextPage, PTL DEF Spec

-----------------------------------------------------------------------------
(* The cached overview *)

\* A scan that carries the current version, finished or in the cache, has the
\* current rows, unless a commit is yet to be counted; none carries a version
\* still to come.
Current(s) == s.ver <= version /\ (s.ver = version /\ Settled => s.rows = requests)

Fresh ==
  /\ cache # None => Current(cache)
  /\ \A t \in Admins : /\ pc[t] = "stats" => scan[t].ver <= version
                       /\ pc[t] = "statsCache" => Current(scan[t])

\* A step that changes the rows leaves a commit to be counted, and only counting
\* it, which makes every scan old, settles that.
Counts ==
  \/ requests' = requests /\ version' = version /\ (Settled' => Settled)
  \/ version' = version /\ ~Settled'
  \/ version' = version + 1

LEMMA StepVersion ==
  ASSUME Typed, NoDrop, NEW t \in Threads, Step(t)
  PROVE  Counts
  <1>0. /\ pc \in [Threads -> Places]
        /\ \A l \in Places : Goto(t, l) => pc'[t] = l /\ \A u \in Threads \ {t} : pc'[u] = pc[u]
        /\ Settled <=> \A u \in Threads : pc[u] \notin CountPlaces
        /\ Settled' <=> \A u \in Threads : pc'[u] \notin CountPlaces
    BY CommitPlaces DEF Typed, PlaceType, Goto, Settled
  <1>1. CASE CountVersion(t)
    BY <1>1 DEF CountVersion, Counts
  <1>2. CASE LogRow(t) \/ FreeLog(t) \/ ClearLog(t) \/ PruneCommit(t)
    <2>1. version' = version /\ pc'[t] \in CountPlaces
      BY <1>0, <1>2 DEF LogRow, FreeLog, ClearLog, PruneCommit, Places, CountPlaces
    <2> QED
      BY <1>0, <2>1 DEF Counts
  <1>3. CASE ~(CountVersion(t) \/ LogRow(t) \/ FreeLog(t) \/ ClearLog(t) \/ PruneCommit(t))
    <2>1. requests' = requests /\ version' = version
      BY <1>3, Steps DEF NoDrop, tables, LogRowFails, LogBodies, LogBodiesFails, SaveCapture,
         SaveCaptureFails, CallFree, FreeLogFails, DropLog, FreeDiagLock, FreeDiag,
         FreeDiagFails, FreeDropDiag, ReopenLog, PickReader, OpenReader, ClearBodies,
         PruneSelect, PruneBodies, CallRead, ReadRow, ReadBodies, StatsBegin, StatsScan,
         StatsCache
    <2>2. pc[t] \notin CountPlaces
      BY <1>3, Steps DEF CountPlaces, Begin, LogRowFails, LogBodies, LogBodiesFails, SaveCapture,
         SaveCaptureFails, CallFree, FreeLogFails, DropLog, FreeDiagLock, FreeDiag,
         FreeDiagFails, FreeDropDiag, ReopenLog, PickReader, OpenReader, ClearBodies,
         PruneSelect, PruneBodies, CallRead, ReadRow, ReadBodies, StatsBegin, StatsScan,
         StatsCache
    <2>3. \A u \in Threads \ {t} : pc'[u] = pc[u]
      <3>1. pc' = pc \/ \E l : Goto(t, l)
        BY Steps DEF LogRow, LogRowFails, CountVersion, LogBodies, LogBodiesFails, SaveCapture,
           SaveCaptureFails, CallFree, FreeLog, FreeLogFails, DropLog, FreeDiagLock, FreeDiag,
           FreeDiagFails, FreeDropDiag, ReopenLog, PickReader, OpenReader, ClearLog, ClearBodies,
           PruneSelect, PruneBodies, PruneCommit, CallRead, ReadRow, ReadBodies, StatsBegin,
           StatsScan, StatsCache, FreeOr
      <3> QED
        BY <1>0, <3>1 DEF Goto
    <2> QED
      BY <1>0, <2>1, <2>2, <2>3 DEF Counts
  <1> QED
    BY <1>1, <1>2, <1>3

LEMMA CurrentKept ==
  ASSUME Typed, NEW s \in Scans, Counts
  PROVE  /\ s.ver <= version => s.ver <= version'
         /\ Current(s) => s.ver <= version' /\ (s.ver = version' /\ Settled' => s.rows = requests')
  <1>1. s.ver \in Nat /\ version \in Nat
    BY DEF Typed, SharedType, Scans
  <1> QED
    BY <1>1 DEF Current, Counts

LEMMA StepFresh ==
  ASSUME Typed, NoDrop, Fresh, NEW t \in Threads, Step(t)
  PROVE  Fresh'
  <1>0. /\ pc \in [Threads -> Places] /\ scan \in [Admins -> Scans \cup {None}]
        /\ cache \in Scans \cup {None} /\ version \in Nat
        /\ \A u \in Admins : pc[u] \in {"stats", "statsCache"} => scan[u] \in Scans
    BY DEF Typed, PlaceType, SharedType, Threads
  <1>1. Counts
    BY StepVersion
  <1>0a. version' = version => (Settled' => Settled)
    BY <1>0, <1>1 DEF Counts
  <1>2. CASE StatsBegin(t)
    <2>1. /\ t \in Admins /\ UNCHANGED <<requests, version, cache>>
          /\ pc' = [pc EXCEPT ![t] = "stats"]
          /\ scan' = [scan EXCEPT ![t] = [ver |-> version, rows |-> {}]]
      BY <1>2 DEF StatsBegin, Begin, Goto, tables
    <2>2. pc'[t] = "stats" /\ scan'[t].ver <= version'
      BY <1>0, <2>1 DEF Threads
    <2>3. \A u \in Admins \ {t} : pc'[u] = pc[u] /\ scan'[u] = scan[u]
      BY <1>0, <2>1 DEF Threads
    <2> QED
      BY <1>0a, <2>1, <2>2, <2>3 DEF Fresh, Current
  <1>3. CASE StatsScan(t)
    <2>1. /\ pc[t] = "stats" /\ UNCHANGED <<requests, version, cache>>
          /\ pc' = [pc EXCEPT ![t] = "statsCache"]
          /\ scan' = [scan EXCEPT ![t] = [scan[t] EXCEPT !.rows = requests]]
      BY <1>3 DEF StatsScan, Goto, tables
    <2>2. t \in Admins /\ scan[t] \in Scans /\ scan[t].ver <= version
      <3>1. t \in Admins
        BY <2>1 DEF Typed, PlaceType, AdminPlaces
      <3>2. scan[t].ver <= version
        BY <2>1, <3>1, Zenon DEF Fresh
      <3> QED
        BY <1>0, <2>1, <3>1, <3>2
    <2>3. /\ pc'[t] = "statsCache" /\ scan'[t].rows = requests
          /\ scan'[t].ver = scan[t].ver
      BY <1>0, <2>1, <2>2 DEF Scans
    <2>4. \A u \in Admins \ {t} : pc'[u] = pc[u] /\ scan'[u] = scan[u]
      BY <1>0, <2>1 DEF Threads
    <2> QED
      BY <1>0a, <2>1, <2>2, <2>3, <2>4 DEF Fresh, Current
  <1>4. CASE StatsCache(t)
    <2>1. /\ pc[t] = "statsCache" /\ UNCHANGED <<requests, version>> /\ cache' = scan[t]
          /\ pc' = [pc EXCEPT ![t] = "idle"] /\ scan' = [scan EXCEPT ![t] = None]
      BY <1>4 DEF StatsCache, Goto, tables
    <2>2. t \in Admins /\ Current(scan[t])
      BY <2>1 DEF Typed, PlaceType, AdminPlaces, Fresh
    <2>3. pc'[t] = "idle" /\ \A u \in Admins \ {t} : pc'[u] = pc[u] /\ scan'[u] = scan[u]
      BY <1>0, <2>1 DEF Threads
    <2> QED
      BY <1>0a, <2>1, <2>2, <2>3 DEF Fresh, Current
  <1>5. CASE ~(StatsBegin(t) \/ StatsScan(t) \/ StatsCache(t))
    <2>1. scan' = scan /\ cache' = cache
      BY <1>5, Steps DEF local, LogRow, LogRowFails, CountVersion, LogBodies, LogBodiesFails,
         SaveCapture, SaveCaptureFails, CallFree, FreeLog, FreeLogFails, DropLog, FreeDiagLock,
         FreeDiag, FreeDiagFails, FreeDropDiag, ReopenLog, PickReader, OpenReader, ClearLog,
         ClearBodies, PruneSelect, PruneBodies, PruneCommit, CallRead, ReadRow, ReadBodies
    <2>2. ASSUME ~QueryLog(t) PROVE \E l \in Places \ {"stats", "statsCache"} : Goto(t, l)
      <3>1. AfterFree(t) \in Places \ {"stats", "statsCache"}
        BY DEF AfterFree, Places
      <3> QED
        <4>1. CASE (Record(t) /\ ~CountVersion(t)) \/ Prune(t)
          BY <4>1 DEF Record, Prune, LogRow, LogRowFails, LogBodies, LogBodiesFails, SaveCapture,
             SaveCaptureFails, FreeOr, ClearLog, ClearBodies, PruneSelect, PruneBodies,
             PruneCommit, Places
        <4>2. CASE CountVersion(t)
          BY <4>2, Counted DEF Places
        <4>3. CASE CallFree(t) \/ (FreeSpace(t) /\ ~QueryLog(t))
          BY <3>1, <4>3 DEF CallFree, FreeSpace, FreeLog, FreeLogFails, DropLog, FreeDiagLock,
             FreeDiag, FreeDiagFails, FreeDropDiag, Places
        <4>4. CASE CallRead(t) \/ ReadRow(t) \/ ReadBodies(t)
          BY <4>4 DEF CallRead, ReadRow, ReadBodies, Places
        <4> QED
          BY <1>5, <2>2, <4>1, <4>2, <4>3, <4>4 DEF Step, Read
    <2>2a. QueryLog(t) => pc' = pc
      BY DEF QueryLog, ReopenLog, PickReader, OpenReader
    <2>3. \A u \in Admins : pc'[u] \in {"stats", "statsCache"} => pc'[u] = pc[u]
      <3>1. CASE ~QueryLog(t)
        <4>1. \E l \in Places \ {"stats", "statsCache"} : Goto(t, l)
          BY <2>2, <3>1
        <4> QED
          BY <1>0, <4>1 DEF Goto, Threads
      <3> QED
        BY <2>2a, <3>1
    <2>4. cache' # None => cache' \in Scans /\ Current(cache)
      BY <1>0, <2>1 DEF Fresh
    <2>5. cache' # None => Current(cache)'
      BY <1>1, <2>1, <2>4, CurrentKept DEF Current
    <2>6. ASSUME NEW u \in Admins
          PROVE  /\ pc'[u] = "stats" => scan'[u].ver <= version'
                 /\ pc'[u] = "statsCache" => Current(scan[u])'
      <3>0. pc[u] = "stats" => scan[u].ver <= version
        BY Zenon DEF Fresh
      <3>1. pc'[u] = "stats" => scan[u] \in Scans /\ scan[u].ver <= version
        BY <1>0, <2>3, <3>0
      <3>2. pc'[u] = "statsCache" => scan[u] \in Scans /\ Current(scan[u])
        BY <1>0, <2>3 DEF Fresh
      <3>3. pc'[u] = "stats" => scan[u].ver <= version'
        BY <1>1, <3>1, CurrentKept
      <3>4. pc'[u] = "statsCache" =>
              scan[u].ver <= version' 
              /\ (scan[u].ver = version' /\ Settled' => scan[u].rows = requests')
        BY <1>1, <3>2, CurrentKept
      <3> QED
        BY <2>1, <3>3, <3>4 DEF Current
    <2> QED
      BY <2>5, <2>6 DEF Fresh
  <1> QED
    BY <1>2, <1>3, <1>4, <1>5

LEMMA NextFresh ==
  ASSUME Typed, NoDrop, Fresh, [Next]_vars
  PROVE  Fresh'
  <1>1. CASE Migrate
    BY <1>1 DEF Migrate, local, Fresh, Current, Settled
  <1>2. CASE Restart
    BY <1>2 DEF Restart, Fresh, Threads
  <1>3. CASE UNCHANGED vars
    BY <1>3 DEF vars, tables, local, Fresh, Current, Settled
  <1> QED
    BY <1>1, <1>2, <1>3, StepFresh DEF Next

\* An overview served from the cache counts exactly the rows of the log
\* (stats_overview reads _data_version before its scan), whatever is written
\* or pruned during the scan, as long as the log database is not dropped.
THEOREM StoreStatsFresh ==
  ASSUME NothingDrops
  PROVE  Spec => []StatsFresh
  <1>1. Init => Typed /\ NoDrop /\ Fresh
    BY InitTyped DEF Init, NoDrop, Fresh, Threads
  <1>2. Typed /\ NoDrop /\ Fresh /\ [Next]_vars => (Typed /\ NoDrop /\ Fresh)'
    BY NextTyped, NextNoDrop, NextFresh
  <1>3. Fresh => StatsFresh
    BY DEF Fresh, Current, StatsFresh, Cached
  <1> QED
    BY <1>1, <1>2, <1>3, PTL DEF Spec

-----------------------------------------------------------------------------
(* The two locks *)

LogPlaces == {"prune", "pruned"} \cup CountPlaces
LockPlaces == LogPlaces \cup {"freeMinKeep"}

\* The places where a thread holds the log lock and the diagnostic lock.
LocksHeld ==
  \A t \in Threads : /\ llock = t <=> pc[t] \in LogPlaces
                     /\ dlock = t <=> pc[t] = "freeMinKeep"

\* The holder does not wait for the other lock: the guard of PruneBodies, and
\* those of ReopenLog and FreeDiag.
LogGoes == llock # Nobody /\ (pc[llock] = "prune" => dlock = Nobody)
DiagGoes == dlock # Nobody /\ (query[dlock] \in {"reopen", "writer"} => llock = Nobody)
HolderGoes == llock # Nobody \/ dlock # Nobody => LogGoes \/ DiagGoes

Inside(t) == \/ FreeDiagLock(t) \/ FreeDiag(t) \/ FreeDiagFails(t) \/ PruneSelect(t)
             \/ PruneBodies(t) \/ PruneCommit(t) \/ LogRow(t) \/ FreeLog(t) \/ ClearLog(t)
             \/ CountVersion(t) \/ QueryLog(t)

LEMMA OutsideLocks ==
  ASSUME Typed, NEW t \in Threads, Step(t), ~Inside(t)
  PROVE  /\ UNCHANGED <<llock, dlock>> /\ pc[t] \notin LockPlaces
         /\ \E l \in Places \ LockPlaces : Goto(t, l)
  <1>0. AfterFree(t) \in {"capture", "done", "dropLog", "idle"}
    BY DEF AfterFree
  <1> USE DEF locks, local, LockPlaces, LogPlaces, CountPlaces, Places, Inside
  <1>1. CASE Record(t)
    BY <1>1 DEF Record, LogRowFails, LogBodies, LogBodiesFails, SaveCapture, SaveCaptureFails,
                FreeOr
  <1>2. CASE CallFree(t)
    BY <1>2 DEF CallFree, Begin
  <1>3. CASE FreeLogFails(t) \/ DropLog(t)
    BY <1>3 DEF FreeLogFails, DropLog
  <1>4. CASE FreeDropDiag(t)
    BY <1>0, <1>4 DEF FreeDropDiag
  <1>5. CASE ClearBodies(t)
    BY <1>5 DEF ClearBodies, Begin
  <1>6. CASE Read(t)
    BY <1>6 DEF Read, CallRead, ReadRow, ReadBodies, StatsBegin, StatsScan, StatsCache, Begin
  <1> QED
    BY <1>1, <1>2, <1>3, <1>4, <1>5, <1>6, Steps DEF Record, Read, QueryLog

LEMMA StepLocks ==
  ASSUME Typed, LocksHeld, NEW t \in Threads, Step(t)
  PROVE  LocksHeld'
  <1>0. pc \in [Threads -> Places] /\ Nobody \notin Threads
    BY StoreAssumption DEF Typed, PlaceType
  <1> USE DEF LogPlaces, CountPlaces
  <1>1. CASE FreeDiagLock(t)
    <2>1. pc[t] = "freeDiag" /\ dlock = Nobody /\ dlock' = t /\ llock' = llock
          /\ pc' = [pc EXCEPT ![t] = "freeMinKeep"]
      BY <1>1 DEF FreeDiagLock, Goto
    <2> QED
      BY <1>0, <2>1 DEF LocksHeld
  <1>2. CASE FreeDiag(t) \/ FreeDiagFails(t)
    <2>1. AfterFree(t) \in {"capture", "done", "dropLog", "idle"}
      BY DEF AfterFree
    <2>2. PICK l \in {"freeDropDiag", "capture", "done", "dropLog", "idle"} :
            pc' = [pc EXCEPT ![t] = l]
      BY <1>2, <2>1 DEF FreeDiag, FreeDiagFails, Goto
    <2>3. pc[t] = "freeMinKeep" /\ dlock = t /\ dlock' = Nobody /\ llock' = llock
      BY <1>2 DEF FreeDiag, FreeDiagFails
    <2> QED
      BY <1>0, <2>2, <2>3 DEF LocksHeld
  <1>3. CASE PruneSelect(t) \/ LogRow(t) \/ FreeLog(t) \/ ClearLog(t)
    <2>1. /\ pc[t] \in {"idle", "serving", "free"}
          /\ llock = Nobody /\ llock' = t /\ dlock' = dlock
      BY <1>3 DEF PruneSelect, LogRow, FreeLog, ClearLog, Begin
    <2>2. PICK l \in LogPlaces : pc' = [pc EXCEPT ![t] = l]
      BY <1>3 DEF PruneSelect, LogRow, FreeLog, ClearLog, Goto
    <2> QED
      BY <1>0, <2>1, <2>2 DEF LocksHeld
  <1>4. CASE PruneBodies(t) \/ PruneCommit(t)
    <2>1. pc[t] \in LogPlaces /\ UNCHANGED <<llock, dlock>>
      BY <1>4 DEF PruneBodies, PruneCommit, locks
    <2>2. PICK l \in LogPlaces : pc' = [pc EXCEPT ![t] = l]
      BY <1>4 DEF PruneBodies, PruneCommit, Goto
    <2> QED
      BY <1>0, <2>1, <2>2 DEF LocksHeld
  <1>5. CASE CountVersion(t)
    <2>1. llock' = Nobody /\ dlock' = dlock
      BY <1>5 DEF CountVersion
    <2>2. pc[t] \in LogPlaces
      BY <1>5, Counted
    <2>3. llock = t
      BY <2>2 DEF LocksHeld
    <2>4. PICK l \in {"bodies", "freeDiag", "clear", "idle"} : pc' = [pc EXCEPT ![t] = l]
      BY <1>5, Counted DEF Goto
    <2> QED
      BY <1>0, <2>1, <2>2, <2>3, <2>4 DEF LocksHeld
  <1>6. CASE QueryLog(t)
    <2>1. UNCHANGED <<pc, llock, dlock>>
      BY <1>6 DEF QueryLog, ReopenLog, PickReader, OpenReader, locks
    <2> QED
      BY <2>1 DEF LocksHeld
  <1>7. CASE ~Inside(t)
    <2>1. PICK l \in Places \ LockPlaces : pc' = [pc EXCEPT ![t] = l]
      BY <1>7, OutsideLocks DEF Goto
    <2>2. UNCHANGED <<llock, dlock>> /\ pc[t] \notin LockPlaces
      BY <1>7, OutsideLocks
    <2> QED
      BY <1>0, <2>1, <2>2 DEF LocksHeld, LockPlaces
  <1> QED
    BY <1>1, <1>2, <1>3, <1>4, <1>5, <1>6, <1>7 DEF Inside

LEMMA InitLocks == Init => LocksHeld
  BY StoreAssumption DEF Init, LocksHeld, LogPlaces, CountPlaces

LEMMA NextLocks == ASSUME Typed, LocksHeld, [Next]_vars PROVE LocksHeld'
  <1>1. CASE Migrate \/ UNCHANGED vars
    BY <1>1 DEF Migrate, vars, locks, LocksHeld
  <1>2. CASE Restart
    BY <1>2, StoreAssumption DEF Restart, LocksHeld, Threads, LogPlaces, CountPlaces
  <1> QED
    BY <1>1, <1>2, StepLocks DEF Next

\* A reader that is open stays open where the log database is not dropped and
\* the process does not start anew, and every query runs on it.
Reading == logOpen /\ reader = "open" /\ \A t \in Threads : query[t] \in {"none", "open"}

LEMMA NextReading ==
  ASSUME "restart" \notin Workload, Typed, NoDrop, Reading, [Next]_vars
  PROVE  Reading'
  <1>0. query \in [Threads -> Queries]
    BY DEF Typed, LocalType
  <1>1. CASE Migrate \/ UNCHANGED vars
    BY <1>1 DEF Migrate, vars, log, local, Reading
  <1>2. CASE Restart
    BY <1>2 DEF Restart
  <1>3. ASSUME NEW t \in Threads, Step(t) PROVE Reading'
    <2>1. ~(ReopenLog(t) \/ PickReader(t) \/ OpenReader(t) \/ DropLog(t))
      BY DEF Reading, NoDrop, ReopenLog, PickReader, OpenReader, DropLog
    <2>2. logOpen /\ reader = "open" /\ Source = "open"
      BY DEF Reading, Source
    <2>3. logOpen' /\ reader' = "open"
      BY <1>3, <2>1, <2>2, Steps DEF OpenLog, log, RunsOn, AskLog, LogRow, LogRowFails,
         CountVersion, LogBodies, LogBodiesFails, SaveCapture, SaveCaptureFails, CallFree, FreeLog,
         FreeLogFails, FreeDiagLock, FreeDiag, FreeDiagFails, FreeDropDiag, ClearLog, ClearBodies,
         PruneSelect, PruneBodies, PruneCommit, CallRead, ReadRow, ReadBodies, StatsBegin,
         StatsScan, StatsCache
    <2>4. query' = query \/ \E q \in {"none", "open"} : query' = [query EXCEPT ![t] = q]
      BY <1>3, <2>1, <2>2, Steps DEF local, Answered, RunsOn, AskLog, LogRow, LogRowFails,
         CountVersion, LogBodies, LogBodiesFails, SaveCapture, SaveCaptureFails, CallFree, FreeLog,
         FreeLogFails, FreeDiagLock, FreeDiag, FreeDiagFails, FreeDropDiag, ClearLog, ClearBodies,
         PruneSelect, PruneBodies, PruneCommit, CallRead, ReadRow, ReadBodies, StatsBegin,
         StatsScan, StatsCache
    <2> QED
      BY <1>0, <2>3, <2>4 DEF Reading
  <1> QED
    BY <1>1, <1>2, <1>3 DEF Next

\* Nobody prunes where pruning is no call of the workload.
NoPrune == \A t \in Threads : pc[t] \notin {"prune", "pruned"}

LEMMA NextNoPrune ==
  ASSUME "prune" \notin Workload, Typed, LocksHeld, NoPrune, [Next]_vars
  PROVE  NoPrune'
  <1>0. pc \in [Threads -> Places]
    BY DEF Typed, PlaceType
  <1>1. CASE Migrate \/ UNCHANGED vars
    BY <1>1 DEF Migrate, vars, NoPrune
  <1>2. CASE Restart
    BY <1>2 DEF Restart, NoPrune
  <1>3. ASSUME NEW t \in Threads, Step(t) PROVE NoPrune'
    <2>1. ~(PruneSelect(t) \/ PruneBodies(t) \/ PruneCommit(t))
      BY <1>3 DEF PruneSelect, PruneBodies, PruneCommit, Begin, NoPrune
    <2>2. pc' = pc \/ \E l \in Places \ {"prune", "pruned"} : pc' = [pc EXCEPT ![t] = l]
      <3>1. CASE FreeDiagLock(t) \/ LogRow(t) \/ FreeLog(t) \/ ClearLog(t)
        BY <3>1 DEF FreeDiagLock, LogRow, FreeLog, ClearLog, Goto, Places
      <3>2. AfterFree(t) \in {"capture", "done", "dropLog", "idle"}
        BY DEF AfterFree
      <3>3. CASE FreeDiag(t) \/ FreeDiagFails(t)
        BY <3>2, <3>3 DEF FreeDiag, FreeDiagFails, Goto, Places
      <3>4. CASE CountVersion(t)
        BY <3>4, Counted DEF Goto, Places
      <3>5. CASE QueryLog(t)
        BY <3>5 DEF QueryLog, ReopenLog, PickReader, OpenReader
      <3>6. CASE ~Inside(t)
        BY <1>3, <3>6, OutsideLocks DEF Goto, LockPlaces, LogPlaces
      <3> QED
        BY <2>1, <3>1, <3>3, <3>4, <3>5, <3>6 DEF Inside
    <2> QED
      BY <1>0, <2>2 DEF NoPrune
  <1> QED
    BY <1>1, <1>2, <1>3 DEF Next

\* The with-blocks of prune_requests and free_space exclude each other: who
\* is inside one holds its lock, and nobody else does.
THEOREM StoreLocksExclusive == Spec => []LocksHeld
  <1>1. Typed /\ LocksHeld /\ [Next]_vars => (Typed /\ LocksHeld)'
    BY NextTyped, NextLocks
  <1> QED
    BY <1>1, InitTyped, InitLocks, PTL DEF Spec

\* The locks are never waited for in a circle: where one is held, some holder
\* can go on to release it.  Two ways to that: the log's reader is open and
\* stays so (the database is not dropped, the process not restarted), so that
\* the min_keep query of free_space needs no log lock under the diagnostic
\* lock, or nobody prunes.  Where someone prunes and the query finds no reader,
\* after a drop (BugStoreDeadlock.cfg) or because it is just being opened or
\* could not be, the circle closes.
THEOREM StoreHolderGoes ==
  ASSUME \/ NothingDrops /\ ReaderStart = "open" /\ "restart" \notin Workload
         \/ "prune" \notin Workload
  PROVE  Spec => []HolderGoes
  <1>1. CASE NothingDrops /\ ReaderStart = "open" /\ "restart" \notin Workload
    <2>1. Init => Typed /\ NoDrop /\ LocksHeld /\ Reading
      BY <1>1, InitTyped, InitLocks DEF Init, NoDrop, Reading, Threads
    <2>2. Typed /\ NoDrop /\ LocksHeld /\ Reading /\ [Next]_vars
            => (Typed /\ NoDrop /\ LocksHeld /\ Reading)'
      BY <1>1, NextTyped, NextNoDrop, NextLocks, NextReading
    <2>3. Typed /\ LocksHeld /\ Reading => HolderGoes
      BY DEF Typed, SharedType, LocksHeld, LogPlaces, Reading, HolderGoes, LogGoes, DiagGoes
    <2> QED
      BY <2>1, <2>2, <2>3, PTL DEF Spec
  <1>2. CASE "prune" \notin Workload
    <2>1. Init => Typed /\ LocksHeld /\ NoPrune
      BY InitTyped, InitLocks DEF Init, NoPrune
    <2>2. Typed /\ LocksHeld /\ NoPrune /\ [Next]_vars => (Typed /\ LocksHeld /\ NoPrune)'
      BY <1>2, NextTyped, NextLocks, NextNoPrune
    <2>3. Typed /\ LocksHeld /\ NoPrune => HolderGoes
      BY DEF Typed, SharedType, LocksHeld, NoPrune, HolderGoes, LogGoes, DiagGoes
    <2> QED
      BY <2>1, <2>2, <2>3, PTL DEF Spec
  <1> QED
    BY <1>1, <1>2

-----------------------------------------------------------------------------
(* Every call winds down *)

\* A record whose row is written saves its capture after a free_space.
CaptureLeft(t) == IF t \in Requests /\ rid[t] # None THEN 15 ELSE 0

\* What a query of the log goes through before its statement.
QueryLeft(t) == CASE query[t] = "reopen" -> 3 [] query[t] = "reopened" -> 2
                  [] query[t] = "opening" -> 1 [] query[t] \in {"none", "open", "writer"} -> 0

Stage(t) ==
  CASE pc[t] = "serving" -> 30 [] pc[t] = "logged" -> 29 [] pc[t] = "bodies" -> 25
    [] pc[t] = "capture" -> 15
    [] pc[t] = "free" -> 9 + CaptureLeft(t)
    [] pc[t] \in {"freed", "freeDropLog"} -> 8 + CaptureLeft(t)
    [] pc[t] = "freeDiag" -> 7 + CaptureLeft(t)
    [] pc[t] = "freeMinKeep" -> 3 + QueryLeft(t) + CaptureLeft(t)
    [] pc[t] = "freeDropDiag" -> 2 + CaptureLeft(t)
    [] pc[t] = "row" -> 2 + QueryLeft(t)
    [] pc[t] = "prune" -> 3
    [] pc[t] \in {"cleared", "pruned", "stats"} -> 2
    [] pc[t] \in {"dropLog", "clear", "committed", "read", "statsCache"} -> 1
    [] pc[t] \in {"done", "idle"} -> 0

CallsLeft(t) == IF t \in Admins THEN MaxCalls - calls[t] ELSE 0

\* What a thread has yet to do: calls to begin, and the one under way.
StepsLeft(t) == 10 * CallsLeft(t) + Stage(t)

CallsBounded == \A t \in Admins : calls[t] <= MaxCalls

LEMMA QueryLeftType == ASSUME Typed, NEW t \in Threads PROVE QueryLeft(t) \in 0..3
  <1>1. query[t] \in Queries
    BY DEF Typed, LocalType
  <1> QED
    BY <1>1 DEF QueryLeft, Queries

LEMMA StageType == ASSUME Typed, NEW t \in Threads PROVE Stage(t) \in Nat
  <1>1. pc[t] \in Places
    BY DEF Typed, PlaceType
  <1>2. CaptureLeft(t) \in Nat
    BY DEF CaptureLeft
  <1>3. QueryLeft(t) \in 0..3
    BY QueryLeftType
  <1>4. pc[t] \in {"freeMinKeep", "row"} => Stage(t) \in Nat
    BY <1>2, <1>3 DEF Stage
  <1>5. pc[t] \notin {"freeMinKeep", "row"} => Stage(t) \in Nat
    BY <1>1, <1>2 DEF Stage, Places
  <1> QED
    BY <1>4, <1>5

LEMMA CallsLeftType == ASSUME Typed, CallsBounded, NEW t \in Threads PROVE CallsLeft(t) \in Nat
  BY StoreAssumption DEF Typed, BoundsType, CallsBounded, CallsLeft

\* A call begins, or goes on with a later stage.
Begun(t) ==
  /\ t \in Admins /\ calls[t] < MaxCalls /\ calls' = [calls EXCEPT ![t] = @ + 1]
  /\ pc[t] = "idle"
  /\ \E l \in {"free", "cleared", "prune", "row", "stats"} : pc' = [pc EXCEPT ![t] = l]

LEMMA StepStage ==
  ASSUME Typed, NEW t \in Threads, Step(t), Typed'
  PROVE  Begun(t) \/ (calls' = calls /\ Stage(t)' < Stage(t))
  <1>0. /\ pc \in [Threads -> Places] /\ rid \in [Requests -> Nat \cup {None}]
        /\ query \in [Threads -> Queries]
        /\ pc[t] \in RecordPlaces => t \in Requests /\ rid[t] # None
        /\ Requests \cap Admins = {} /\ Threads = Requests \cup Admins
    BY StoreAssumption DEF Typed, PlaceType, LocalType, Threads
  <1>a. QueryLeft(t) \in 0..3 /\ QueryLeft(t)' \in 0..3
    <2>1. query[t] \in Queries /\ query'[t] \in Queries
      BY DEF Typed, LocalType
    <2> QED
      BY <2>1 DEF QueryLeft, Queries
  <1>1. CASE CallFree(t) \/ ClearLog(t) \/ PruneSelect(t) \/ CallRead(t) \/ StatsBegin(t)
    BY <1>1 DEF CallFree, ClearLog, PruneSelect, CallRead, StatsBegin, Begin, Goto, Begun
  <1>2. CASE LogRow(t) \/ LogRowFails(t)
    <2>1. /\ pc[t] = "serving" /\ calls' = calls
          /\ \/ pc' = [pc EXCEPT ![t] = "logged"]
             \/ \E l \in {"free", "done"} : pc' = [pc EXCEPT ![t] = l]
      BY <1>2 DEF LogRow, LogRowFails, FreeOr, Goto, bounds
    <2>2. CaptureLeft(t)' \in {0, 15}
      BY DEF CaptureLeft
    <2> QED
      BY <1>0, <2>1, <2>2 DEF Stage
  <1>3. CASE LogBodies(t) \/ LogBodiesFails(t)
    <2>1. /\ pc[t] = "bodies" /\ calls' = calls
          /\ \E l \in {"free", "capture"} : pc' = [pc EXCEPT ![t] = l]
      BY <1>3 DEF LogBodies, LogBodiesFails, FreeOr, Goto, bounds
    <2>2. CaptureLeft(t)' \in {0, 15}
      BY DEF CaptureLeft
    <2> QED
      BY <1>0, <2>1, <2>2 DEF Stage
  <1>4. CASE SaveCapture(t) \/ SaveCaptureFails(t)
    <2>1. /\ pc[t] = "capture" /\ calls' = calls /\ rid' = [rid EXCEPT ![t] = None]
          /\ \E l \in {"free", "done"} : pc' = [pc EXCEPT ![t] = l]
      BY <1>4 DEF SaveCapture, SaveCaptureFails, FreeOr, Goto, bounds
    <2>2. CaptureLeft(t)' = 0
      BY <1>0, <2>1 DEF CaptureLeft
    <2> QED
      BY <1>0, <2>1, <2>2 DEF Stage
  <1>5. CASE FreeLog(t) \/ FreeLogFails(t) \/ DropLog(t) \/ FreeDiagLock(t)
    <2>1. /\ calls' = calls /\ rid' = rid
          /\ \/ pc[t] = "free" /\ pc' = [pc EXCEPT ![t] = "freed"]
             \/ pc[t] = "free" /\ pc' = [pc EXCEPT ![t] = "freeDropLog"]
             \/ pc[t] = "freeDropLog" /\ pc' = [pc EXCEPT ![t] = "freeDiag"]
             \/ pc[t] = "dropLog" /\ pc' = [pc EXCEPT ![t] = "idle"]
             \/ pc[t] = "freeDiag" /\ pc' = [pc EXCEPT ![t] = "freeMinKeep"]
      BY <1>5 DEF FreeLog, FreeLogFails, DropLog, FreeDiagLock, Goto, local, bounds
    <2>2. CaptureLeft(t)' = CaptureLeft(t) /\ CaptureLeft(t) \in Nat
      BY <2>1 DEF CaptureLeft
    <2> QED
      BY <1>0, <1>a, <2>1, <2>2 DEF Stage
  <1>6. CASE FreeDiag(t) \/ FreeDiagFails(t) \/ FreeDropDiag(t)
    <2>1. /\ calls' = calls /\ rid' = rid
          /\ \/ /\ pc[t] = "freeMinKeep" /\ pc' = [pc EXCEPT ![t] = "freeDropDiag"]
             \/ /\ pc[t] \in {"freeMinKeep", "freeDropDiag"}
                /\ pc' = [pc EXCEPT ![t] = AfterFree(t)]
      BY <1>6 DEF FreeDiag, FreeDiagFails, FreeDropDiag, Goto, local, bounds
    <2>2. CaptureLeft(t)' = CaptureLeft(t) /\ CaptureLeft(t) \in Nat
      BY <2>1 DEF CaptureLeft
    <2>3. \/ AfterFree(t) \in {"done", "dropLog", "idle"}
          \/ AfterFree(t) = "capture" /\ CaptureLeft(t) = 15
      BY DEF AfterFree, CaptureLeft
    <2>4. Stage(t) >= 2 + CaptureLeft(t)
      BY <1>a, <2>1, <2>2 DEF Stage
    <2>5. pc[t] = "freeMinKeep" => Stage(t) > 2 + CaptureLeft(t)
      BY <1>a, <2>2 DEF Stage
    <2>6. CASE pc[t] = "freeMinKeep" /\ pc' = [pc EXCEPT ![t] = "freeDropDiag"]
      <3>1. Stage(t)' = 2 + CaptureLeft(t)
        BY <1>0, <2>2, <2>6 DEF Stage
      <3> QED
        BY <2>1, <2>5, <2>6, <3>1
    <2>7. CASE pc' = [pc EXCEPT ![t] = AfterFree(t)]
      <3>1. Stage(t)' < 2 + CaptureLeft(t)
        BY <1>0, <2>2, <2>3, <2>7 DEF Stage
      <3>2. Stage(t) \in Nat /\ Stage(t)' \in Nat
        <4>1. Stage(t)' \in {0, 1, 15}
          BY <1>0, <2>3, <2>7 DEF Stage
        <4> QED
          BY <4>1, StageType
      <3> QED
        BY <2>1, <2>2, <2>4, <3>1, <3>2
    <2> QED
      BY <2>1, <2>6, <2>7
  <1>7. CASE ClearBodies(t) \/ PruneBodies(t) \/ PruneCommit(t) \/ ReadBodies(t) \/ StatsScan(t)
             \/ StatsCache(t)
    <2>1. /\ calls' = calls
          /\ \/ pc[t] = "prune" /\ pc' = [pc EXCEPT ![t] = "pruned"]
             \/ pc[t] = "pruned" /\ pc' = [pc EXCEPT ![t] = "committed"]
             \/ pc[t] = "stats" /\ pc' = [pc EXCEPT ![t] = "statsCache"]
             \/ /\ pc[t] \in {"clear", "read", "statsCache"}
                /\ pc' = [pc EXCEPT ![t] = "idle"]
      BY <1>7 DEF ClearBodies, PruneBodies, PruneCommit, ReadBodies, StatsScan, StatsCache, Goto,
                  bounds
    <2> QED
      BY <1>0, <2>1 DEF Stage
  <1>8. CASE ReadRow(t)
    <2>1. /\ calls' = calls /\ pc[t] = "row"
          /\ \E l \in {"read", "idle"} : pc' = [pc EXCEPT ![t] = l]
      BY <1>8 DEF ReadRow, Goto, bounds
    <2>2. Stage(t)' \in {0, 1}
      BY <1>0, <2>1 DEF Stage
    <2>3. Stage(t) \in Nat /\ Stage(t) >= 2
      BY <1>a, <2>1 DEF Stage
    <2> QED
      BY <2>1, <2>2, <2>3
  <1>9. CASE CountVersion(t)
    <2>1. calls' = calls /\ rid' = rid
      BY <1>9 DEF CountVersion, local, bounds
    <2>2. CaptureLeft(t)' = CaptureLeft(t) /\ CaptureLeft(t) \in Nat
      BY <2>1 DEF CaptureLeft
    <2> QED
      BY <1>0, <1>9, <2>1, <2>2, Counted DEF Stage, Goto
  <1>10. CASE ReopenLog(t) \/ PickReader(t) \/ OpenReader(t)
    <2>1. calls' = calls /\ rid' = rid /\ pc' = pc /\ pc[t] \in {"freeMinKeep", "row"}
      BY <1>10 DEF ReopenLog, PickReader, OpenReader, bounds
    <2>2. Source \in {"open", "opening", "writer"}
      BY DEF Source, Typed, SharedType
    <2>3. QueryLeft(t)' < QueryLeft(t)
      <3>1. \/ query[t] = "reopen" /\ query'[t] = "reopened"
            \/ query[t] = "reopened" /\ query'[t] \in {"open", "opening", "writer"}
            \/ query[t] = "opening" /\ query'[t] \in {"open", "writer"}
        BY <1>0, <1>10, <2>2 DEF ReopenLog, PickReader, OpenReader, RunsOn
      <3> QED
        BY <3>1 DEF QueryLeft
    <2>4. CaptureLeft(t)' = CaptureLeft(t) /\ CaptureLeft(t) \in Nat
      BY <2>1 DEF CaptureLeft
    <2> QED
      BY <1>a, <2>1, <2>3, <2>4 DEF Stage
  <1> QED
    BY <1>1, <1>2, <1>3, <1>4, <1>5, <1>6, <1>7, <1>8, <1>9, <1>10, Steps

\* Other threads stay where they are.
LEMMA StepOthers ==
  ASSUME Typed, NEW t \in Threads, Step(t), NEW u \in Threads \ {t}, Typed'
  PROVE  StepsLeft(u)' = StepsLeft(u)
  <1>1. pc' = pc \/ \E l : pc' = [pc EXCEPT ![t] = l]
    BY Steps DEF LogRow, LogRowFails, CountVersion, LogBodies, LogBodiesFails, SaveCapture,
       SaveCaptureFails, CallFree, FreeLog, FreeLogFails, DropLog, FreeDiagLock, FreeDiag,
       FreeDiagFails, FreeDropDiag, ReopenLog, PickReader, OpenReader, ClearLog, ClearBodies,
       PruneSelect, PruneBodies, PruneCommit, CallRead, ReadRow, ReadBodies, StatsBegin,
       StatsScan, StatsCache, Goto, FreeOr
  <1>2. rid' = rid \/ \E i : rid' = [rid EXCEPT ![t] = i]
    BY Steps DEF LogRow, LogRowFails, CountVersion, LogBodies, LogBodiesFails, SaveCapture,
       SaveCaptureFails, CallFree, FreeLog, FreeLogFails, DropLog, FreeDiagLock, FreeDiag,
       FreeDiagFails, FreeDropDiag, ReopenLog, PickReader, OpenReader, ClearLog, ClearBodies,
       PruneSelect, PruneBodies, PruneCommit, CallRead, ReadRow, ReadBodies, StatsBegin,
       StatsScan, StatsCache, local
  <1>3. calls' = calls \/ calls' = [calls EXCEPT ![t] = @ + 1]
    BY StepStage DEF Begun
  <1>6. query' = query \/ \E q : query' = [query EXCEPT ![t] = q]
    BY Steps DEF local, Answered, RunsOn, AskLog, LogRow, LogRowFails, CountVersion, LogBodies,
       LogBodiesFails, SaveCapture, SaveCaptureFails, CallFree, FreeLog, FreeLogFails, DropLog,
       FreeDiagLock, FreeDiag, FreeDiagFails, FreeDropDiag, ReopenLog, PickReader, OpenReader,
       ClearLog, ClearBodies, PruneSelect, PruneBodies, PruneCommit, CallRead, ReadRow,
       ReadBodies, StatsBegin, StatsScan, StatsCache
  <1>4. /\ pc'[u] = pc[u] /\ (u \in Requests => rid'[u] = rid[u])
        /\ (u \in Admins => calls'[u] = calls[u]) /\ query'[u] = query[u]
    BY <1>1, <1>2, <1>3, <1>6 DEF Typed, PlaceType, LocalType, BoundsType
  <1>5. Stage(u)' = Stage(u)
    BY <1>4 DEF Stage, CaptureLeft, QueryLeft
  <1> QED
    BY <1>4, <1>5 DEF StepsLeft, CallsLeft

LEMMA StepLowers ==
  ASSUME Typed, CallsBounded, NEW t \in Threads, Step(t), Typed'
  PROVE  StepsLeft(t)' < StepsLeft(t)
  <1>1. Stage(t) \in Nat /\ CallsLeft(t) \in Nat
    BY StageType, CallsLeftType
  <1>2. CASE Begun(t)
    <2>1. CallsLeft(t)' = CallsLeft(t) - 1
      BY <1>2, StoreAssumption DEF Begun, CallsLeft, Typed, BoundsType
    <2>2. CaptureLeft(t)' = 0
      BY <1>2, StoreAssumption DEF Begun, CaptureLeft
    <2>3. pc'[t] \in {"free", "cleared", "prune", "row", "stats"}
      BY <1>2 DEF Begun, Typed, PlaceType
    <2>5. QueryLeft(t)' \in 0..3
      <3>1. query'[t] \in Queries
        BY DEF Typed, LocalType
      <3> QED
        BY <3>1 DEF QueryLeft, Queries
    <2>4. Stage(t)' \in 0..9
      BY <2>2, <2>3, <2>5 DEF Stage
    <2> QED
      BY <1>1, <2>1, <2>4 DEF StepsLeft
  <1>3. CASE calls' = calls /\ Stage(t)' < Stage(t)
    <2>1. CallsLeft(t)' = CallsLeft(t)
      BY <1>3 DEF CallsLeft
    <2>2. Stage(t)' \in Nat
      <3>1. pc'[t] \in Places /\ query'[t] \in Queries
        BY DEF Typed, PlaceType, LocalType
      <3>2. CaptureLeft(t)' \in Nat
        BY DEF CaptureLeft
      <3>3. QueryLeft(t)' \in 0..3
        BY <3>1 DEF QueryLeft, Queries
      <3>4. pc'[t] \in {"freeMinKeep", "row"} => Stage(t)' \in Nat
        BY <3>2, <3>3 DEF Stage
      <3>5. pc'[t] \notin {"freeMinKeep", "row"} => Stage(t)' \in Nat
        BY <3>1, <3>2 DEF Stage, Places
      <3> QED
        BY <3>4, <3>5
    <2> QED
      BY <1>1, <1>3, <2>1, <2>2 DEF StepsLeft
  <1> QED
    BY <1>2, <1>3, StepStage

LEMMA NextCallsBounded ==
  ASSUME Typed, CallsBounded, [Next]_vars, Typed'
  PROVE  CallsBounded'
  <1>1. CASE Migrate \/ Restart \/ UNCHANGED vars
    BY <1>1 DEF Migrate, Restart, vars, bounds, CallsBounded
  <1>2. ASSUME NEW t \in Threads, Step(t) PROVE CallsBounded'
    BY <1>2, StepStage, StoreAssumption DEF Begun, CallsBounded, Typed, BoundsType
  <1> QED
    BY <1>1, <1>2 DEF Next

\* A restart ends what is under way; it begins nothing.
LEMMA RestartLowers ==
  ASSUME Typed, CallsBounded, Restart, NEW t \in Threads
  PROVE  StepsLeft(t)' <= StepsLeft(t)
  <1>1. Stage(t) \in Nat /\ CallsLeft(t) \in Nat
    BY StageType, CallsLeftType
  <1>2. CallsLeft(t)' = CallsLeft(t)
    BY DEF Restart, CallsLeft
  <1>3. pc'[t] \in {"idle", "done"} \/ (pc'[t] = "serving" /\ pc[t] = "serving")
    BY DEF Restart
  <1>4. Stage(t)' <= Stage(t)
    <2>1. CASE pc'[t] \in {"idle", "done"}
      <3>1. Stage(t)' = 0
        BY <2>1 DEF Stage
      <3> QED
        BY <1>1, <3>1
    <2>2. CASE pc'[t] = "serving" /\ pc[t] = "serving"
      BY <2>2 DEF Stage
    <2> QED
      BY <1>3, <2>1, <2>2
  <1>5. Stage(t)' \in Nat
    <2>1. CASE pc'[t] \in {"idle", "done"}
      BY <2>1 DEF Stage
    <2>2. CASE pc'[t] = "serving"
      BY <2>2 DEF Stage
    <2> QED
      BY <1>3, <2>1, <2>2
  <1> QED
    BY <1>1, <1>2, <1>4, <1>5 DEF StepsLeft

\* A step migrates an old row, or restarts the process, which begins nothing,
\* or lowers what one thread has yet to do and leaves the others alone: with
\* StoreHolderGoes, no call waits in a circle and none goes on for ever.
THEOREM StoreWindsDown ==
  Spec => /\ [](\A t \in Threads : StepsLeft(t) \in Nat)
          /\ [][\/ legacy' # legacy /\ \A t \in Threads : StepsLeft(t)' = StepsLeft(t)
                \/ restarts' = restarts + 1 /\ \A t \in Threads : StepsLeft(t)' <= StepsLeft(t)
                \/ \E t \in Threads :
                     /\ StepsLeft(t)' < StepsLeft(t)
                     /\ \A u \in Threads \ {t} : StepsLeft(u)' = StepsLeft(u)]_vars
  <1>1. Init => Typed /\ CallsBounded
    BY InitTyped, StoreAssumption DEF Init, CallsBounded
  <1>2. Typed /\ CallsBounded /\ [Next]_vars => (Typed /\ CallsBounded)'
    BY NextTyped, NextCallsBounded
  <1>3. Typed /\ CallsBounded => \A t \in Threads : StepsLeft(t) \in Nat
    <2> SUFFICES ASSUME Typed, CallsBounded, NEW t \in Threads PROVE StepsLeft(t) \in Nat
      OBVIOUS
    <2>1. Stage(t) \in Nat /\ CallsLeft(t) \in Nat
      BY StageType, CallsLeftType
    <2> QED
      BY <2>1 DEF StepsLeft
  <1>4. Typed /\ CallsBounded /\ [Next]_vars =>
          [\/ legacy' # legacy /\ \A t \in Threads : StepsLeft(t)' = StepsLeft(t)
           \/ restarts' = restarts + 1 /\ \A t \in Threads : StepsLeft(t)' <= StepsLeft(t)
           \/ \E t \in Threads :
                /\ StepsLeft(t)' < StepsLeft(t)
                /\ \A u \in Threads \ {t} : StepsLeft(u)' = StepsLeft(u)]_vars
    <2> SUFFICES ASSUME Typed, CallsBounded, Next
                 PROVE  \/ /\ legacy' # legacy
                           /\ \A t \in Threads : StepsLeft(t)' = StepsLeft(t)
                        \/ /\ restarts' = restarts + 1
                           /\ \A t \in Threads : StepsLeft(t)' <= StepsLeft(t)
                        \/ \E t \in Threads :
                             /\ StepsLeft(t)' < StepsLeft(t)
                             /\ \A u \in Threads \ {t} : StepsLeft(u)' = StepsLeft(u)
      OBVIOUS
    <2>0. Typed'
      BY NextTyped
    <2>1. CASE Migrate
      <3>1. legacy' # legacy
        BY <2>1 DEF Migrate
      <3>2. \A t \in Threads : StepsLeft(t)' = StepsLeft(t)
        BY <2>1 DEF Migrate, local, bounds, StepsLeft, CallsLeft, Stage, CaptureLeft, QueryLeft
      <3> QED
        BY <3>1, <3>2
    <2>2. CASE Restart
      <3>1. restarts' = restarts + 1
        BY <2>2 DEF Restart
      <3> QED
        BY <2>2, <3>1, RestartLowers
    <2>3. CASE \E t \in Threads : Step(t)
      <3>1. PICK t \in Threads : Step(t)
        BY <2>3
      <3>2. StepsLeft(t)' < StepsLeft(t)
        BY <2>0, <3>1, StepLowers
      <3> QED
        BY <2>0, <3>1, <3>2, StepOthers
    <2> QED
      BY <2>1, <2>2, <2>3 DEF Next
  <1> QED
    BY <1>1, <1>2, <1>3, <1>4, PTL DEF Spec
=============================================================================
