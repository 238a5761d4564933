---------------------------- MODULE RequestStore ----------------------------
(***************************************************************************)
(* The request log of devin_proxy/store.py: a row per request in the log   *)
(* database, its bodies and captures in the diagnostic database under the  *)
(* row's id, and the calls that write, read, prune and drop them from the  *)
(* request threads, the console and the maintenance thread.                *)
(*                                                                         *)
(* Each database has one writer lock.  A call that holds one lock only is  *)
(* one action, or two where it counts the version up after its commit;     *)
(* where a call asks for a lock while it holds another, both are explicit. *)
(* Queries of the log run on a reader connection (WAL) once one is open,   *)
(* and on the writer under its lock until then.                            *)
(***************************************************************************)
EXTENDS Naturals, FiniteSets

CONSTANTS
  Requests,       \* request threads, each recorded once
  Admins,         \* console calls and the maintenance thread
  Nobody, None,
  Legacy,         \* the owner of bodies of the old combined database
  LegacyIds,      \* ids of rows in it that still hold bodies
  Workload,       \* the calls of Admins, and "restart"
  SpaceErrors,    \* whether a write may fail with a full disk
  ReaderErrors,   \* whether the log's reader connection may fail to open
  ReaderStart,    \* the reader at first: "untried", or "open" by an earlier query
  MaxRows, EmergencyRows,  \* _MAX_ROWS, _EMERGENCY_ROWS
  MaxCalls,       \* bound: calls of each admin
  MaxRestarts     \* bound

Threads == Requests \cup Admins

ASSUME StoreAssumption ==
  /\ Requests \cap Admins = {} /\ Nobody \notin Threads
  /\ None \notin Nat /\ None \notin [id : Nat, owner : Requests]
  /\ Legacy \notin Requests
  /\ LegacyIds \subseteq Nat /\ {SpaceErrors, ReaderErrors} \subseteq BOOLEAN
  /\ ReaderStart \in {"untried", "open"}
  /\ MaxRows \in Nat \ {0} /\ EmergencyRows \in Nat \ {0}
  /\ MaxCalls \in Nat /\ MaxRestarts \in Nat

\* The rows of request_blobs by kind; a capture is a row of its own table.
Kinds == {"request", "events"}
Owners == Requests \cup {Legacy}
Queries == {"none", "reopen", "reopened", "opening", "open", "writer"}

VARIABLES
  requests,    \* the log table: records [id, owner]
  nextId,      \* its AUTOINCREMENT sequence
  blobs,       \* request_blobs: records [id, kind, owner]
  captures,    \* records [id, owner]
  legacy,      \* LegacyIds not yet migrated
  logOpen,     \* _lcon is not None
  reader,      \* of the log: "open", or its opening is "untried" or "tried"
  llock, dlock, \* holder of _llock and _dlock
  version,     \* _data_version
  cache,       \* _stats_cache, one window: None or [ver, rows]
  (* the threads *)
  pc,
  rid,         \* a request's row id, from the insert to the end
  todo,        \* what free_space was asked to drop
  query,       \* where a query of the log stands, and what it runs on
  sel,         \* rows selected by prune_requests
  page,        \* what get_request holds: None, or a row and its bodies' owners
  scan,        \* what stats_overview holds: None, or [ver, rows]
  calls, restarts

tables == <<requests, nextId, blobs, captures, legacy>>
locks == <<llock, dlock>>
log == <<logOpen, reader>>
local == <<rid, todo, query, sel, page, scan>>
bounds == <<calls, restarts>>
vars == <<tables, log, locks, version, cache, pc, local, bounds>>

-----------------------------------------------------------------------------
(* Helpers *)

Goto(t, l) == pc' = [pc EXCEPT ![t] = l]

\* The n rows with the highest ids: ORDER BY id DESC LIMIT n.
Newest(rows, n) == {r \in rows : Cardinality({s \in rows : s.id > r.id}) < n}

\* INSERT OR REPLACE of one body per kind.
Put(table, id, kinds, owner) ==
  {b \in table : ~(b.id = id /\ b.kind \in kinds)}
    \cup {[id |-> id, kind |-> k, owner |-> owner] : k \in kinds}

\* Old captures are pruned; how many of the successful and of the failed ones
\* survive depends on counters (_CAP_KEEP, every 20th save) left open here.
Trims(table) == SUBSET table

Begin(t, name) ==
  /\ t \in Admins /\ pc[t] = "idle" /\ name \in Workload
  /\ calls[t] < MaxCalls
  /\ calls' = [calls EXCEPT ![t] = @ + 1]
  /\ restarts' = restarts

\* _lcon_or_reopen: a writer opened anew invalidates the reader.
OpenLog == logOpen' = TRUE /\ reader' = IF logOpen THEN reader ELSE "untried"

\* free_space returns to its caller.
AfterFree(t) ==
  IF t \in Requests THEN IF rid[t] # None THEN "capture" ELSE "done"
  ELSE IF "log" \in todo[t] THEN "dropLog" ELSE "idle"

\* After a failed write: _maybe_auto_cleanup runs free_space, or not (it is
\* rate-limited by the clock).
FreeOr(t, l) == \E next \in {"free", l} : Goto(t, next)

-----------------------------------------------------------------------------
(* log_request and save_capture, in a request thread *)

\* Where a call stands between its commit and _data_version += 1, still under
\* the log lock, and where it goes on.
AfterCommit ==
  [logged |-> "bodies", freed |-> "freeDiag", cleared |-> "clear", committed |-> "idle"]

CountVersion(t) ==
  /\ pc[t] \in DOMAIN AfterCommit
  /\ version' = version + 1
  /\ llock' = Nobody
  /\ Goto(t, AfterCommit[pc[t]])
  /\ UNCHANGED <<tables, log, dlock, cache, local, bounds>>

NewId_Reused == CHOOSE n \in 1..nextId :
                  /\ \A r \in requests : r.id < n
                  /\ \A m \in 1..nextId : (\A r \in requests : r.id < m) => n <= m
NewId == nextId

LogRow(t) ==
  /\ t \in Requests /\ pc[t] = "serving" /\ llock = Nobody
  /\ LET all == requests \cup {[id |-> NewId, owner |-> t]}
     IN \E rows \in {all, Newest(all, MaxRows)} : requests' = rows
  /\ rid' = [rid EXCEPT ![t] = NewId]
  /\ nextId' = nextId + 1
  /\ OpenLog /\ llock' = t
  /\ Goto(t, "logged")
  /\ UNCHANGED <<blobs, captures, legacy, dlock, version, cache, todo, query, sel, page, scan,
                 bounds>>

LogRowFails_GoesOn(t) ==
  /\ SpaceErrors /\ t \in Requests /\ pc[t] = "serving" /\ llock = Nobody
  /\ OpenLog
  /\ FreeOr(t, "bodies")
  /\ UNCHANGED <<tables, locks, version, cache, local, bounds>>

LogRowFails(t) ==
  /\ SpaceErrors /\ t \in Requests /\ pc[t] = "serving" /\ llock = Nobody
  /\ OpenLog
  /\ FreeOr(t, "done")
  /\ UNCHANGED <<tables, locks, version, cache, local, bounds>>

\* Bodies that the request did not produce are not written.
LogBodies(t) ==
  /\ t \in Requests /\ pc[t] = "bodies" /\ dlock = Nobody
  /\ \E kinds \in SUBSET Kinds : blobs' = Put(blobs, rid[t], kinds, t)
  /\ Goto(t, "capture")
  /\ UNCHANGED <<requests, nextId, captures, legacy, log, locks, version, cache, local, bounds>>

LogBodiesFails(t) ==
  /\ SpaceErrors /\ t \in Requests /\ pc[t] = "bodies" /\ dlock = Nobody
  /\ FreeOr(t, "capture")
  /\ UNCHANGED <<tables, log, locks, version, cache, local, bounds>>

SaveCapture(t) ==
  /\ t \in Requests /\ pc[t] = "capture" /\ dlock = Nobody
  /\ captures' \in Trims({c \in captures : c.id # rid[t]}
                           \cup {[id |-> rid[t], owner |-> t]}) \cup {captures}
  /\ rid' = [rid EXCEPT ![t] = None]
  /\ Goto(t, "done")
  /\ UNCHANGED <<requests, nextId, blobs, legacy, log, locks, version, cache, todo, query,
                 sel, page, scan, bounds>>

SaveCaptureFails(t) ==
  /\ SpaceErrors /\ t \in Requests /\ pc[t] = "capture" /\ dlock = Nobody
  /\ rid' = [rid EXCEPT ![t] = None]
  /\ FreeOr(t, "done")
  /\ UNCHANGED <<tables, log, locks, version, cache, todo, query, sel, page, scan, bounds>>

Record(t) == LogRow(t) \/ CountVersion(t) \/ LogRowFails(t) \/ LogBodies(t) \/ LogBodiesFails(t)
               \/ SaveCapture(t) \/ SaveCaptureFails(t)

-----------------------------------------------------------------------------
(* free_space: from the console, the maintenance thread or a failed write *)

CallFree(t) ==
  /\ Begin(t, "free")
  /\ \E what \in SUBSET ({"diag", "log"} \cap Workload) : todo' = [todo EXCEPT ![t] = what]
  /\ Goto(t, "free")
  /\ UNCHANGED <<tables, log, locks, version, cache, rid, query, sel, page, scan>>

FreeLog(t) ==
  /\ pc[t] = "free" /\ llock = Nobody
  /\ requests' = Newest(requests, EmergencyRows)
  /\ OpenLog /\ llock' = t
  /\ Goto(t, "freed")
  /\ UNCHANGED <<nextId, blobs, captures, legacy, dlock, version, cache, local, bounds>>

FreeLogFails_InsideLock(t) ==
  /\ SpaceErrors /\ pc[t] = "free" /\ llock = Nobody
  /\ OpenLog /\ llock' = t
  /\ Goto(t, "freeDropLog")
  /\ UNCHANGED <<tables, dlock, version, cache, local, bounds>>

FreeLogFails(t) ==
  /\ SpaceErrors /\ pc[t] = "free" /\ llock = Nobody
  /\ OpenLog
  /\ Goto(t, "freeDropLog")
  /\ UNCHANGED <<tables, locks, version, cache, local, bounds>>

\* drop_log_db: the file goes, and with it the AUTOINCREMENT sequence.
DropLog(t) ==
  /\ pc[t] \in {"freeDropLog", "dropLog"} /\ llock = Nobody
  /\ requests' = {} /\ nextId' = 1
  /\ logOpen' = FALSE /\ reader' = "untried"
  /\ Goto(t, IF pc[t] = "freeDropLog" THEN "freeDiag" ELSE "idle")
  /\ UNCHANGED <<blobs, captures, legacy, locks, version, cache, local, bounds>>

\* _q: without a writer it opens the database again, under the log lock.  Then
\* it takes the reader; the first query to find none opens one, and until that
\* is done, or for good when it fails, the others run on the writer.
Source_IgnoresReader == "writer"
Source == CASE reader = "open" -> "open"
            [] reader = "untried" -> "opening"
            [] reader = "tried" -> "writer"

RunsOn(t, source) ==
  /\ query' = [query EXCEPT ![t] = source]
  /\ reader' = IF source = "opening" THEN "tried" ELSE reader

AskLog(t) == RunsOn(t, IF logOpen THEN Source ELSE "reopen")

ReopenLog(t) ==
  /\ query[t] = "reopen" /\ pc[t] \in {"freeMinKeep", "row"} /\ llock = Nobody
  /\ OpenLog
  /\ query' = [query EXCEPT ![t] = "reopened"]
  /\ UNCHANGED <<tables, locks, version, cache, pc, rid, todo, sel, page, scan, bounds>>

PickReader(t) ==
  /\ query[t] = "reopened" /\ pc[t] \in {"freeMinKeep", "row"}
  /\ RunsOn(t, Source)
  /\ UNCHANGED <<tables, logOpen, locks, version, cache, pc, rid, todo, sel, page, scan, bounds>>

OpenReader(t) ==
  /\ query[t] = "opening" /\ pc[t] \in {"freeMinKeep", "row"}
  /\ \/ reader' = "open" /\ query' = [query EXCEPT ![t] = "open"]
     \/ ReaderErrors /\ reader' = reader /\ query' = [query EXCEPT ![t] = "writer"]
  /\ UNCHANGED <<tables, logOpen, locks, version, cache, pc, rid, todo, sel, page, scan, bounds>>

QueryLog(t) == ReopenLog(t) \/ PickReader(t) \/ OpenReader(t)

\* The statement itself waits for the log lock only if it runs on the writer.
Ready(t) == query[t] = "open" \/ (query[t] = "writer" /\ llock = Nobody)
Answered(t) == query' = [query EXCEPT ![t] = "none"]

FreeDiagLock(t) ==
  /\ pc[t] = "freeDiag" /\ dlock = Nobody
  /\ dlock' = t
  /\ AskLog(t)
  /\ Goto(t, "freeMinKeep")
  /\ UNCHANGED <<tables, logOpen, llock, version, cache, rid, todo, sel, page, scan, bounds>>

FreeDiag(t) ==
  /\ pc[t] = "freeMinKeep" /\ dlock = t
  /\ Ready(t) /\ Answered(t)
  /\ LET kept == Newest(requests, EmergencyRows)
     IN blobs' = {b \in blobs : kept = {} \/ \E r \in kept : r.id <= b.id}
  /\ captures' \in Trims(captures)
  /\ dlock' = Nobody
  /\ Goto(t, IF "diag" \in todo[t] THEN "freeDropDiag" ELSE AfterFree(t))
  /\ UNCHANGED <<requests, nextId, legacy, log, llock, version, cache, rid, todo, sel, page, scan,
                 bounds>>

\* A delete before the query, or the one after it, fails.
FreeDiagFails(t) ==
  /\ SpaceErrors /\ pc[t] = "freeMinKeep" /\ dlock = t /\ query[t] # "opening"
  /\ dlock' = Nobody
  /\ Answered(t)
  /\ Goto(t, "freeDropDiag")
  /\ UNCHANGED <<tables, log, llock, version, cache, rid, todo, sel, page, scan, bounds>>

\* drop_diag_db
FreeDropDiag(t) ==
  /\ pc[t] = "freeDropDiag" /\ dlock = Nobody
  /\ blobs' = {} /\ captures' = {}
  /\ Goto(t, AfterFree(t))
  /\ UNCHANGED <<requests, nextId, legacy, log, locks, version, cache, local, bounds>>

FreeSpace(t) == QueryLog(t) \/ FreeLog(t) \/ FreeLogFails(t) \/ DropLog(t) \/ FreeDiagLock(t)
                  \/ FreeDiag(t) \/ FreeDiagFails(t) \/ FreeDropDiag(t)

-----------------------------------------------------------------------------
(* clear_requests and prune_requests *)

ClearLog(t) ==
  /\ Begin(t, "clear") /\ llock = Nobody
  /\ requests' = {}
  /\ OpenLog /\ llock' = t
  /\ Goto(t, "cleared")
  /\ UNCHANGED <<nextId, blobs, captures, legacy, dlock, version, cache, local>>

ClearBodies(t) ==
  /\ pc[t] = "clear" /\ dlock = Nobody
  /\ \/ blobs' = {} /\ captures' = {}
     \/ SpaceErrors /\ UNCHANGED <<blobs, captures>>
  /\ Goto(t, "idle")
  /\ UNCHANGED <<requests, nextId, legacy, log, locks, version, cache, local, bounds>>

\* The log lock is held until the bodies are gone; readers see the rows
\* until the commit.
PruneSelect(t) ==
  /\ Begin(t, "prune") /\ llock = Nobody
  /\ \E rows \in SUBSET requests \ {{}} : sel' = [sel EXCEPT ![t] = rows]
  /\ OpenLog /\ llock' = t
  /\ Goto(t, "prune")
  /\ UNCHANGED <<tables, dlock, version, cache, rid, todo, query, page, scan>>

PruneBodies(t) ==
  /\ pc[t] = "prune" /\ dlock = Nobody
  /\ LET gone == {r.id : r \in sel[t]}
     IN \/ /\ blobs' = {b \in blobs : b.id \notin gone}
           /\ captures' = {c \in captures : c.id \notin gone}
        \/ SpaceErrors /\ UNCHANGED <<blobs, captures>>
  /\ Goto(t, "pruned")
  /\ UNCHANGED <<requests, nextId, legacy, log, locks, version, cache, local, bounds>>

PruneCommit(t) ==
  /\ pc[t] = "pruned" /\ llock = t
  /\ requests' = requests \ sel[t]
  /\ sel' = [sel EXCEPT ![t] = {}]
  /\ Goto(t, "committed")
  /\ UNCHANGED <<nextId, blobs, captures, legacy, log, locks, version, cache, rid, todo, query,
                 page, scan, bounds>>

Prune(t) == ClearLog(t) \/ ClearBodies(t) \/ PruneSelect(t) \/ PruneBodies(t) \/ PruneCommit(t)

-----------------------------------------------------------------------------
(* Readers: get_request and stats_overview *)

\* The row first, its bodies in a second query.
CallRead(t) ==
  /\ Begin(t, "read")
  /\ AskLog(t)
  /\ Goto(t, "row")
  /\ UNCHANGED <<tables, logOpen, locks, version, cache, rid, todo, sel, page, scan>>

ReadRow(t) ==
  /\ pc[t] = "row" /\ Ready(t) /\ Answered(t)
  /\ \/ /\ \E r \in requests : page' = [page EXCEPT ![t] = [row |-> r, owners |-> {}]]
        /\ Goto(t, "read")
     \/ page' = page /\ Goto(t, "idle")
  /\ UNCHANGED <<tables, log, locks, version, cache, rid, todo, sel, scan, bounds>>

ReadBodies(t) ==
  /\ pc[t] = "read"
  /\ page' = [page EXCEPT ![t].owners =
                {b.owner : b \in {c \in blobs : c.id = page[t].row.id}}]
  /\ Goto(t, "idle")
  /\ UNCHANGED <<tables, log, locks, version, cache, rid, todo, query, sel, scan, bounds>>

Cached == cache # None /\ cache.ver = version

\* A cached overview of the current version is served as it is.  Otherwise the
\* version is read, and a connection taken: without a reader the writer, opened
\* if it must be without the log lock.
StatsBegin(t) ==
  /\ Begin(t, "stats")
  /\ ~Cached
  /\ scan' = [scan EXCEPT ![t] = [ver |-> version, rows |-> {}]]
  /\ IF reader = "open" THEN UNCHANGED log ELSE OpenLog
  /\ query' = [query EXCEPT ![t] = IF reader = "open" THEN "open" ELSE "writer"]
  /\ Goto(t, "stats")
  /\ UNCHANGED <<tables, locks, version, cache, rid, todo, sel, page>>

StatsScan(t) ==
  /\ pc[t] = "stats" /\ Ready(t) /\ Answered(t)
  /\ scan' = [scan EXCEPT ![t].rows = requests]
  /\ Goto(t, "statsCache")
  /\ UNCHANGED <<tables, log, locks, version, cache, rid, todo, sel, page, bounds>>

StatsCache_VersionAfter(t) ==
  /\ pc[t] = "statsCache"
  /\ cache' = [scan[t] EXCEPT !.ver = version]
  /\ scan' = [scan EXCEPT ![t] = None]
  /\ Goto(t, "idle")
  /\ UNCHANGED <<tables, log, locks, version, rid, todo, query, sel, page, bounds>>

StatsCache(t) ==
  /\ pc[t] = "statsCache"
  /\ cache' = scan[t]
  /\ scan' = [scan EXCEPT ![t] = None]
  /\ Goto(t, "idle")
  /\ UNCHANGED <<tables, log, locks, version, rid, todo, query, sel, page, bounds>>

Read(t) == CallRead(t) \/ ReadRow(t) \/ ReadBodies(t)
             \/ StatsBegin(t) \/ StatsScan(t) \/ StatsCache(t)

-----------------------------------------------------------------------------
(* The background migration of the old combined database, and restarts *)

\* The old columns are cleared whether or not the diagnostic write succeeded.
Migrate ==
  /\ dlock = Nobody
  /\ \E i \in legacy :
       /\ legacy' = legacy \ {i}
       /\ \/ blobs' = Put(blobs, i, Kinds, Legacy)
          \/ SpaceErrors /\ blobs' = blobs
  /\ UNCHANGED <<requests, nextId, captures, log, locks, version, cache, pc, local, bounds>>

\* The process stops anywhere and is started again; what was committed stays.
Restart ==
  /\ "restart" \in Workload /\ restarts < MaxRestarts
  /\ restarts' = restarts + 1
  /\ pc' = [t \in Threads |-> IF t \in Admins THEN "idle"
                              ELSE IF pc[t] = "serving" THEN "serving" ELSE "done"]
  /\ logOpen' = TRUE /\ reader' = "untried" /\ llock' = Nobody /\ dlock' = Nobody
  /\ version' = 0 /\ cache' = None
  /\ rid' = [t \in Requests |-> None]
  /\ todo' = [t \in Threads |-> {}]
  /\ query' = [t \in Threads |-> "none"]
  /\ sel' = [t \in Admins |-> {}]
  /\ page' = [t \in Admins |-> None] /\ scan' = [t \in Admins |-> None]
  /\ UNCHANGED <<tables, calls>>

Init ==
  /\ requests = {} /\ nextId = 1 /\ blobs = {} /\ captures = {} /\ legacy = LegacyIds
  /\ logOpen = TRUE /\ reader = ReaderStart /\ llock = Nobody /\ dlock = Nobody
  /\ version = 0 /\ cache = None
  /\ pc = [t \in Threads |-> IF t \in Requests THEN "serving" ELSE "idle"]
  /\ rid = [t \in Requests |-> None]
  /\ todo = [t \in Threads |-> {}]
  /\ query = [t \in Threads |-> "none"]
  /\ sel = [t \in Admins |-> {}]
  /\ page = [t \in Admins |-> None] /\ scan = [t \in Admins |-> None]
  /\ calls = [t \in Admins |-> 0] /\ restarts = 0

\* A call that is under way, or a record that is due, goes on.
Step(t) == Record(t) \/ CallFree(t) \/ FreeSpace(t) \/ Prune(t) \/ Read(t)

Next == (\E t \in Threads : Step(t)) \/ Migrate \/ Restart

Spec == Init /\ [][Next]_vars

\* Every thread is a thread of the operating system, its critical sections
\* are finite, and SQLite waits for a busy file at most five seconds.  Calls
\* are finitely many, so no lock is taken and given back for ever.
FairSpec == Spec /\ \A t \in Threads : WF_vars(Step(t))

-----------------------------------------------------------------------------
(* Properties *)

TypeOK ==
  /\ requests \subseteq [id : Nat, owner : Requests]
  /\ nextId \in Nat \ {0}
  /\ blobs \subseteq [id : Nat, kind : Kinds, owner : Owners]
  /\ captures \subseteq [id : Nat, owner : Requests]
  /\ legacy \subseteq LegacyIds
  /\ logOpen \in BOOLEAN /\ reader \in {"untried", "tried", "open"}
  /\ llock \in Threads \cup {Nobody} /\ dlock \in Threads \cup {Nobody}
  /\ version \in Nat
  /\ cache \in [ver : Nat, rows : SUBSET [id : Nat, owner : Requests]] \cup {None}
  /\ rid \in [Requests -> Nat \cup {None}]
  /\ todo \in [Threads -> SUBSET {"diag", "log"}]
  /\ query \in [Threads -> Queries]
  /\ sel \in [Admins -> SUBSET [id : Nat, owner : Requests]]
  /\ calls \in [Admins -> Nat] /\ restarts \in Nat

\* Whatever is stored under the id of a row is that request's own: the detail
\* page never shows the bodies or the capture of another request.
BodiesBelong ==
  \A r \in requests : \A b \in blobs \cup captures : b.id = r.id => b.owner = r.owner

\* The page put together from two queries is of one request.
PageOfOneRequest ==
  \A t \in Admins : page[t] # None => page[t].owners \subseteq {page[t].row.owner}

\* An overview served from the cache counts exactly the rows of the log, once
\* the commits are counted (between the two a call still holds the log lock).
Settled == \A t \in Threads : pc[t] \notin DOMAIN AfterCommit
StatsFresh == Cached /\ Settled => cache.rows = requests

\* Whoever asks for a lock gets it: every record and every call ends.
EveryCallEnds == \A t \in Threads : []<>(pc[t] \in {"idle", "done"})
=============================================================================
