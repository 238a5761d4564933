---------------------------- MODULE AccountPool ----------------------------
(***************************************************************************)
(* The account pool of devin_proxy/accounts.py: the Account objects the    *)
(* scheduler works on, the rows of store.accounts behind them, session     *)
(* pins in memory and in the store, and removal tombstones.                *)
(*                                                                         *)
(* The pool lock makes pick, release, reload and the in-memory half of     *)
(* pin, unpin and remove atomic.  Everything else interleaves: an Account  *)
(* object is changed by mark_ok / mark_fail without the lock, persist()    *)
(* first reads every column of the object and then writes them to the row, *)
(* and each admin handler is a store write followed by a separate reload.  *)
(*                                                                         *)
(* reload() builds NEW Account objects.  A generation number names the     *)
(* objects built by one reload; a request keeps the object it picked, so   *)
(* its release and its marks go to the generation it holds.                *)
(***************************************************************************)
EXTENDS Integers, FiniteSets

CONSTANTS
  Requests,      \* worker threads serving one chat request each
  Admins,        \* threads serving admin console calls
  Sessions,      \* session keys
  Tokens,        \* upstream credentials
  NoToken,       \* the owner of an id no row was inserted with
  NoSession,     \* a request without a session key
  Session,       \* Session[r]: the session key of request r
  Forced,         \* Forced[r]: the account id r is forced to, 0 when unforced
  ToolRequests,  \* requests that carry tools (they can meet the MCP retry)
  Caps,          \* the max_concurrent values an admin may set (0: no cap)
  Workload,      \* the operations the environment performs, of AllWork
  StoreErrors,   \* whether SQLite calls may fail (they are swallowed)
  MaxId,         \* bound: account rows ever inserted
  MaxGen         \* bound: reloads and restarts

Ids == 1..MaxId
Gens == 0..MaxGen

AllWork == {"patch", "probe", "remove", "add", "unpin", "flush", "restart"}

ASSUME BoundsAssumption == MaxId \in Nat /\ MaxGen \in Nat
ASSUME CapsAssumption == Caps \subseteq Nat /\ 0 \in Caps
ASSUME RequestsAssumption ==
  /\ IsFiniteSet(Requests)
  /\ ToolRequests \subseteq Requests
  /\ Session \in [Requests -> Sessions \cup {NoSession}]
  /\ NoSession \notin Sessions
  /\ NoToken \notin Tokens
  /\ Forced \in [Requests -> Ids \cup {0}]
  /\ Workload \subseteq AllWork
  /\ StoreErrors \in BOOLEAN

VARIABLES
  gen,        \* the generation Pool._accs holds
  live,       \* the keys of Pool._accs
  mem,        \* mem[g][i]: the mutable columns of account i's object of generation g
  inFlight,   \* inFlight[g][i]: in_flight of that object
  rows,       \* ids with a row in store.accounts
  table,      \* the mutable columns of the rows
  owner,      \* owner[i]: the token of the row ever inserted with id i
  nextId,     \* sqlite AUTOINCREMENT
  tomb,       \* tokens whose meta key "tomb:<hash>" is "1"
  pins,       \* Pool._pins (0: no entry)
  storePins,  \* store.sessions (0: no row)
  req,        \* the request threads
  adm         \* the admin threads

memory == <<gen, live, mem, inFlight>>
store == <<rows, table, owner, nextId, tomb>>
sticky == <<pins, storePins>>
vars == <<memory, store, sticky, req, adm>>

Columns == [disabled : BOOLEAN, max_concurrent : Caps, cooling : BOOLEAN]
Fresh == [disabled |-> FALSE, max_concurrent |-> 0, cooling |-> FALSE]

(***************************************************************************)
(* A request thread: between pick and release it is "stream", or          *)
(* "streamSave" / "streamEnd" when mark_fail ran before the generator's    *)
(* finally clause; after release it is "marking", then holds a snapshot    *)
(* while persist() waits for the store lock, then pins.                    *)
(***************************************************************************)
Holding == {"stream", "streamSave", "streamEnd"}
ReqPc == Holding \cup {"idle", "marking", "saveOk", "saveFail", "pin", "pinStore"}
IdleReq == [pc |-> "idle", id |-> 0, gen |-> 0, mcp |-> FALSE, snap |-> Fresh]

AdmPc == {"idle", "reload", "probe", "save", "delete", "pop", "insert", "unpin"}
IdleAdm == [pc |-> "idle", id |-> 0, gen |-> 0, snap |-> Fresh,
            token |-> NoToken, session |-> NoSession]

Holders(i) == {r \in Requests : req[r].pc \in Holding /\ req[r].id = i}

-----------------------------------------------------------------------------
(* Scheduling *)

AtCap_OffByOne(i) == mem[gen][i].max_concurrent # 0
                     /\ inFlight[gen][i] > mem[gen][i].max_concurrent
AtCap(i) == mem[gen][i].max_concurrent # 0
            /\ inFlight[gen][i] >= mem[gen][i].max_concurrent

Enabled(i) == i \in live /\ ~mem[gen][i].disabled

\* `exclude` stands for the accounts the caller tried, those whose model
\* allowlist does not serve the request and those that do not advertise it.
Avail(exclude) == {i \in live \ exclude : Enabled(i) /\ ~AtCap(i)}

Ready(S) == {i \in S : ~mem[gen][i].cooling}

\* The sort key is (in_flight, consecutive_fails, last_used); the last two
\* only break ties and are left open.
LeastBusy(S) == {i \in S : \A j \in S : inFlight[gen][i] <= inFlight[gen][j]}

Pinned(r) == IF Session[r] = NoSession THEN 0 ELSE pins[Session[r]]

Choices(r, exclude) ==
  LET avail == Avail(exclude) IN
  IF Forced[r] # 0 THEN {i \in {Forced[r]} : Enabled(i)}
  ELSE IF Pinned(r) \in Ready(avail) THEN {Pinned(r)}
  ELSE LeastBusy(IF Ready(avail) # {} THEN Ready(avail) ELSE avail)

\* Pool.pick.  A pick that finds nothing changes nothing and is left out.
Pick(r) ==
  /\ req[r].pc = "idle"
  /\ \E exclude \in SUBSET Ids : \E i \in Choices(r, exclude) :
       /\ inFlight' = [inFlight EXCEPT ![gen][i] = @ + 1]
       /\ req' = [req EXCEPT ![r] = [IdleReq EXCEPT !.pc = "stream", !.id = i, !.gen = gen]]
  /\ UNCHANGED <<gen, live, mem, store, sticky, adm>>

Released_NoFloor(r) == [inFlight EXCEPT ![req[r].gen][req[r].id] = @ - 1]

\* Pool.release, on the object the caller holds.
Released(r) ==
  [inFlight EXCEPT ![req[r].gen][req[r].id] = IF @ = 0 THEN 0 ELSE @ - 1]

\* The finally clause of the failover driver: the attempt's stream is over.
\* The request goes on to a mark, or its client is gone and nothing follows.
Release(r) ==
  /\ req[r].pc \in {"stream", "streamEnd"}
  /\ inFlight' = Released(r)
  /\ \/ /\ req[r].pc = "stream"
        /\ req' = [req EXCEPT ![r].pc = "marking"]
     \/ req' = [req EXCEPT ![r] = IdleReq]
  /\ UNCHANGED <<gen, live, mem, store, sticky, adm>>

\* The client of a buffered request goes away while its reply is handed out.
Abandon(r) ==
  /\ req[r].pc = "marking"
  /\ req' = [req EXCEPT ![r] = IdleReq]
  /\ UNCHANGED <<memory, store, sticky, adm>>

\* An "MCP configuration issue" error: the attempt's finally clause releases
\* the account, and the driver streams again on it without a new pick.
McpRetry(r) ==
  /\ req[r].pc = "stream" /\ r \in ToolRequests /\ ~req[r].mcp
  /\ inFlight' = Released(r)
  /\ req' = [req EXCEPT ![r].mcp = TRUE]
  /\ UNCHANGED <<gen, live, mem, store, sticky, adm>>

\* mark_ok / mark_fail change the object the caller holds and take the
\* snapshot persist() will write.
Marked(r, cooling, pc) ==
  LET object == [mem[req[r].gen][req[r].id] EXCEPT !.cooling = cooling] IN
  /\ mem' = [mem EXCEPT ![req[r].gen][req[r].id] = object]
  /\ req' = [req EXCEPT ![r].pc = pc, ![r].snap = object]
  /\ UNCHANGED <<gen, live, inFlight, store, sticky, adm>>

MarkOk(r) == req[r].pc = "marking" /\ Marked(r, FALSE, "saveOk")

\* Only a hard failure starts a cooldown.
MarkFail(r) ==
  \E hard \in BOOLEAN :
    LET cooling == hard \/ mem[req[r].gen][req[r].id].cooling IN
    \/ req[r].pc = "marking" /\ Marked(r, cooling, "saveFail")
    \/ req[r].pc = "stream" /\ Marked(r, cooling, "streamSave")

\* UPDATE accounts SET <every column> WHERE id=?: no effect without the row.
Written(i, columns) == IF i \in rows THEN [table EXCEPT ![i] = columns] ELSE table

AfterSave(q) ==
  CASE q.pc = "saveOk" -> [q EXCEPT !.pc = "pin", !.snap = Fresh]
    [] q.pc = "streamSave" -> [q EXCEPT !.pc = "streamEnd", !.snap = Fresh]
    [] q.pc = "saveFail" -> IdleReq

Persist(r) ==
  /\ req[r].pc \in {"saveOk", "saveFail", "streamSave"}
  /\ \/ table' = Written(req[r].id, req[r].snap)
     \/ StoreErrors /\ table' = table
  /\ req' = [req EXCEPT ![r] = AfterSave(@)]
  /\ UNCHANGED <<memory, rows, owner, nextId, tomb, sticky, adm>>

IsNewPin_FirstOnly(r) == Session[r] # NoSession /\ Pinned(r) = 0
IsNewPin(r) == Session[r] # NoSession /\ Pinned(r) # req[r].id

\* Pool.pin: the entry in memory, then a new pin is written to the store.
PinMem(r) ==
  /\ req[r].pc = "pin"
  /\ pins' = IF Session[r] = NoSession THEN pins ELSE [pins EXCEPT ![Session[r]] = req[r].id]
  /\ req' = [req EXCEPT ![r] = IF IsNewPin(r) THEN [@ EXCEPT !.pc = "pinStore"] ELSE IdleReq]
  /\ UNCHANGED <<memory, store, storePins, adm>>

PinStore(r) ==
  /\ req[r].pc = "pinStore"
  /\ \/ storePins' = [storePins EXCEPT ![Session[r]] = req[r].id]
     \/ StoreErrors /\ storePins' = storePins
  /\ req' = [req EXCEPT ![r] = IdleReq]
  /\ UNCHANGED <<memory, store, pins, adm>>

-----------------------------------------------------------------------------
(* The admin console *)

Goto(t, pc) == adm' = [adm EXCEPT ![t] = [IdleAdm EXCEPT !.pc = pc]]
GotoWith(t, pc, i) == adm' = [adm EXCEPT ![t] = [IdleAdm EXCEPT !.pc = pc, !.id = i, !.gen = gen]]

\* PATCH /api/accounts/{id} and the bulk switch: Pool.update writes the
\* given columns, then reloads.
Patch(t) ==
  /\ "patch" \in Workload /\ adm[t].pc = "idle"
  /\ \/ \E i \in live, disabled \in BOOLEAN, cap \in Caps :
          table' = Written(i, [table[i] EXCEPT !.disabled = disabled, !.max_concurrent = cap])
     \/ StoreErrors /\ live # {} /\ table' = table
  /\ Goto(t, "reload")
  /\ UNCHANGED <<memory, rows, owner, nextId, tomb, sticky, req>>

Carried_FromZero == [i \in Ids |-> 0]
Carried == [i \in Ids |-> IF i \in live \cap rows THEN inFlight[gen][i] ELSE 0]

\* Pool.reload: a new object per row, in_flight copied from the old one.
Reload(t) ==
  /\ adm[t].pc = "reload" /\ gen < MaxGen
  /\ gen' = gen + 1
  /\ live' = rows
  /\ mem' = [mem EXCEPT ![gen + 1] = table]
  /\ inFlight' = [inFlight EXCEPT ![gen + 1] = Carried]
  /\ Goto(t, "idle")
  /\ UNCHANGED <<store, sticky, req>>

\* list_accounts swallows a read error and returns no rows at all.
ReloadReadError(t) ==
  /\ StoreErrors /\ adm[t].pc = "reload" /\ gen < MaxGen
  /\ gen' = gen + 1
  /\ live' = {}
  /\ Goto(t, "idle")
  /\ UNCHANGED <<mem, inFlight, store, sticky, req>>

\* The connectivity test, identity refresh and quota refresh: the handler
\* gets the object, calls upstream, and then changes and persists that object.
Probe(t) ==
  /\ "probe" \in Workload /\ adm[t].pc = "idle"
  /\ \E i \in live : GotoWith(t, "probe", i)
  /\ UNCHANGED <<memory, store, sticky, req>>

\* Only the connectivity test clears the cooldown.
ProbeAnswered(t) ==
  /\ adm[t].pc = "probe"
  /\ \E cooling \in {FALSE, mem[adm[t].gen][adm[t].id].cooling} :
       LET object == [mem[adm[t].gen][adm[t].id] EXCEPT !.cooling = cooling] IN
       /\ mem' = [mem EXCEPT ![adm[t].gen][adm[t].id] = object]
       /\ adm' = [adm EXCEPT ![t].pc = "save", ![t].snap = object]
  /\ UNCHANGED <<gen, live, inFlight, store, sticky, req>>

ProbeFailed(t) ==
  /\ adm[t].pc = "probe" /\ Goto(t, "idle")
  /\ UNCHANGED <<memory, store, sticky, req>>

ProbeSave(t) ==
  /\ adm[t].pc = "save"
  /\ \/ table' = Written(adm[t].id, adm[t].snap)
     \/ StoreErrors /\ table' = table
  /\ Goto(t, "idle")
  /\ UNCHANGED <<memory, rows, owner, nextId, tomb, sticky, req>>

\* Pool.remove: tombstone, delete the row and its session rows, then drop
\* the object and its pins from memory.
RemoveTomb(t) ==
  /\ "remove" \in Workload /\ adm[t].pc = "idle"
  /\ \E i \in live :
       /\ \/ tomb' = tomb \cup {owner[i]}
          \/ StoreErrors /\ tomb' = tomb
       /\ GotoWith(t, "delete", i)
  /\ UNCHANGED <<memory, rows, table, owner, nextId, sticky, req>>

RemoveRow(t) ==
  /\ adm[t].pc = "delete"
  /\ \/ /\ rows' = rows \ {adm[t].id}
        /\ storePins' = [s \in Sessions |-> IF storePins[s] = adm[t].id THEN 0 ELSE storePins[s]]
     \/ StoreErrors /\ UNCHANGED <<rows, storePins>>
  /\ adm' = [adm EXCEPT ![t].pc = "pop"]
  /\ UNCHANGED <<memory, table, owner, nextId, tomb, pins, req>>

RemoveMem(t) ==
  /\ adm[t].pc = "pop"
  /\ live' = live \ {adm[t].id}
  /\ pins' = [s \in Sessions |-> IF pins[s] = adm[t].id THEN 0 ELSE pins[s]]
  /\ Goto(t, "idle")
  /\ UNCHANGED <<gen, mem, inFlight, store, storePins, req>>

\* Pool.add up to the duplicate check.  A manual add (console or OAuth)
\* lifts the tombstone; an import obeys it if it can be read.
AddCheck(t) ==
  /\ "add" \in Workload /\ adm[t].pc = "idle"
  /\ \E token \in Tokens, manual, unread \in BOOLEAN :
       /\ manual \/ unread \/ token \notin tomb
       /\ unread => StoreErrors /\ ~manual
       /\ \/ tomb' = IF manual THEN tomb \ {token} ELSE tomb
          \/ StoreErrors /\ tomb' = tomb
       /\ adm' = [adm EXCEPT ![t] = [IdleAdm EXCEPT !.pc = "insert", !.token = token]]
  /\ UNCHANGED <<memory, rows, table, owner, nextId, sticky, req>>

NewId_Reused == CHOOSE i \in 1..nextId : i \notin rows
NewId == nextId

\* The duplicate check and the INSERT: the token column is UNIQUE.
AddRow(t) ==
  /\ adm[t].pc = "insert"
  /\ \/ /\ StoreErrors \/ \E i \in rows : owner[i] = adm[t].token
        /\ Goto(t, "idle") /\ UNCHANGED <<rows, table, owner, nextId>>
     \/ /\ \A i \in rows : owner[i] # adm[t].token
        /\ nextId <= MaxId
        /\ rows' = rows \cup {NewId}
        /\ table' = [table EXCEPT ![NewId] = Fresh]
        /\ owner' = [owner EXCEPT ![NewId] = adm[t].token]
        /\ nextId' = nextId + 1
        /\ Goto(t, "reload")
  /\ UNCHANGED <<memory, tomb, sticky, req>>

\* Pool.unpin
UnpinMem(t) ==
  /\ "unpin" \in Workload /\ adm[t].pc = "idle"
  /\ \E s \in Sessions :
       /\ pins' = [pins EXCEPT ![s] = 0]
       /\ adm' = [adm EXCEPT ![t] = [IdleAdm EXCEPT !.pc = "unpin", !.session = s]]
  /\ UNCHANGED <<memory, store, storePins, req>>

UnpinStore(t) ==
  /\ adm[t].pc = "unpin"
  /\ \/ storePins' = [storePins EXCEPT ![adm[t].session] = 0]
     \/ StoreErrors /\ storePins' = storePins
  /\ Goto(t, "idle")
  /\ UNCHANGED <<memory, store, pins, req>>

-----------------------------------------------------------------------------
(* Time, the pin flusher, and restarts *)

\* Time passes every cooldown_until that account i has anywhere.
CooldownOver(i) ==
  LET over(thread) == IF thread.id = i THEN [thread EXCEPT !.snap.cooling = FALSE] ELSE thread IN
  /\ mem' = [g \in Gens |-> [mem[g] EXCEPT ![i].cooling = FALSE]]
  /\ table' = [table EXCEPT ![i].cooling = FALSE]
  /\ req' = [r \in Requests |-> over(req[r])]
  /\ adm' = [t \in Admins |-> over(adm[t])]
  /\ UNCHANGED <<gen, live, inFlight, rows, owner, nextId, tomb, sticky>>

(***************************************************************************)
(* Stamps and the time that passes between two steps are left open, so any *)
(* entry may be older than the TTL where it is looked at.  Memory and      *)
(* store do not agree on it: an entry has its own stamp, which a request   *)
(* renews without writing it, a row has `updated', and each is compared    *)
(* with the clock of its own moment.                                       *)
(***************************************************************************)

\* _flush_pins, under the pool's lock: old entries leave memory.  (touch_pins,
\* which follows, moves stamps of rows only.)
FlushMem ==
  /\ "flush" \in Workload
  /\ \E old \in SUBSET Sessions \ {{}} :
       pins' = [s \in Sessions |-> IF s \in old THEN 0 ELSE pins[s]]
  /\ UNCHANGED <<memory, store, storePins, req, adm>>

\* prune_pins at the end of a flush, and free_space: old rows are deleted,
\* among them rows of sessions whose entry was renewed in memory meanwhile.
PruneRows ==
  /\ "flush" \in Workload
  /\ \E old \in SUBSET Sessions \ {{}} :
       storePins' = [s \in Sessions |-> IF s \in old THEN 0 ELSE storePins[s]]
  /\ UNCHANGED <<memory, store, pins, req, adm>>

\* The process stops anywhere.  Pool.__init__ rebuilds the pool, prunes the
\* session rows that are stale by now and loads the others.
Restart ==
  /\ "restart" \in Workload /\ gen < MaxGen
  /\ gen' = gen + 1
  /\ live' = rows
  /\ mem' = [mem EXCEPT ![gen + 1] = table]
  /\ inFlight' = [inFlight EXCEPT ![gen + 1] = [i \in Ids |-> 0]]
  /\ \E stale \in SUBSET Sessions :
       storePins' = [s \in Sessions |-> IF s \in stale THEN 0 ELSE storePins[s]]
  /\ pins' = storePins'
  /\ req' = [r \in Requests |-> IdleReq]
  /\ adm' = [t \in Admins |-> IdleAdm]
  /\ UNCHANGED store

-----------------------------------------------------------------------------
(* A store left by an earlier run of the program, just loaded. *)
Init ==
  /\ gen = 0
  /\ nextId \in 1..(MaxId + 1)
  /\ rows = 1..(nextId - 1) /\ live = rows
  /\ table \in [Ids -> {c \in Columns : ~c.disabled /\ ~c.cooling}]
  /\ \A i \in Ids \ rows : table[i] = Fresh
  /\ owner \in [Ids -> Tokens \cup {NoToken}]
  /\ \A i \in Ids : owner[i] = NoToken <=> i \notin rows
  /\ \A i, j \in rows : owner[i] = owner[j] => i = j
  /\ mem = [g \in Gens |-> table]
  /\ inFlight = [g \in Gens |-> [i \in Ids |-> 0]]
  /\ tomb = {}
  /\ pins = [s \in Sessions |-> 0] /\ storePins = pins
  /\ req = [r \in Requests |-> IdleReq]
  /\ adm = [t \in Admins |-> IdleAdm]

RequestStep(r) ==
  \/ Pick(r) \/ Release(r) \/ Abandon(r) \/ McpRetry(r) \/ MarkOk(r) \/ MarkFail(r)
  \/ Persist(r) \/ PinMem(r) \/ PinStore(r)

AdminStep(t) ==
  \/ Patch(t) \/ Reload(t) \/ ReloadReadError(t) \/ Probe(t) \/ ProbeAnswered(t)
  \/ ProbeFailed(t) \/ ProbeSave(t) \/ RemoveTomb(t) \/ RemoveRow(t) \/ RemoveMem(t)
  \/ AddCheck(t) \/ AddRow(t) \/ UnpinMem(t) \/ UnpinStore(t)

Next ==
  \/ \E r \in Requests : RequestStep(r)
  \/ \E t \in Admins : AdminStep(t)
  \/ \E i \in Ids : CooldownOver(i)
  \/ FlushMem \/ PruneRows
  \/ Restart

Spec == Init /\ [][Next]_vars

-----------------------------------------------------------------------------
(* Properties *)

\* What a thread may be: away from "idle" it names an id sqlite handed out.
ReqType ==
  {q \in [pc : ReqPc, id : Ids \cup {0}, gen : Gens, mcp : BOOLEAN, snap : Columns] :
     q.pc # "idle" => q.id \in Ids}
AdmType ==
  {a \in [pc : AdmPc, id : Ids \cup {0}, gen : Gens, snap : Columns,
           token : Tokens \cup {NoToken},
           session : Sessions \cup {NoSession}] :
     /\ a.pc \in {"probe", "save", "delete", "pop"} => a.id \in Ids
     /\ a.pc = "unpin" => a.session \in Sessions}

MemoryType == /\ gen \in Gens /\ live \subseteq Ids
              /\ mem \in [Gens -> [Ids -> Columns]]
              /\ inFlight \in [Gens -> [Ids -> Nat]]
StoreType == /\ nextId \in 1..(MaxId + 1) /\ rows \subseteq Ids
             /\ table \in [Ids -> Columns]
             /\ owner \in [Ids -> Tokens \cup {NoToken}]
             /\ tomb \subseteq Tokens \cup {NoToken}
StickyType == /\ pins \in [Sessions -> Ids \cup {0}]
              /\ storePins \in [Sessions -> Ids \cup {0}]
ThreadsType == req \in [Requests -> ReqType] /\ adm \in [Admins -> AdmType]

\* Every variable has its type; in_flight never goes below zero and no id
\* outside the ids sqlite handed out is used.
TypeOK == MemoryType /\ StoreType /\ StickyType /\ ThreadsType

\* The count the scheduler sees for an account is never below the number of
\* requests streaming on it, whichever generation's object they hold: reloads
\* and removals in the middle of a request never hide a stream.
InFlightCovers ==
  \A i \in live : Cardinality(Holders(i)) <= inFlight[gen][i]

\* Why it holds: ids are handed out once, an account is out of sqlite before
\* it leaves memory, and nothing streams on one that memory does not have yet.
IdsAllotted ==
  /\ \A i \in rows \cup live : i < nextId
  /\ \A i \in Ids : Holders(i) # {} => i < nextId
  /\ \A t \in Admins : adm[t].pc \in {"delete", "pop"} => adm[t].id < nextId
PoppedIsDeleted == \A t \in Admins : adm[t].pc = "pop" => adm[t].id \notin rows
UnloadedIsIdle == \A i \in rows \ live : Holders(i) = {}
InFlightInv == IdsAllotted /\ PoppedIsDeleted /\ UnloadedIsIdle /\ InFlightCovers

\* An unforced pick never starts a stream beyond the account's cap
\* (README: the scheduler skips capped accounts).
StartsUnderCap ==
  \A r \in Requests, i \in Ids :
    (Forced[r] = 0 /\ req[r].pc = "idle" /\ req'[r].pc = "stream" /\ req'[r].id = i) =>
      LET cap == mem[gen][i].max_concurrent IN
      cap # 0 => Cardinality(Holders(i)') <= cap
UnderCap == [][StartsUnderCap]_vars

\* Memory and store agree on which accounts exist but for the account an
\* admin call is adding or removing right now: however adds, removals and
\* reloads overlap, the scheduler neither loses a stored account nor keeps a
\* deleted one.
PoolMirrorsRows ==
  /\ \A i \in rows \ live : \E t \in Admins : adm[t].pc = "reload"
  /\ \A i \in live \ rows : \E t \in Admins : adm[t].pc = "pop" /\ adm[t].id = i

\* An account disabled in the console stays disabled until the console
\* changes it: no other store write sets `disabled` back.
DisableSticks ==
  [][\A i \in rows \cap rows' :
       (table[i].disabled /\ ~table'[i].disabled) =>
         \E t \in Admins : adm[t].pc = "idle" /\ adm'[t].pc = "reload"]_vars

\* Everything that remembers an account by id (a pin, a stored pin, a request
\* or admin call in progress with its unsaved snapshot) names the same
\* credential for as long as it remembers it: a late persist or a sticky pick
\* never lands on another account that took over the id.
Remembered ==
  {pins[s] : s \in Sessions} \cup {storePins[s] : s \in Sessions}
    \cup {req[r].id : r \in Requests} \cup {adm[t].id : t \in Admins}
IdentityStable ==
  [][\A i \in Remembered \ {0} : owner'[i] = owner[i]]_vars

\* When no request and no console call is under way, no session is bound to
\* one account in memory and to another in the store: a restart may lose a pin
\* (its row went first, Pool.pin writes new pins only) but never sends a
\* session back to an account it has left.
Quiet == /\ \A r \in Requests : req[r].pc = "idle"
         /\ \A t \in Admins : adm[t].pc = "idle"
OneAccount(s) == pins[s] = 0 \/ storePins[s] = 0 \/ pins[s] = storePins[s]
PinsAgree == Quiet => \A s \in Sessions : OneAccount(s)
=============================================================================
