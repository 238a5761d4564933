# devin-proxy: specification and proofs

devin-proxy serves the OpenAI chat and Responses APIs from a pool of upstream
accounts.  It is a FastAPI process: an event loop, a pool of worker threads
that run the synchronous request drivers, executor threads for WebSocket
replies, and background threads (TTL flusher, disk maintenance, migration).
State is in memory, guarded by a handful of locks, and in three SQLite files.
This directory holds TLA+ models of the parts of it in which threads, locks,
retries and failures meet, the TLC runs that check them, and TLAPS proofs.

Sources are named relative to `src/devin_proxy/`.

## 1. Inventory

| Component | State | Operations | Talks to | Hard about it | Correct when |
|---|---|---|---|---|---|
| Account pool (`accounts.py`, `admin_routes/accounts.py`) | `_accs` (Account objects: `in_flight`, flags, cooldown), `_pins`, the generation of objects made by the last reload | pick, release, mark_ok/mark_fail, persist, pin/unpin, flush, reload, add, import, remove, patch, probes | request drivers, console, core store | objects replaced under running requests; memory and store written under different locks; restart between the two | the counter covers what streams; the cap holds; ids never change meaning; pins agree; memory and rows list the same accounts |
| Failover driver (`app.py` `_iter_chat`) | attempt and retry counters, tried set, terminal error, buffered reply | pick, build, stream, settle, wait, deliver | pool, upstream, transport | loop bounds extended by the body, an inner loop that repeats a call, errors before and after content, client leaving | bounded, one slot per call, one verdict per pick, one reply per client |
| Request life (`app.py`, `responses.py`) | key slots, `InflightTracker`, one generator or one WebSocket handler + pump thread + queue per request | admit, refuse, stream, close, record | failover driver, store, web server | generators closed at a yield, a thread that cannot be interrupted, sends that fail | slots exact, one row per request, no false "completed" |
| Request log (`store.py`) | log and diag databases, `_llock`, `_dlock`, `_data_version`, `_stats_cache` | log_request, save_capture, free_space, drop, clear, prune, readers, migration | requests, console, maintenance | locks nested in two orders, dropped files, ids used across two databases, disk full anywhere | no deadlock, bodies belong to their row, statistics current |
| Core store (`store.py`) | accounts, sessions, api_keys, meta, `_meta_cache` | single statements under `_clock` | all | cache filled outside the lock | cache equals table |
| Upstream reader (`upstream.py`) | JWT cache, partial frame | stream_chat, get_user_jwt | upstream, driver | frames split anywhere | independent of chunking; every stream ends with one terminal |
| Responses items (`responses.py`, `ToolAgg` of `app.py`) | open item, indexes, tool-call table | feed, open, delta, close, complete | driver, client | calls that are continued or named late, two argument styles, three handlers that must agree | every item is closed, deltas add up to it, the final answer is the streamed one |
| Model catalogue (`models.py`) | `_remote`, `_refreshing`, meta row | refresh, resolve, served_by | upstream, store, scheduler | partial outage, concurrent refresh, restart | one refresh at a time, memory and row agree, no account is left out unheard |
| OAuth logins (`accounts.py`, `admin_routes/oauth.py`) | `_flows` | start (with sweep), cancel, complete | pool, core store, upstream | two completes, a complete against a cancel, an account deleted before it is named | one account per login, none after a confirmed cancel |
| Live feed (`admin_routes/live.py`, `InflightTracker` of `app.py`) | `_subs`, a 1-slot queue and two tasks per tab | notify, kick, handshake, push, subscribe, expire | every worker thread, the event loop, browsers | notifications from threads against tasks that build and send frames, dead tabs | no change stays unseen, dead tabs are closed |
| Console login, keys and settings (`admin*.py`, other `admin_routes/`) | signed cookies, meta rows | forms over single store calls | store | read-modify-write of a settings row | partly modelled (clean-up routes) |
| `creds.py`, `proto.py`, `__main__.py`, front end | none | start-up reading, descriptors, arguments, rendering | | | not modelled: no shared state |

Every hazard found while reading, with its line, is in `PROJECT.json`
under `hazards`, with the properties that cover it.

## 2. Modules

| Module | Models | Extended / used by |
|---|---|---|
| `AccountPool` | pool + its rows + console calls on it | `MCAccountPool` (TLC), `AccountPoolProofs` (TLAPS) |
| `Failover` | `_iter_chat` for one request against an abstract pool | checked directly, `FailoverProofs` (TLAPS) |
| `ReplyStream` | abstract: what one request promises its client | instantiated by `Failover` |
| `RequestLife` | key slots, generators, WebSocket pump, log rows | `MCRequestLife` (TLC), `RequestLifeProofs` (TLAPS) |
| `RequestStore` | log and diag databases and their locks | checked directly, `RequestStoreProofs` (TLAPS) |
| `ResponseItems` | events of a reply to Responses items, streamed and not | checked directly, `ResponseItemsProofs` (TLAPS) |
| `ModelCatalog` | refresh, persistence and use of the model catalogue | checked directly, `ModelCatalogProofs` (TLAPS) |
| `ConnectFrames` | `stream_chat` byte by byte | `MCConnectFrames` (TLC), `ConnectFramesProofs` (TLAPS) |
| `FrameReader` | abstract: what `stream_chat` promises, without bytes or reads | instantiated by `ConnectFrames` |
| `LiveFeed` | live feed: workers, event loop, tabs | extended by `Console` |
| `LoginFlows` | OAuth logins | extended by `Console` |
| `Console` | both: logins change the pool the feed shows | checked directly, `ConsoleProofs` (TLAPS) |

### AccountPool

Threads are `Requests` (one `_iter_chat` each, reduced to its pool calls) and
`Admins` (one console call or start-up import each), with a program counter
(`req[r].pc`, `adm[t].pc`) at each point where the code holds no lock.  A call
under `Pool._lock` or under the store's `_clock` is one action; where the code
leaves one lock and takes another (mark then persist, pin in memory then in
the store, tombstone then row then memory, check then insert), there are two.

* `mem`, `inFlight` are indexed by **generation**: `reload` builds new
  Account objects, and a request keeps the object it picked.  A step of a
  request that finishes touches the generation it holds, the scheduler reads
  the current one.
* `rows`, `table`, `owner`, `nextId`, `tomb`, `storePins` are the SQLite side.
* `owner` is the credential behind an id; SQLite's AUTOINCREMENT is `nextId`.
* The store's `_resilient` decorator swallows errors: with `StoreErrors`
  every store write may have no effect and every read may answer nothing.
* `McpRetry` is the branch of the driver that repeats a call after the
  `finally` clause already released the account.
* Pins expire twice: `FlushMem` drops entries of memory by their own stamps,
  `PruneRows` (and `Restart`) rows of the store by theirs, at another moment.  Stamps
  are left open, so either may drop any set of sessions at any time.

Abstractions: the cooldown is a Boolean that ends at any time; ties between
equally busy accounts are broken either way (the code compares fails and
last_used); the model allowlist and the served-by filter are part of the
arbitrary `exclude` set of a pick; a mark and the snapshot that persist writes
are one action.  Initially the store holds what an earlier run may have left.

### Failover and ReplyStream

One action per branch of `_iter_chat`.  The upstream answers with any message
sequence or any terminal error `stream_chat` can produce, abstracted to what
the driver tells apart: hard (cools the account), asks to wait, an MCP issue,
a cut connection.  The pool may return any account the request may use or
none.  The time budget of the waits is nondeterministic.  `ReplyStream` is the
promise: pieces of one upstream call, then one verdict; a buffered reply is
all or nothing.  `Promise == Reply!Spec` is the refinement.

### RequestLife

One request per transport: `plain`, `chat` and `responses` (server-sent
events from a synchronous generator), `ws`.  A generator is suspended at a
yield (`yield`, `preamble`, `tailYield`, `last`) and may be closed there once
the client is gone: inside the `try` clause that records the abort, outside it
does not, exactly as in the two generator functions.  A streaming response
whose client is gone may be dropped before its generator was ever started
(external: the web framework cancels the response task).  The WebSocket handler
runs in the event loop, its pump in a thread; `cancel_event` is read only in
`_backoff_wait`, so a pump that streams is not stopped.

### RequestStore

`_llock` and `_dlock` are variables; a call that needs one lock at a time is
one action per critical section, or two where it commits and then counts
`_data_version` up.  The two places that ask for a lock while
holding one are explicit: `prune_requests` (log, then diag) and `free_space`
(diag, then whatever its query of the log needs).

`_q` is modelled step by step (`query`): it re-opens a dropped log database under
`_llock`; takes the reader connection if one is open (`reader`); opens one if
nobody has tried; and runs on the writer, under `_llock`, if another thread is
opening it or the opening failed.  The statements of `get_request`, of the
overview and of `free_space` go this way.  A query of the diag database is one step.

A row is `[id, owner]`; a body carries the request it was written for, so mixing
is visible.  The retention counters are left open: what survives a trim is any
subset.

Not modelled here: the `:memory:` fall-back (for the log database it is a reader
that never opens), the `responses` table, VACUUM and checkpoints; the session rows
that `free_space` prunes are `PruneRows` of `AccountPool`.

### ResponseItems

`_sse` and `_ws_stream` contain the same translation twice; the module has it
once, with `transport` for the one place where they differ (an exception of the
driver).  `out` holds the generator's locals `open_kind`, `out_idx`, `fc_open`,
`fc_items` and the log of the events sent; `agg` is the `ToolAgg` object.  A
text is a sequence of numbered pieces, so "the deltas add up" can be stated.
Each of the three kinds of delta is one action and includes everything the loop
body does for it: feed, close, open, send.  The upstream's habits are the
environment: argument frames repeat what came before or continue it (`style`); a
continuation may begin with all that came before (`EchoPieces`), where
`ToolAgg.feed` guesses wrong; and with `Interleaved = FALSE` a call ends before the
next item begins.  Events that carry several deltas are successive actions, in the order of the code.

### ModelCatalog

A thread is asked for a refresh by `maybe_refresh` or by the console, passes
the guard on `_refreshing` under `_lock`, collects source by source without a
lock, publishes under `_lock`, saves, and clears the flag.  A restart loads the saved
row, or nothing: `_load` passes over every failure.  `Eligible` is the test
`_pick` makes with the answer of `served_by`.

### ConnectFrames and FrameReader

The upstream's bytes are fixed at the start (`frames`, laid end to end in
`wire`); the network delivers any number of them at a time (`Receive`), may end
the body after any byte (`BodyEnds`) or break (`Breaks`).  The inner loop takes
one frame per action: `pending` is cut exactly as the code cuts it, with
`HasFrame` the test and `First`/`Rest` the slices.  What a payload holds is
given by functions (`Inflate`, `Unparsable`, `TrailerSays`) that stand for gzip,
protobuf and JSON; `ErrScope` keeps the order in which the code blames account,
provider and request.  The generator is suspended at `yield`, where its caller may
close it.  After an error its only caller leaves the loop, so the call is then
over.  `Promise == Reader!Spec` maps frames to their events and forgets bytes.

### LiveFeed, LoginFlows and Console

What the console shows is a version number per part: the pool, the in-flight
list, and what changes without a notification (cooldowns that run out, names,
the data version).  A worker changes its part and then calls `notify`, two
actions with other threads in between.  An error event is the exception:
`InflightTracker.event` changes the list and returns (`ErrorEvent`), and the feed hears of it
from the mark or the release of the account that the driver makes next
(`AccountFailed`); `call_soon_threadsafe` is `kicks`; a
1-slot queue is membership in `queue`.  On the event loop one task runs at a
time, so what a task does between two awaits is one action, except that the
frame is built from two reads (`Read`, then `Build`) between which only worker
threads run (`LoopStep`).  The one-second tick may come at any time.

In `LoginFlows` every lock-protected step of `start_flow`, `cancel_flow` and
`complete_flow` is an action, and so are the exchange with the upstream, the
insertion, the reload and the naming.  The exchange returns any token or fails.
`Console` composes them: a login that reloads the pool (`Added`) and an account
that is deleted (`Removed`) are changes the feed has to show, a name that is
learned later (`Named`) is not announced.  The threads of `Removers` also serve requests:
they change the in-flight list and fail.

## 3. Runs

| Run | Instance | What it asks |
|---|---|---|
| `pool_in_flight` | 2 requests, 2 admin threads, 1 credential, caps {0,1}, 2 ids, 1 reload; patch, remove, add | `InFlightCovers`, `UnderCap`; `PoolMirrorsRows`: memory and rows hold the same accounts |
| `pool_pins` | 1 request with a session, 1 admin thread, 2 accounts; remove, unpin, flusher, 2 restarts | `PinsAgree` |
| `pool_all` | 1 request (session, forced, MCP retry), 1 admin, every console call, failing store, 1 reload or restart | `TypeOK`, `IdentityStable` |
| `failover` | 2 accounts, 4 attempts and 2 reconnects (the code's own constants), 1 wait, 2 pieces | `AttemptsBounded`, `StreamsAreCounted`, `EveryPickJudged`, `NoSecondTry`, the refinement `Promise`, `Terminates` |
| `store` | 2 requests, 2 admin threads, one call each of free, prune, read, stats; the reader connection is open | `BodiesBelong`, `PageOfOneRequest`, `StatsFresh`, `EveryCallEnds` |
| `store_faults` | 1 request, 1 admin thread with 2 calls (no prune), full disk, drops, clear, read, stats, restart, one legacy row, a reader connection not opened yet that may fail to open | `TypeOK`, `EveryCallEnds` |
| `life` | four requests, one per transport; three share a key with limit 1, one has a key without limit | `SlotsExact`, `ServedUnderLimit`, `LoggedOnce`, `Truthful`, `AllQuiet` |
| `items` | 2 calls, one of a custom tool, 6 deltas, both transports and argument styles | `CallsWhole`, `WellBracketed`, `DoneIsStreamed`, `FinalIsStreamed`, `TransportsAgree` |
| `catalog` | 2 accounts, 2 models, a URL, 2 threads, 2 refreshes, 1 restart | `ExclusionJustified`, `SavedIsServed`, `NeverOlder`, `SyncEnds` |
| `frames` | series of up to 3 frames of 4 payloads (empty, corrupt, a trailer with an error, one without), every flag pair, every cut | `InTime`, the refinement `Promise`, `Ends` |
| `console` | 1 tab bound to a cookie, 2 threads completing the same login, a thread that deletes accounts and serves requests, 1 further change, 2 declarations | `NoLostWakeup`, `OneAccountPerLogin`, `ShownInTheEnd`, `StaleCloses` |
| `bug_store_deadlock` | drop, prune and free on two threads, the reader connection open at first | `EveryCallEnds` fails |

Why the bounds are enough.  The pool hazards need two parties and one id (a
release against a reload, a persist against a patch).  One reload gives old and new
objects of an account at the same time; several reloads are left to the proofs.
A second id is there because an id might be re-used; the two restarts of
`pool_pins` let a pin be loaded, changed and loaded again.  The driver's counters
are bounded by its constants; 4 attempts over 2 accounts exhaust the accounts before the
attempts and, after reconnects and a wait, the other way round.  In the store a lock cycle
needs two threads, a mixed page three (writer, pruner, reader).  In
`RequestLife` requests meet only in the slots of their key: three contenders
for one slot cover "free while another is refused".  Six deltas are enough for
two calls of two frames each with a text before, between or after them, and for
an item kind that comes back.  Two refreshes show every order of two
collections, publications and saves; an account is wrongly left out only in
relation to one other account and one other model.  The reader's state is
`pending` and a flag, so a frame before, at and behind the cut are enough, and
payloads of zero to two bytes give every boundary of a header and a body.
Tabs meet only in `_kick`, so one tab against three threads shows every race of the
feed; a login needs two calls and one cancel.  The bounds `MaxId`,
`MaxGen`, `MaxPieces`, `MaxCalls`, `MaxRestarts`, `MaxFrames`, `MaxChanges`, `MaxSaid` appear only in guards (and in
the types they induce) and only stop the environment or an AUTOINCREMENT
counter; `MaxRows` and `EmergencyRows` are the code's own constants, made
small so that trimming happens.

`Workload` selects the console calls of an instance.  It keeps the instances
small; what a workload leaves out for another reason is what section 5 lists as
not holding.  So do `ToolRequests`, `Interleaved` and `ReaderStart`: `Interleaved = FALSE` keeps
the whole hazard of responses.py:630 out of run `items`, and `ReaderStart = "open"` the
second half of the one of store.py:734 out of run `store`.

Deadlock checking is on except for `RequestStore`, whose admin threads stop
after `MaxCalls` calls (a thread that waits for ever is found by
`EveryCallEnds`), `ModelCatalog`, whose refreshes stop after `MaxSyncs`
(`SyncEnds`), `ResponseItems`, which ends with its response, and `Console`, where
nothing has to happen once every tab is closed.

### Fairness

* `Failover`: weak fairness of the driver.  It runs in its own worker thread,
  upstream reads have a timeout, `_backoff_wait` is bounded.
* `RequestLife`: weak fairness of every handler and every pump.  Executor
  threads and the loop are scheduled by the operating system; each driver
  run ends by `Failover!Terminates`.  Nothing forces a client to leave.
* `RequestStore`: weak fairness of each thread's whole step.  Critical
  sections are finite, SQLite's busy timeout is five seconds.  Calls are
  finitely many, so no thread can be overtaken for ever and strong fairness
  of the locks (which Python does not promise) is not needed.
* `ModelCatalog`: weak fairness of each refreshing thread; every source is read
  with a timeout (15 or 20 seconds).  Nothing has to ask for a refresh.
* `ConnectFrames`: weak fairness of the reader.  Reads have a timeout
  (`httpx.Timeout`), and the driver asks for the next event until it closes the
  generator.  Nothing makes the caller close.
* `LiveFeed`: weak fairness of a worker's pending notification, of `_kick` and of
  each tab's handler: threads and loop callbacks are scheduled, the wait has a
  timeout of one second, and a send that hangs is ended by the server's ping.
  Nothing makes a browser open, ask or leave, or a login be completed.
* `AccountPool`, `ResponseItems`: safety only.

## 4. Proofs

`AccountPoolProofs` (TLAPS, SMT and Zenon backends) proves for every set of
requests, admin threads, sessions and credentials, and every bound:

* `PoolTypeOK`: `Spec => []TypeOK`.  The part with content is
  `inFlight \in Nat` in every generation, with the double release of the MCP
  retry included: the floor in `release` is needed and sufficient.
* `PoolInFlightCovers`: `InFlightCovers` is invariant if no request takes the MCP
  retry (`ToolRequests = {}`) and SQLite calls do not fail
  (`StoreErrors = FALSE`).  Both hypotheses are needed: TLC refutes the
  conclusion's consequence `UnderCap` without the first (section 5), and a
  failed read in `reload` unloads an account that is streaming.
* `PoolUnderCap`: under the same hypotheses an unforced pick never takes an
  account above its cap.
* `PoolMirrors`: under the same hypotheses memory and store list the same
  accounts, but for one that is being added or removed at this moment.

The invariant alone is not inductive: `reload` would bring back an account that
requests stream on but memory does not count.  `InFlightInv` adds why this
cannot happen: ids are handed out once (`IdsAllotted`), a row is gone before
its object leaves memory (`PoppedIsDeleted`), and nothing streams on a row
memory does not have yet (`UnloadedIsIdle`).  There is one lemma per action, a
frame lemma for the actions that touch none of it, and `SameHolders` /
`FewerHolders` for the cardinality of the set of requests holding an account.
`PoolUnderCap` follows from the invariant and the guard of the one step that
starts a stream.

Its second part is about what the pool remembers by id:

* `PoolIdentityStable`, without hypotheses: `KnownBelow` says that every id in
  memory, in the store or in a thread was handed out, and only the next id can
  get an owner.
* `PoolPinsAgree`, if requests do not share a session (`OwnSessions`) and SQLite calls
  succeed: in a quiet moment no session is bound to one account in memory and to
  another in the store.  The invariant (`PinsInv`) excepts a session whose new pin a
  request is just carrying from memory to the store, and says that memory holds
  that request's account or has dropped it meanwhile.  Section 5 says what
  happens without the first hypothesis.

`ModelCatalogProofs` proves, from no assumption but the types of the constants,
for any number of accounts, models, refreshing threads and restarts:
`CatalogTypeOK`, `CatalogExclusion`, `CatalogSaved` and `CatalogNeverOlder` (the safety
properties of run `catalog`).  The properties are not inductive alone.
`CatalogInv` adds that every snapshot, in memory, stored or being collected,
lists exactly what its accounts answered (`AllSound`); that no account is asked
twice by one refresh (`AskedOnce`), without which a second answer could
contradict the first; that the running collection is the last one begun and no
snapshot is newer (`Dated`); and that what a thread is about to save is what is
in use (`InStep`), which holds because only one thread can be past the guard.
`CatalogSaved` excepts a process that started without the row (`Unloaded`) until its
first refresh.

`FailoverProofs`, for any accounts and retry constants (`FailoverAssumption`):
`FailoverTypeOK`, `DriverAttemptsBounded`, `DriverSlotsCounted`,
`DriverJudgesEveryPick`, `DriverForcedStays`, `DriverNeverRetriesAFailure`, and
`DriverKeepsThePromise`: the driver implements `ReplyStream`.  The strengthening
says how many picks and waits lie behind `attempt` and `attempts`, which
accounts are in `tried`, and what the client was sent at each place of the
driver; initial states map to initial states and each action to one step of
the promise or to none.  `DriverCallsBounded` bounds the upstream calls by two per
attempt, and `DriverWindsDown` gives the pair that every step of a request not
over lowers: the attempts left, and within an attempt the distance to its end
(an MCP repeat can be taken once, pieces are finite).

`RequestLifeProofs`, for any requests, transports, keys and limits:
`LifeTypeOK`, `LifeSlotsExact`, `LifeServedUnderLimit`, `LifeLoggedOnce`,
`LifeTruthful`, `LifeNoLateRun`.  A step is a step of one request and leaves the
others alone (`StepMoves`, `OthersUntouched`), so the invariant is a conjunction
over requests (`RequestInv`: what runs, what is held, what was recorded, what
was told, all by the place of the handler), plus the slot count, the only thing
they share.  `QueueInv` carries an error past the queue: a "stop" the handler
can see first comes from a run that succeeded.  `LifeWindsDown`: a step lowers what
its request has left, the handler's and the pump's part added up, and leaves the
other requests' alone.

`RequestStoreProofs`, for any number of threads, rows and restarts:
`StoreTypeOK` without hypotheses; `StoreBodiesBelong` and
`StorePageOfOneRequest` if nothing drops the log database (no "log" in the
workload, no full disk, after which free_space drops it) and no bodies of the old
database wait for migration (`LegacyIds = {}`); `StoreStatsFresh` under the
first of the two, while no call stands between its commit and the counting of it
(`Settled`).  Section 5 says what happens without.  That bodies lie under
their own row follows from a notion of **claim**: a row, a body, a capture, a
request that still holds its id and a page between its two queries each
take an id for an owner.  `OneOwner` (an id has one) and `Allotted` (it was
handed out) are inductive together: only `LogRow` makes a claim of its own, and
it takes an id nothing claims yet.  For the overview, `Fresh` says of a finished
scan what `StatsFresh` says of the cache, and that no scan carries a version still
to come, so an older scan cannot become current later.  `StoreLocksExclusive` says
who holds which lock by the place of each thread.  `StoreHolderGoes` says that the
two locks are never waited for in a circle if nobody prunes, or if the reader
connection is open and neither a drop nor a restart takes it away; the first
is what run `store_faults` has, the second run `store`.  With a prune and without a
reader the circle closes (`bug_store_deadlock`, section 5).
`StoreWindsDown`, without hypotheses: a step moves an old row, restarts the process,
or lowers what one thread has left and leaves the other threads alone.

`ConnectFramesProofs`, for any payloads and any laid-out series of frames:
`FramesTypeOK`, `FramesInTime`, and `FramesPromise`, the refinement of
`FrameReader`.  The invariant says that `pending` is the stretch of `wire` from the
end of the last frame taken to the last byte that arrived; from it the header
read at the front of `pending` is the header of the next frame.  `FramesWindDown`:
each step lowers a weighted sum of bytes to come, frames to take and places to the end.

`ResponseItemsProofs`, for any calls, custom tools, deltas, transports and
argument styles.  `ItemsTypeOK` and `ItemsCallsWhole` have no hypothesis; what `CallsWhole`
says of a call has one, that no continuation began with what was there (`Echoed`).
`ItemsWellBracketed`, `ItemsDoneIsStreamed`, `ItemsFinalIsStreamed` and
`ItemsTransportsAgree` assume `Interleaved = FALSE`: the upstream ends a call before the
next item begins; section 5 shows that they fail otherwise.  None of the
four is inductive.  `Streaming` adds, while the response streams: the call
opened last is the active one of `ToolAgg` (`CallsInTurn`), every call but an open
one has its item, in order and with its present arguments (`ItemsMatch`), the
id of a call item is fresh when it is opened (`IdsFresh`), what was streamed
of each id is what the aggregates hold (`AllStreamed`), what is not open was
reported as it is (`Reported`), and the end of the log belongs to the open item
(`LastEvent`).  `Ended` carries it to the final answer.  What was streamed of an id
is a `FlattenSeq` of a `SelectSeq` of the log; instead of an induction over the log
one lemma says what one more event does to it, proved from the least length at
which it would not (`LeastNat`).

`ConsoleProofs`, for any tabs, workers, logins and bounds: `ConsoleTypeOK`,
`FeedLosesNoWakeup`, `FeedKeepsNoDeadQueue`, `LoginMakesOneAccount`.  A tab that
builds a frame may be behind by what is still owed, on its way, or in its
queue; the invariant states this at each place of the handler's loop.  What is
owed includes the mark or release that follows an error event (`failing`).  A login is
either pending, cancelled, or in the hands of one call.

Only model-checked: liveness (`Terminates`, `EveryCallEnds`, `AllQuiet`, `SyncEnds`,
`Ends`, `ShownInTheEnd`, `StaleCloses`), for which the prover has neither `ENABLED` nor
fairness.  For the driver, the frame reader, the request life and the request log the
theorems on winding down are its safety half: no order of steps goes on for ever, so what is left to TLC is that
somebody can step and does.  `ModelCatalog` and the live feed have none: the number
of sources still to ask is a cardinality that the refresh picks anew, and a tab's
loop goes round for ever by design.

## 5. What does not hold

Checked by a run, with the quotation in `PROJECT.json` `findings`:
`free_space` and `prune_requests` deadlock after a log drop
(`bug_store_deadlock`), against store.py:681.  The drop is not needed: with
`Workload = {"free", "prune"}`, `ReaderStart = "untried"` and `ReaderErrors = TRUE` the same circle
closes, because a query without a reader runs on the writer under `_llock`
(store.py:339-341): while the first query after a start is still opening the
reader, for as long as the opening failed, and with a `:memory:` log.

Stated in the modules, outside the passing runs or under hypotheses these exclude,
because TLC refutes them:

* `AccountPool!UnderCap` with the MCP retry (two requests of which one is in
  `ToolRequests`, caps {0, 1}, no admin thread): the driver's `finally` clause
  (app.py:1037) releases the account when the MCP error ends the first call,
  the same attempt streams on it again without a pick, and its slot goes to
  another request: an account with cap 1 serves two, against README.md:62-64.
* `ModelCatalog!KeepsLastGood` (one account, two refreshes, no URL source): a
  refresh in which no account answered publishes and saves the empty dictionary
  it started with, against models.py:11-13.
* `ConnectFrames!TrailerDecides`: the loop reads on after a trailer without an
  error, so a connection that breaks there makes a finished reply fail, and the
  driver retries it or reports an error (app.py:1025).
* `LiveFeed!SubsCapped` (two tabs, `MaxSubs = 1`): the cap is compared before
  `accept` is awaited; handshakes that wait there together all subscribe.
* `LiveFeed!DeclaringIsSafe` (one tab): `put_nowait` on the full 1-slot queue
  raises in the reader task, which ends it and closes the tab: a browser that
  opens the in-flight view just after a wake-up loses its connection.
* `AccountPool!DisableSticks` (one request, one admin thread with the "patch"
  workload): the persist of a request that ends during a console PATCH writes
  the old `disabled` column back, and the disable is undone by the next reload,
  against README.md:60-64.
* `Failover!TransientNeverCools` (one account): a retry budget that runs out
  replaces a provider-side error by `retry_exhausted` or `retry_timeout`, which
  cools the account, against the comment at accounts.py:9-12.
* `RequestLife!EverySlotReturns` (two streaming requests on one key): the wrapper
  gives the slot back in the `finally` clause of a generator, which does not run
  when the response is dropped before its first event; the key then refuses
  calls under its limit until the process restarts.
* `ResponseItems` with `Interleaved = TRUE`: `WellBracketed`, `DoneIsStreamed`,
  `FinalIsStreamed` and `TransportsAgree` fail.  `fc_open` keeps naming the call
  opened last after its item was closed, so later arguments are sent for a
  closed item or for another call; and the final loop, whose comment
  (responses.py:674) speaks of ids, replaces whole items by the copies made
  when they were closed, with the arguments known then.  Without streaming the
  answer is complete.  Whether this happens depends on the upstream.
* The converse of `AccountPool!InFlightCovers`: a reload during a request leaves
  the new object's counter above the number of streams for ever; after `max_concurrent` such reloads the account is
  skipped as busy.
* `AccountPool!PinsAgree` with two requests of one session: the two writes of
  the pin in memory and in the store can cross, and a restart then sends the
  session back to the account it had left.
* `RequestStore!BodiesBelong` with `LegacyIds = {1}`: the bodies of the old combined
  database are stored under their old ids, from which the ids of the new log
  database, counted from 1, are not kept apart.
* `ResponseItems!CallsWhole` without its exception: a continuation that begins with
  everything sent before, as '{"a":' and then '{"a":1}}', replaces what it should
  continue (app.py:534-536).
* `RequestLife!RunsUnderLimit`: after a WebSocket client left, its pump
  still reads the upstream, and the freed slot admits another run.
* `RequestLife!EveryRequestLogged`: a generator closed at a yield outside its
  `try`, or a WebSocket send that fails after the loop, leaves no row.
* `RequestStore!BodiesBelong`, `StatsFresh` with "log" in the workload:
  `drop_log_db` restarts the ids and does not bump `_data_version`.

Outcomes the models contain and no property is about:

* An import that passed the tombstone check (`AddCheck`) before a console delete
  inserts the credential after it (`AddRow`): the removed account is back, against
  README.md:85-86.  The two routes are synchronous and run on threads of their
  own.  With one console call at a time the tombstone is what the guard of `AddCheck`
  says, so there is nothing to check.
* A row that is pruned while memory keeps its pin is not written again, since
  `Pool.pin` stores new pins only: the next restart forgets that pin.
* A process that could not read the saved catalogue starts with an empty one
  and stays so until a refresh succeeds.
* Between a commit and `_data_version += 1` the overview may still be served from
  a cache that is one commit old.

## 6. Plan

Done: the pool, the driver, the request life, the request log, the Responses
items, the model catalogue, the frame reader, the logins and the live feed,
with proofs of all the safety properties the runs check.

Worth doing next:

1. The chat-completions rendering of the same events, beside `ResponseItems`.
2. A winding-down theorem for the refresh of the catalogue.
3. The hazards of `PROJECT.json` without a property: all but one name the formula that
   TLC refutes; a repaired version of the code would make it an invariant.

### Not modelled

* `creds.py`, `proto.py`, `__main__.py` and the front end keep no state that two
  parties share.
* The settings of the console and the meta cache: two calls that save the same
  row overwrite each other by construction (admin_routes/models.py:39); there is
  no promise beside it to check.
* The JWT cache of `upstream.py`: a second fetch replaces a token by an equally
  valid one; `clear_jwt` is never called, so a revoked token stays in use until
  60 seconds before it expires.
* Names, aliases and efforts of models, `to_chat_body`, quotas and usage: pure
  translations of one document into another, with unit tests beside them.

## 7. Running

    tlc -config Store.cfg RequestStore.tla
    tlapm RequestLifeProofs.tla

Each run is listed in `PROJECT.json` with its module and cfg.  Definitions named
`X_Something` are mutated forms of `X`: replacing the body of `X` by the
mutated form makes the property named in `PROJECT.json` `mutants` fail.
