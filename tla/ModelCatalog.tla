---------------------------- MODULE ModelCatalog ----------------------------
(***************************************************************************)
(* The model catalogue (models.py): a snapshot of what every account and   *)
(* an optional URL advertise, kept in memory, saved in the meta table, and *)
(* used by the scheduler to leave out accounts that do not serve a model.  *)
(*                                                                         *)
(* Threads of maybe_refresh and of the console's refresh route build a new *)
(* snapshot without a lock, one source after another, then publish it      *)
(* under _lock and save it after the lock.  Only which account advertised  *)
(* which model is kept of a model's description.  Every caller passes      *)
(* force = True and the console may ask at any time, so the age of the     *)
(* snapshot decides nothing here and is left out.  The first _load happens *)
(* in the start-up's maybe_refresh, before any other thread exists, and is *)
(* part of Init and Restart.                                               *)
(***************************************************************************)
EXTENDS Naturals, FiniteSets

CONSTANTS
  Accounts, Models,
  Syncers,      \* background threads and console calls that may refresh
  UrlModels,    \* what the catalogue URL lists
  MaxSyncs,     \* bound: refreshes started
  MaxRestarts   \* bound: restarts of the process

ASSUME SourcesAssumption == UrlModels \subseteq Models
ASSUME BoundsAssumption == MaxSyncs \in Nat /\ MaxRestarts \in Nat

VARIABLES
  remote,      \* _remote: the snapshot in memory
  stored,      \* meta row model_catalog_v1
  refreshing,  \* _refreshing
  sync,        \* the threads: program counter, sources left, snapshot so far
  unsaved,     \* did the last save fail?
  syncs, restarts

vars == <<remote, stored, refreshing, sync, unsaved, syncs, restarts>>

\* A snapshot: the accounts of every model, the models of the URL, the
\* accounts whose request failed and whether the URL did.  "began" (number of
\* the refresh), "answered" and "told" (who answered what) serve the properties.
Snapshots == [accounts : [Models -> SUBSET Accounts], url : SUBSET Models,
              errors : SUBSET Accounts, urlErr : BOOLEAN,
              began : 0 .. MaxSyncs, answered : SUBSET Accounts,
              told : [Accounts -> SUBSET Models]]

Empty(k) == [accounts |-> [m \in Models |-> {}], url |-> {}, errors |-> {},
             urlErr |-> FALSE, began |-> k, answered |-> {},
             told |-> [a \in Accounts |-> {}]]
Idle == [pc |-> "idle", todo |-> {}, got |-> Empty(0)]

Listed(s) == {m \in Models : s.accounts[m] # {} \/ m \in s.url}

----------------------------------------------------------------------------
(* What the scheduler makes of a snapshot *)

\* served_by: the accounts that advertise the model, and those known to
\* advertise anything; no restriction when nobody advertises it.
Allowed(s, m) == s.accounts[m]
Known_Asked(s) == UNION {s.accounts[m] : m \in Models} \union s.errors
Known(s) == UNION {s.accounts[m] : m \in Models}

\* Pool._pick: eligible when there is no restriction, or when the account is
\* allowed or unknown.
Eligible(s, a, m) ==
  Allowed(s, m) = {} \/ a \in Allowed(s, m) \/ a \notin Known(s)

----------------------------------------------------------------------------
(* One refresh *)

Merged(s, a, answer) ==
  [s EXCEPT !.accounts = [m \in Models |->
     IF m \in answer THEN @[m] \union {a} ELSE @[m]],
             !.answered = @ \union {a}, !.told[a] = answer]

Goto(t, pc) == sync' = [sync EXCEPT ![t].pc = pc]

\* maybe_refresh on a stale snapshot, or the console's button.
Ask(t) ==
  /\ sync[t].pc = "idle"
  /\ syncs < MaxSyncs
  /\ Goto(t, "asked")
  /\ UNCHANGED <<remote, stored, refreshing, unsaved, syncs, restarts>>

Skip(t) ==
  /\ sync[t].pc = "asked"
  /\ refreshing
  /\ sync' = [sync EXCEPT ![t] = Idle]
  /\ UNCHANGED <<remote, stored, refreshing, unsaved, syncs, restarts>>

\* The accounts are those enabled when the refresh was asked for: any.
Start_Unguarded(t) ==
  /\ sync[t].pc = "asked"
  /\ syncs < MaxSyncs
  /\ refreshing' = TRUE
  /\ syncs' = syncs + 1
  /\ \E accs \in SUBSET Accounts :
       sync' = [sync EXCEPT ![t] = [pc |-> "fetch", todo |-> accs, got |-> Empty(syncs')]]
  /\ UNCHANGED <<remote, stored, unsaved, restarts>>
Start(t) ==
  /\ sync[t].pc = "asked"
  /\ ~refreshing
  /\ syncs < MaxSyncs
  /\ refreshing' = TRUE
  /\ syncs' = syncs + 1
  /\ \E accs \in SUBSET Accounts :
       sync' = [sync EXCEPT ![t] = [pc |-> "fetch", todo |-> accs, got |-> Empty(syncs')]]
  /\ UNCHANGED <<remote, stored, unsaved, restarts>>

Fetch(t) ==
  /\ sync[t].pc = "fetch"
  /\ \E a \in sync[t].todo, answer \in SUBSET Models :
       sync' = [sync EXCEPT ![t].todo = @ \ {a}, ![t].got = Merged(@, a, answer)]
  /\ UNCHANGED <<remote, stored, refreshing, unsaved, syncs, restarts>>

FetchFails_Dies(t) ==
  /\ sync[t].pc = "fetch"
  /\ \E a \in sync[t].todo : sync' = [sync EXCEPT ![t] = Idle]
  /\ UNCHANGED <<remote, stored, refreshing, unsaved, syncs, restarts>>
FetchFails(t) ==
  /\ sync[t].pc = "fetch"
  /\ \E a \in sync[t].todo :
       sync' = [sync EXCEPT ![t].todo = @ \ {a}, ![t].got.errors = @ \union {a}]
  /\ UNCHANGED <<remote, stored, refreshing, unsaved, syncs, restarts>>

\* _fetch_url: none configured, its list, or an error.
FetchUrl(t) ==
  /\ sync[t].pc = "fetch"
  /\ sync[t].todo = {}
  /\ \/ Goto(t, "publish")
     \/ sync' = [sync EXCEPT ![t].pc = "publish", ![t].got.url = UrlModels]
     \/ sync' = [sync EXCEPT ![t].pc = "publish", ![t].got.urlErr = TRUE]
  /\ UNCHANGED <<remote, stored, refreshing, unsaved, syncs, restarts>>

\* Under _lock: the whole snapshot is replaced, whatever was collected.
Publish_Released(t) ==
  /\ sync[t].pc = "publish"
  /\ remote' = sync[t].got
  /\ refreshing' = FALSE
  /\ Goto(t, "save")
  /\ UNCHANGED <<stored, unsaved, syncs, restarts>>
Publish(t) ==
  /\ sync[t].pc = "publish"
  /\ remote' = sync[t].got
  /\ Goto(t, "save")
  /\ UNCHANGED <<stored, refreshing, unsaved, syncs, restarts>>

Save(t) ==
  /\ sync[t].pc = "save"
  /\ stored' = sync[t].got
  /\ unsaved' = FALSE
  /\ Goto(t, "clear")
  /\ UNCHANGED <<remote, refreshing, syncs, restarts>>

\* meta_set fails: swallowed by _resilient.
SaveFails(t) ==
  /\ sync[t].pc = "save"
  /\ unsaved' = TRUE
  /\ Goto(t, "clear")
  /\ UNCHANGED <<remote, stored, refreshing, syncs, restarts>>

\* The finally clause.
Clear(t) ==
  /\ sync[t].pc = "clear"
  /\ refreshing' = FALSE
  /\ sync' = [sync EXCEPT ![t] = Idle]
  /\ UNCHANGED <<remote, stored, unsaved, syncs, restarts>>

----------------------------------------------------------------------------
(* Restarts *)

\* _load: the saved snapshot; or nothing, for good (_loaded is up), when the row
\* cannot be read: meta_get yields None and _load passes over it.
Restart ==
  /\ restarts < MaxRestarts
  /\ restarts' = restarts + 1
  /\ remote' \in {stored, Empty(0)}
  /\ refreshing' = FALSE
  /\ unsaved' = FALSE
  /\ sync' = [t \in Syncers |-> Idle]
  /\ UNCHANGED <<stored, syncs>>

Init ==
  /\ stored = Empty(0)
  /\ remote = stored
  /\ refreshing = FALSE
  /\ sync = [t \in Syncers |-> Idle]
  /\ unsaved = FALSE
  /\ syncs = 0 /\ restarts = 0

Step(t) ==
  Skip(t) \/ Start(t) \/ Fetch(t) \/ FetchFails(t) \/ FetchUrl(t)
  \/ Publish(t) \/ Save(t) \/ SaveFails(t) \/ Clear(t)

Next == Restart \/ \E t \in Syncers : Ask(t) \/ Step(t)

Spec == Init /\ [][Next]_vars

\* Every source has a timeout; a thread that has work goes on.
FairSpec == Spec /\ \A t \in Syncers : WF_vars(Step(t))

----------------------------------------------------------------------------
(* Properties *)

Syncing(t) == sync[t].pc \notin {"idle", "asked"}

SyncStates == [pc : {"idle", "asked", "fetch", "publish", "save", "clear"},
               todo : SUBSET Accounts, got : Snapshots]

\* Every variable has its type, and the flag is up exactly while one thread is
\* between its Start and its Clear.
TypeOK ==
  /\ remote \in Snapshots /\ stored \in Snapshots
  /\ refreshing \in BOOLEAN /\ unsaved \in BOOLEAN
  /\ syncs \in 0 .. MaxSyncs /\ restarts \in 0 .. MaxRestarts
  /\ sync \in [Syncers -> SyncStates]
  /\ refreshing <=> \E t \in Syncers : Syncing(t)
  /\ \A t, u \in Syncers : Syncing(t) /\ Syncing(u) => t = u

\* The scheduler leaves an account out for a model only because the account
\* itself, in the refresh behind this snapshot, answered without that model: an
\* account that could not be asked, or came later, stays eligible, and so does
\* everybody for a model nobody advertised (served_by with Pool._pick).
ExclusionJustified ==
  \A a \in Accounts, m \in Models :
    ~Eligible(remote, a, m) => a \in remote.answered /\ m \notin remote.told[a]

\* Nothing was loaded and nothing published since: a process that could not
\* read its row (_load), or that never had one.
Unloaded == remote = Empty(0)

\* Once no refresh runs, the row a restart would load is the snapshot in use,
\* unless its save failed or this process could not load it and has not
\* refreshed since (refresh persists after it released _lock).
SavedIsServed == ~refreshing /\ ~unsaved => stored = remote \/ Unloaded

\* While the process lives, a snapshot is never replaced by one whose
\* collection began earlier (the _refreshing flag of concurrent refreshes).
NeverOlder == [][restarts' = restarts => remote'.began >= remote.began]_vars

\* A refresh never blocks the next one for good: the flag is cleared whatever
\* fails (the finally clause).
SyncEnds == refreshing ~> ~refreshing

\* "Restarts and upstream outages keep the last good list" (models.py:11-12):
\* a refresh whose every source failed leaves the listed models alone.
Outage(s) == s.errors # {} /\ s.answered = {} /\ s.url = {}
KeepsLastGood ==
  [][\A t \in Syncers : Publish(t) /\ Outage(sync[t].got)
        => Listed(remote) \subseteq Listed(remote')]_vars
=============================================================================
