------------------------ MODULE ModelCatalogProofs ------------------------
(***************************************************************************)
(* Theorems about ModelCatalog, for any number of accounts, models,        *)
(* refreshing threads and restarts.                                        *)
(***************************************************************************)
EXTENDS ModelCatalog, TLAPS

(* The invariant *)

\* A snapshot lists exactly what its accounts answered.
Sound(s) ==
  \A a \in Accounts, m \in Models :
    a \in s.accounts[m] <=> a \in s.answered /\ m \in s.told[a]

AllSound == Sound(remote) /\ Sound(stored) /\ \A t \in Syncers : Sound(sync[t].got)

\* No account is asked twice by one refresh.
AskedOnce == \A t \in Syncers : sync[t].todo \cap sync[t].got.answered = {}

\* No snapshot is from the future; the refresh that runs is the last one begun.
Dated ==
  /\ remote.began <= syncs /\ stored.began <= syncs
  /\ \A t \in Syncers : sync[t].pc \in {"fetch", "publish"} => sync[t].got.began = syncs

\* What is about to be saved is what was published; after that nothing differs,
\* whatever this process had loaded.
InStep ==
  /\ \A t \in Syncers : sync[t].pc = "save" => sync[t].got = remote
  /\ \A t \in Syncers : sync[t].pc = "clear" => unsaved \/ stored = remote
  /\ ~refreshing => unsaved \/ stored = remote \/ Unloaded

CatalogInv == TypeOK /\ AllSound /\ AskedOnce /\ Dated /\ InStep

----------------------------------------------------------------------------
(* Snapshots and threads *)

LEMMA EmptyType ==
  ASSUME NEW k \in 0 .. MaxSyncs
  PROVE  /\ Empty(k) \in Snapshots /\ Sound(Empty(k)) /\ Empty(k).began = k
  BY DEF Empty, Snapshots, Sound

LEMMA IdleType == Idle \in SyncStates /\ Sound(Idle.got) /\ Idle.pc = "idle"
  <1>1. 0 \in 0 .. MaxSyncs
    BY BoundsAssumption
  <1> QED
    BY <1>1, EmptyType DEF Idle, SyncStates

\* An answer is merged into the snapshot without a loss (refresh's inner loop).
LEMMA MergedType ==
  ASSUME NEW s \in Snapshots, Sound(s), NEW a \in Accounts, NEW answer \in SUBSET Models,
         a \notin s.answered
  PROVE  /\ Merged(s, a, answer) \in Snapshots /\ Sound(Merged(s, a, answer))
         /\ Merged(s, a, answer).began = s.began
  BY DEF Merged, Snapshots, Sound

\* The state of one thread changes.
LEMMA ThreadUpdate ==
  ASSUME sync \in [Syncers -> SyncStates], NEW t \in Syncers, NEW q \in SyncStates,
         sync' = [sync EXCEPT ![t] = q]
  PROVE  /\ sync' \in [Syncers -> SyncStates] /\ sync'[t] = q
         /\ \A u \in Syncers : u # t => sync'[u] = sync[u]
  OBVIOUS

\* A thread that is syncing changes its state and stays the one that syncs.
LEMMA StillSyncing ==
  ASSUME CatalogInv, NEW t \in Syncers, Syncing(t), NEW q \in SyncStates,
         q.pc \notin {"idle", "asked"}, sync' = [sync EXCEPT ![t] = q],
         refreshing' = refreshing
  PROVE  /\ sync' \in [Syncers -> SyncStates] /\ sync'[t] = q
         /\ \A u \in Syncers : u # t => sync'[u] = sync[u] /\ ~Syncing(u)
         /\ refreshing /\ (refreshing <=> \E u \in Syncers : Syncing(u))'
         /\ (\A u, v \in Syncers : Syncing(u) /\ Syncing(v) => u = v)'
  <1>1. /\ sync' \in [Syncers -> SyncStates] /\ sync'[t] = q
        /\ \A u \in Syncers : u # t => sync'[u] = sync[u]
    BY ThreadUpdate DEF CatalogInv, TypeOK
  <1>2. \A u \in Syncers : u # t => ~Syncing(u)
    BY DEF CatalogInv, TypeOK
  <1>3. refreshing
    BY DEF CatalogInv, TypeOK
  <1> QED
    BY <1>1, <1>2, <1>3 DEF Syncing

----------------------------------------------------------------------------
(* The actions keep the invariant *)

LEMMA InitInv == Init => CatalogInv
  <1> SUFFICES ASSUME Init PROVE CatalogInv
    OBVIOUS
  <1>1. /\ 0 \in 0 .. MaxSyncs /\ 0 \in 0 .. MaxRestarts
        /\ remote = Empty(0) /\ stored = Empty(0)
        /\ \A t \in Syncers : sync[t] = Idle
    BY BoundsAssumption DEF Init
  <1>2. Idle.got.answered = {} /\ Idle.todo = {}
    BY DEF Idle, Empty
  <1>3. TypeOK
    BY <1>1, EmptyType, IdleType DEF Init, TypeOK, Syncing
  <1>4. AllSound /\ AskedOnce /\ Dated /\ InStep
    BY <1>1, <1>2, EmptyType, IdleType DEF Init, AllSound, AskedOnce, Dated, InStep, Unloaded
  <1> QED
    BY <1>3, <1>4 DEF CatalogInv

\* A thread that does not hold the flag is asked, or told to skip.
LEMMA IdleStep ==
  ASSUME CatalogInv, NEW t \in Syncers, ~Syncing(t), NEW q \in SyncStates,
         q.pc \in {"idle", "asked"}, Sound(q.got), q.todo \cap q.got.answered = {},
         sync' = [sync EXCEPT ![t] = q],
         UNCHANGED <<remote, stored, refreshing, unsaved, syncs, restarts>>
  PROVE  CatalogInv'
  <1>1. /\ sync' \in [Syncers -> SyncStates] /\ sync'[t] = q
        /\ \A u \in Syncers : u # t => sync'[u] = sync[u]
    BY ThreadUpdate DEF CatalogInv, TypeOK
  <1>2. \A u \in Syncers : Syncing(u)' <=> Syncing(u)
    BY <1>1 DEF Syncing
  <1>3. TypeOK'
    BY <1>1, <1>2 DEF CatalogInv, TypeOK
  <1>4. AllSound' /\ AskedOnce'
    BY <1>1 DEF CatalogInv, AllSound, AskedOnce, Sound
  <1>5. Dated' /\ InStep'
    BY <1>1 DEF CatalogInv, Dated, InStep, Unloaded
  <1> QED
    BY <1>3, <1>4, <1>5 DEF CatalogInv

LEMMA AskInv ==
  ASSUME CatalogInv, NEW t \in Syncers, Ask(t) \/ Skip(t)
  PROVE  CatalogInv'
  <1>1. CASE Ask(t)
    <2> DEFINE q == [sync[t] EXCEPT !.pc = "asked"]
    <2>1. sync[t] \in SyncStates
      BY DEF CatalogInv, TypeOK
    <2>2. /\ q \in SyncStates /\ q.pc = "asked" /\ q.got = sync[t].got
          /\ q.todo = sync[t].todo
      BY <2>1 DEF SyncStates
    <2>3. ~Syncing(t) /\ sync' = [sync EXCEPT ![t] = q]
      BY <1>1 DEF Ask, Goto, Syncing
    <2>4. Sound(q.got) /\ q.todo \cap q.got.answered = {}
      BY <2>2 DEF CatalogInv, AllSound, AskedOnce
    <2>5. UNCHANGED <<remote, stored, refreshing, unsaved, syncs, restarts>>
      BY <1>1 DEF Ask
    <2> HIDE DEF q
    <2> QED
      BY <2>2, <2>3, <2>4, <2>5, IdleStep
  <1>2. CASE Skip(t)
    <2>1. Idle.todo \cap Idle.got.answered = {}
      BY DEF Idle, Empty
    <2>2. ~Syncing(t)
      BY <1>2 DEF Skip, Syncing
    <2> QED
      BY <1>2, <2>1, <2>2, IdleType, IdleStep DEF Skip
  <1> QED
    BY <1>1, <1>2

LEMMA StartInv ==
  ASSUME CatalogInv, NEW t \in Syncers, Start(t)
  PROVE  CatalogInv'
  <1>1. PICK accs \in SUBSET Accounts :
          sync' = [sync EXCEPT ![t] = [pc |-> "fetch", todo |-> accs, got |-> Empty(syncs')]]
    BY DEF Start
  <1> DEFINE q == [pc |-> "fetch", todo |-> accs, got |-> Empty(syncs')]
  <1>2. /\ syncs \in Nat /\ syncs' = syncs + 1 /\ syncs' \in 0 .. MaxSyncs
        /\ refreshing' = TRUE /\ ~refreshing
        /\ UNCHANGED <<remote, stored, unsaved, restarts>>
    BY BoundsAssumption DEF Start, CatalogInv, TypeOK
  <1>3. /\ q \in SyncStates /\ q.pc = "fetch" /\ Sound(q.got) /\ q.got.began = syncs'
        /\ q.todo \cap q.got.answered = {}
    <2>1. Empty(syncs') \in Snapshots /\ Sound(Empty(syncs')) /\ Empty(syncs').began = syncs'
      BY <1>2, EmptyType
    <2>2. Empty(syncs').answered = {}
      BY DEF Empty
    <2> QED
      BY <2>1, <2>2 DEF SyncStates
  <1>4. /\ sync' \in [Syncers -> SyncStates] /\ sync'[t] = q
        /\ \A u \in Syncers : u # t => sync'[u] = sync[u]
    BY <1>1, <1>3, ThreadUpdate DEF CatalogInv, TypeOK
  <1> HIDE DEF q
  <1>5. \A u \in Syncers : ~Syncing(u)
    BY <1>2 DEF CatalogInv, TypeOK
  <1>6. \A u \in Syncers : Syncing(u)' <=> u = t
    BY <1>3, <1>4, <1>5 DEF Syncing
  <1>7. TypeOK'
    BY <1>2, <1>4, <1>6 DEF CatalogInv, TypeOK
  <1>8. AllSound' /\ AskedOnce'
    BY <1>2, <1>3, <1>4 DEF CatalogInv, AllSound, AskedOnce, Sound
  <1>9. Dated'
    <2>1. remote.began \in Nat /\ stored.began \in Nat
      BY DEF CatalogInv, TypeOK, Snapshots
    <2>2. \A u \in Syncers : u # t => sync[u].pc \notin {"fetch", "publish"}
      BY <1>5, <1>4 DEF Syncing
    <2>3. remote.began <= syncs' /\ stored.began <= syncs'
      BY <1>2, <2>1 DEF CatalogInv, Dated
    <2> QED
      BY <1>2, <1>3, <1>4, <2>2, <2>3 DEF Dated
  <1>10. InStep'
    BY <1>2, <1>3, <1>4 DEF CatalogInv, InStep, Unloaded
  <1> QED
    BY <1>7, <1>8, <1>9, <1>10 DEF CatalogInv

\* A refresh collects: its snapshot stays sound and keeps its date.
LEMMA CollectStep ==
  ASSUME CatalogInv, NEW t \in Syncers, sync[t].pc = "fetch", NEW q \in SyncStates,
         q.pc \in {"fetch", "publish"}, Sound(q.got), q.got.began = sync[t].got.began,
         q.todo \cap q.got.answered = {}, sync' = [sync EXCEPT ![t] = q],
         UNCHANGED <<remote, stored, refreshing, unsaved, syncs, restarts>>
  PROVE  CatalogInv'
  <1>1. Syncing(t)
    BY DEF Syncing
  <1>2. /\ sync' \in [Syncers -> SyncStates] /\ sync'[t] = q
        /\ \A u \in Syncers : u # t => sync'[u] = sync[u] /\ ~Syncing(u)
        /\ refreshing /\ (refreshing <=> \E u \in Syncers : Syncing(u))'
        /\ (\A u, v \in Syncers : Syncing(u) /\ Syncing(v) => u = v)'
    BY <1>1, StillSyncing
  <1>3. TypeOK'
    BY <1>2 DEF CatalogInv, TypeOK
  <1>4. AllSound' /\ AskedOnce'
    BY <1>2 DEF CatalogInv, AllSound, AskedOnce, Sound
  <1>5. Dated' /\ InStep'
    BY <1>2 DEF CatalogInv, Dated, InStep, Unloaded
  <1> QED
    BY <1>3, <1>4, <1>5 DEF CatalogInv

LEMMA CollectInv ==
  ASSUME CatalogInv, NEW t \in Syncers, Fetch(t) \/ FetchFails(t) \/ FetchUrl(t)
  PROVE  CatalogInv'
  <1>1. /\ sync[t] \in SyncStates /\ sync[t].got \in Snapshots /\ Sound(sync[t].got)
        /\ sync[t].todo \in SUBSET Accounts /\ sync[t].todo \cap sync[t].got.answered = {}
    BY DEF CatalogInv, TypeOK, AllSound, AskedOnce, SyncStates
  <1>2. /\ sync[t].pc = "fetch"
        /\ UNCHANGED <<remote, stored, refreshing, unsaved, syncs, restarts>>
    BY DEF Fetch, FetchFails, FetchUrl
  <1>3. CASE Fetch(t)
    <2>1. PICK a \in sync[t].todo, answer \in SUBSET Models :
            sync' = [sync EXCEPT ![t].todo = @ \ {a}, ![t].got = Merged(@, a, answer)]
      BY <1>3 DEF Fetch
    <2> DEFINE g == Merged(sync[t].got, a, answer)
               q == [sync[t] EXCEPT !.todo = @ \ {a}, !.got = g]
    <2>2. /\ g \in Snapshots /\ Sound(g) /\ g.began = sync[t].got.began
      BY <1>1, MergedType
    <2>3. g.answered = sync[t].got.answered \union {a}
      BY <1>1 DEF Merged, Snapshots
    <2>4. sync' = [sync EXCEPT ![t] = q]
      BY <2>1
    <2> HIDE DEF g
    <2>5. /\ q \in SyncStates /\ q.pc = "fetch" /\ q.got = g
          /\ q.todo = sync[t].todo \ {a}
      BY <1>1, <1>2, <2>2 DEF SyncStates
    <2> HIDE DEF q
    <2>6. q.todo \cap q.got.answered = {}
      BY <1>1, <2>3, <2>5
    <2> QED
      BY <1>2, <2>2, <2>4, <2>5, <2>6, CollectStep
  <1>4. CASE FetchFails(t)
    <2>1. PICK a \in sync[t].todo :
            sync' = [sync EXCEPT ![t].todo = @ \ {a}, ![t].got.errors = @ \union {a}]
      BY <1>4 DEF FetchFails
    <2> DEFINE g == [sync[t].got EXCEPT !.errors = @ \union {a}]
               q == [sync[t] EXCEPT !.todo = @ \ {a}, !.got = g]
    <2>2. g \in Snapshots /\ Sound(g) /\ g.began = sync[t].got.began
          /\ g.answered = sync[t].got.answered
      BY <1>1 DEF Snapshots, Sound
    <2>3. sync' = [sync EXCEPT ![t] = q]
      BY <2>1
    <2> HIDE DEF g
    <2>4. /\ q \in SyncStates /\ q.pc = "fetch" /\ q.got = g
          /\ q.todo = sync[t].todo \ {a}
      BY <1>1, <1>2, <2>2 DEF SyncStates
    <2> HIDE DEF q
    <2> QED
      BY <1>1, <1>2, <2>2, <2>3, <2>4, CollectStep
  <1>5. CASE FetchUrl(t)
    <2>1. PICK g \in {sync[t].got, [sync[t].got EXCEPT !.url = UrlModels],
                      [sync[t].got EXCEPT !.urlErr = TRUE]} :
            sync' = [sync EXCEPT ![t] = [sync[t] EXCEPT !.pc = "publish", !.got = g]]
      <3>1. CASE Goto(t, "publish")
        <4>1. [sync[t] EXCEPT !.pc = "publish"]
              = [sync[t] EXCEPT !.pc = "publish", !.got = sync[t].got]
          BY <1>1 DEF SyncStates
        <4>2. sync' = [sync EXCEPT ![t] = [sync[t] EXCEPT !.pc = "publish"]]
          BY <3>1 DEF Goto
        <4> QED
          BY <4>1, <4>2
      <3>2. CASE sync' = [sync EXCEPT ![t].pc = "publish", ![t].got.url = UrlModels]
        BY <3>2
      <3>3. CASE sync' = [sync EXCEPT ![t].pc = "publish", ![t].got.urlErr = TRUE]
        BY <3>3
      <3> QED
        BY <1>5, <3>1, <3>2, <3>3 DEF FetchUrl
    <2> DEFINE q == [sync[t] EXCEPT !.pc = "publish", !.got = g]
    <2>2. g \in Snapshots /\ Sound(g) /\ g.began = sync[t].got.began
          /\ g.answered = sync[t].got.answered
      BY <1>1, SourcesAssumption DEF Snapshots, Sound
    <2>3. /\ q \in SyncStates /\ q.pc = "publish" /\ q.got = g
          /\ q.todo = sync[t].todo
      BY <1>1, <2>2 DEF SyncStates
    <2>4. sync' = [sync EXCEPT ![t] = q]
      BY <2>1
    <2> HIDE DEF q
    <2> QED
      BY <1>1, <1>2, <2>2, <2>3, <2>4, CollectStep
  <1> QED
    BY <1>3, <1>4, <1>5

LEMMA PublishInv ==
  ASSUME CatalogInv, NEW t \in Syncers, Publish(t)
  PROVE  CatalogInv'
  <1> DEFINE q == [sync[t] EXCEPT !.pc = "save"]
  <1>1. /\ sync[t] \in SyncStates /\ sync[t].pc = "publish" /\ remote' = sync[t].got
        /\ sync' = [sync EXCEPT ![t] = q]
        /\ UNCHANGED <<stored, refreshing, unsaved, syncs, restarts>>
    BY DEF CatalogInv, TypeOK, Publish, Goto
  <1>2. /\ q \in SyncStates /\ q.pc = "save" /\ q.got = sync[t].got /\ q.todo = sync[t].todo
        /\ sync[t].got \in Snapshots
    BY <1>1 DEF SyncStates
  <1> HIDE DEF q
  <1>3. Syncing(t)
    BY <1>1 DEF Syncing
  <1>4. /\ sync' \in [Syncers -> SyncStates] /\ sync'[t] = q
        /\ \A u \in Syncers : u # t => sync'[u] = sync[u] /\ ~Syncing(u)
        /\ refreshing /\ (refreshing <=> \E u \in Syncers : Syncing(u))'
        /\ (\A u, v \in Syncers : Syncing(u) /\ Syncing(v) => u = v)'
    BY <1>1, <1>2, <1>3, StillSyncing
  <1>5. TypeOK'
    BY <1>1, <1>2, <1>4 DEF CatalogInv, TypeOK
  <1>6. AllSound' /\ AskedOnce'
    BY <1>1, <1>2, <1>4 DEF CatalogInv, AllSound, AskedOnce, Sound
  <1>7. Dated'
    <2>1. sync[t].got.began = syncs /\ syncs \in Nat
      BY <1>1, BoundsAssumption DEF CatalogInv, Dated, TypeOK
    <2> QED
      BY <1>1, <1>2, <1>4, <2>1 DEF CatalogInv, Dated
  <1>8. InStep'
    BY <1>1, <1>2, <1>4 DEF InStep, Syncing
  <1> QED
    BY <1>5, <1>6, <1>7, <1>8 DEF CatalogInv

LEMMA SaveInv ==
  ASSUME CatalogInv, NEW t \in Syncers, Save(t) \/ SaveFails(t)
  PROVE  CatalogInv'
  <1> DEFINE q == [sync[t] EXCEPT !.pc = "clear"]
  <1>1. /\ sync[t] \in SyncStates /\ sync[t].pc = "save"
        /\ sync' = [sync EXCEPT ![t] = q] /\ unsaved' \in BOOLEAN
        /\ stored' \in {stored, sync[t].got} /\ (unsaved' \/ stored' = sync[t].got)
        /\ UNCHANGED <<remote, refreshing, syncs, restarts>>
    BY DEF CatalogInv, TypeOK, Save, SaveFails, Goto
  <1>2. /\ q \in SyncStates /\ q.pc = "clear" /\ q.got = sync[t].got /\ q.todo = sync[t].todo
        /\ sync[t].got \in Snapshots
    BY <1>1 DEF SyncStates
  <1> HIDE DEF q
  <1>3. Syncing(t) /\ sync[t].got = remote
    BY <1>1 DEF Syncing, CatalogInv, InStep
  <1>4. /\ sync' \in [Syncers -> SyncStates] /\ sync'[t] = q
        /\ \A u \in Syncers : u # t => sync'[u] = sync[u] /\ ~Syncing(u)
        /\ refreshing /\ (refreshing <=> \E u \in Syncers : Syncing(u))'
        /\ (\A u, v \in Syncers : Syncing(u) /\ Syncing(v) => u = v)'
    BY <1>1, <1>2, <1>3, StillSyncing
  <1>5. TypeOK'
    BY <1>1, <1>2, <1>4 DEF CatalogInv, TypeOK
  <1>6. AllSound' /\ AskedOnce'
    BY <1>1, <1>2, <1>4 DEF CatalogInv, AllSound, AskedOnce, Sound
  <1>7. Dated'
    BY <1>1, <1>2, <1>3, <1>4 DEF CatalogInv, Dated
  <1>8. InStep'
    BY <1>1, <1>2, <1>3, <1>4 DEF InStep, Syncing
  <1> QED
    BY <1>5, <1>6, <1>7, <1>8 DEF CatalogInv

LEMMA ClearInv ==
  ASSUME CatalogInv, NEW t \in Syncers, Clear(t)
  PROVE  CatalogInv'
  <1>1. /\ sync[t].pc = "clear" /\ sync' = [sync EXCEPT ![t] = Idle] /\ refreshing' = FALSE
        /\ UNCHANGED <<remote, stored, unsaved, syncs, restarts>>
    BY DEF Clear
  <1>2. /\ sync' \in [Syncers -> SyncStates] /\ sync'[t] = Idle
        /\ \A u \in Syncers : u # t => sync'[u] = sync[u]
    BY <1>1, IdleType, ThreadUpdate DEF CatalogInv, TypeOK
  <1>3. \A u \in Syncers : u # t => ~Syncing(u)
    BY <1>1 DEF CatalogInv, TypeOK, Syncing
  <1>4. \A u \in Syncers : ~Syncing(u)'
    BY <1>2, <1>3, IdleType DEF Syncing
  <1>5. TypeOK'
    BY <1>1, <1>2, <1>4 DEF CatalogInv, TypeOK
  <1>6. Idle.got.answered = {} /\ Idle.todo = {}
    BY DEF Idle, Empty
  <1>7. AllSound' /\ AskedOnce'
    BY <1>1, <1>2, <1>6, IdleType DEF CatalogInv, AllSound, AskedOnce, Sound
  <1>8. Dated' /\ InStep'
    BY <1>1, <1>2, IdleType DEF CatalogInv, Dated, InStep, Unloaded
  <1> QED
    BY <1>5, <1>7, <1>8 DEF CatalogInv

LEMMA RestartInv ==
  ASSUME CatalogInv, Restart
  PROVE  CatalogInv'
  <1>1. /\ remote' \in {stored, Empty(0)} /\ stored' = stored
        /\ refreshing' = FALSE /\ unsaved' = FALSE
        /\ sync' = [t \in Syncers |-> Idle] /\ syncs' = syncs
        /\ restarts' \in 0 .. MaxRestarts
    BY BoundsAssumption DEF Restart, CatalogInv, TypeOK
  <1>2. Idle.got.answered = {} /\ Idle.todo = {}
    BY DEF Idle, Empty
  <1>3. Empty(0) \in Snapshots /\ Sound(Empty(0)) /\ Empty(0).began = 0 /\ syncs \in Nat
    <2>1. 0 \in 0 .. MaxSyncs /\ syncs \in Nat
      BY BoundsAssumption DEF CatalogInv, TypeOK
    <2> QED
      BY <2>1, EmptyType
  <1>4. TypeOK'
    BY <1>1, <1>3, IdleType DEF CatalogInv, TypeOK, Syncing
  <1>5. AllSound' /\ AskedOnce'
    BY <1>1, <1>2, <1>3, IdleType DEF CatalogInv, AllSound, AskedOnce, Sound
  <1>6. Dated'
    BY <1>1, <1>3, IdleType DEF CatalogInv, Dated
  <1>7. InStep'
    BY <1>1, IdleType DEF InStep, Unloaded
  <1> QED
    BY <1>4, <1>5, <1>6, <1>7 DEF CatalogInv

LEMMA NextInv == CatalogInv /\ [Next]_vars => CatalogInv'
  <1> SUFFICES ASSUME CatalogInv, [Next]_vars PROVE CatalogInv'
    OBVIOUS
  <1>1. CASE Restart
    BY <1>1, RestartInv
  <1>2. CASE \E t \in Syncers : Ask(t) \/ Step(t)
    BY <1>2, AskInv, StartInv, CollectInv, PublishInv, SaveInv, ClearInv DEF Step
  <1>3. CASE UNCHANGED vars
    BY <1>3 DEF vars, CatalogInv, TypeOK, AllSound, AskedOnce, Dated, InStep, Unloaded, Sound, Syncing
  <1> QED
    BY <1>1, <1>2, <1>3 DEF Next

THEOREM CatalogSafe == Spec => []CatalogInv
  <1> QED
    BY InitInv, NextInv, PTL DEF Spec

----------------------------------------------------------------------------
(* Theorems *)

\* Every reachable state is well typed, and at most one thread refreshes, which
\* is when the flag is up (refresh's guard and finally clause).
THEOREM CatalogTypeOK == Spec => []TypeOK
  <1>1. CatalogInv => TypeOK
    BY DEF CatalogInv
  <1> QED
    BY <1>1, CatalogSafe, PTL

\* No account is left out by the scheduler unless it answered, in the refresh
\* behind the snapshot, without the model (served_by, Pool._pick).
THEOREM CatalogExclusion == Spec => []ExclusionJustified
  <1>1. ASSUME CatalogInv PROVE ExclusionJustified
    <2> SUFFICES ASSUME NEW a \in Accounts, NEW m \in Models, ~Eligible(remote, a, m)
                 PROVE  a \in remote.answered /\ m \notin remote.told[a]
      BY DEF ExclusionJustified
    <2>1. PICK k \in Models : a \in remote.accounts[k]
      BY DEF Eligible, Known
    <2>2. a \notin remote.accounts[m]
      BY DEF Eligible, Allowed
    <2> QED
      BY <1>1, <2>1, <2>2 DEF CatalogInv, AllSound, Sound
  <1> QED
    BY <1>1, CatalogSafe, PTL

\* What a restart would load is what is in use, once no refresh runs and its
\* save did not fail, in every process that loaded its row or has refreshed
\* (refresh saves after it released _lock, _load may fail).
THEOREM CatalogSaved == Spec => []SavedIsServed
  <1>1. CatalogInv => SavedIsServed
    BY DEF CatalogInv, InStep, SavedIsServed
  <1> QED
    BY <1>1, CatalogSafe, PTL

\* While the process lives no snapshot is replaced by an older collection.
THEOREM CatalogNeverOlder == Spec => NeverOlder
  <1>1. ASSUME CatalogInv, [Next]_vars
        PROVE  restarts' = restarts => remote'.began >= remote.began
    <2> SUFFICES ASSUME restarts' = restarts PROVE remote'.began >= remote.began
      OBVIOUS
    <2>1. remote.began \in Nat /\ restarts \in Nat
      BY <1>1, BoundsAssumption DEF CatalogInv, TypeOK, Snapshots
    <2>2. CASE remote' = remote
      BY <2>1, <2>2
    <2>3. CASE \E t \in Syncers : Publish(t)
      <3>1. PICK t \in Syncers : Publish(t)
        BY <2>3
      <3>2. remote' = sync[t].got /\ sync[t].got.began = syncs /\ remote.began <= syncs
        BY <1>1, <3>1 DEF Publish, CatalogInv, Dated
      <3>3. syncs \in Nat
        BY <1>1, BoundsAssumption DEF CatalogInv, TypeOK
      <3> QED
        BY <2>1, <3>2, <3>3
    <2>4. ~Restart
      BY <2>1 DEF Restart
    <2> QED
      BY <1>1, <2>2, <2>3, <2>4
      DEF Next, Step, Ask, Skip, Start, Fetch, FetchFails, FetchUrl, Save, SaveFails, Clear, vars
  <1>2. ASSUME CatalogInv, [Next]_vars
        PROVE  [restarts' = restarts => remote'.began >= remote.began]_vars
    BY <1>1, <1>2
  <1> QED
    BY <1>2, CatalogSafe, PTL DEF Spec, NeverOlder
=============================================================================
