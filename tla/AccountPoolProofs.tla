------------------------- MODULE AccountPoolProofs -------------------------
(***************************************************************************)
(* Theorems about AccountPool, for any number of requests, admin threads,  *)
(* accounts and reloads.                                                   *)
(***************************************************************************)
EXTENDS AccountPool, FiniteSetTheorems, TLAPS

LEMMA Constants ==
  /\ MaxId \in Nat /\ MaxGen \in Nat /\ Caps \subseteq Nat /\ 0 \in Caps
  /\ Fresh \in Columns /\ 0 \in Gens /\ Ids \subseteq Nat /\ 0 \notin Ids
  /\ IdleReq \in ReqType /\ IdleAdm \in AdmType
  BY BoundsAssumption, CapsAssumption
  DEF Fresh, Columns, Gens, Ids, IdleReq, IdleAdm, ReqType, AdmType, ReqPc, AdmPc

\* The parts a step leaves alone keep their types.
LEMMA MemoryFrame == MemoryType /\ UNCHANGED memory => MemoryType'
  BY DEF MemoryType, memory
LEMMA StoreFrame == StoreType /\ UNCHANGED store => StoreType'
  BY DEF StoreType, store
LEMMA StickyFrame == StickyType /\ UNCHANGED sticky => StickyType'
  BY DEF StickyType, sticky

\* A step of one request thread, and of one admin thread.
LEMMA ReqUpdate ==
  ASSUME ThreadsType, NEW r \in Requests, NEW q \in ReqType,
         req' = [req EXCEPT ![r] = q], adm' = adm
  PROVE  ThreadsType'
  BY DEF ThreadsType

LEMMA AdmUpdate ==
  ASSUME ThreadsType, NEW t \in Admins, NEW a \in AdmType,
         adm' = [adm EXCEPT ![t] = a], req' = req
  PROVE  ThreadsType'
  BY DEF ThreadsType

\* A request thread moves on and keeps the object it holds.
LEMMA ReqMove ==
  ASSUME NEW q \in ReqType, q.pc # "idle", NEW pc \in ReqPc, NEW snap \in Columns
  PROVE  /\ [q EXCEPT !.pc = pc] \in ReqType
         /\ [q EXCEPT !.pc = pc, !.snap = snap] \in ReqType
         /\ [q EXCEPT !.mcp = TRUE] \in ReqType
  <1>1. q.id \in Ids /\ q.gen \in Gens /\ q.mcp \in BOOLEAN /\ q.snap \in Columns
    BY DEF ReqType
  <1> QED
    BY <1>1 DEF ReqType

\* The object a request thread holds exists.
LEMMA HeldType ==
  ASSUME TypeOK, NEW r \in Requests, req[r].pc # "idle"
  PROVE  /\ req[r] \in ReqType /\ req[r].gen \in Gens /\ req[r].id \in Ids
         /\ req[r].snap \in Columns
         /\ inFlight[req[r].gen][req[r].id] \in Nat
         /\ mem[req[r].gen][req[r].id] \in Columns
  <1>1. req[r] \in ReqType /\ req[r].gen \in Gens /\ req[r].id \in Ids /\ req[r].snap \in Columns
    BY DEF TypeOK, ThreadsType, ReqType
  <1> QED
    BY <1>1 DEF TypeOK, MemoryType

LEMMA InitType == Init => TypeOK
  <1> SUFFICES ASSUME Init PROVE TypeOK
    OBVIOUS
  <1>1. table \in [Ids -> Columns]
    BY DEF Init
  <1>2. nextId \in 1..(MaxId + 1) /\ rows \subseteq Ids /\ live \subseteq Ids
    BY Constants DEF Init, Ids
  <1>3. MemoryType
    BY <1>1, <1>2, Constants DEF Init, MemoryType
  <1>4. StoreType
    BY <1>1, <1>2 DEF Init, StoreType
  <1>5. StickyType
    BY DEF Init, StickyType
  <1>6. ThreadsType
    BY Constants DEF Init, ThreadsType
  <1> QED
    BY <1>3, <1>4, <1>5, <1>6 DEF TypeOK

\* What a pick may return: an account in the pool.
LEMMA ChoicesType ==
  ASSUME TypeOK, NEW r \in Requests, NEW exclude, NEW i \in Choices(r, exclude)
  PROVE  i \in live /\ i \in Ids
  BY DEF Choices, Enabled, Avail, Ready, LeastBusy, TypeOK, MemoryType

LEMMA PickType == ASSUME TypeOK, NEW r \in Requests, Pick(r) PROVE TypeOK'
  <1>1. PICK exclude \in SUBSET Ids : \E i \in Choices(r, exclude) :
          /\ inFlight' = [inFlight EXCEPT ![gen][i] = @ + 1]
          /\ req' = [req EXCEPT ![r] = [IdleReq EXCEPT !.pc = "stream", !.id = i, !.gen = gen]]
    BY DEF Pick
  <1>2. PICK i \in Choices(r, exclude) :
          /\ inFlight' = [inFlight EXCEPT ![gen][i] = @ + 1]
          /\ req' = [req EXCEPT ![r] = [IdleReq EXCEPT !.pc = "stream", !.id = i, !.gen = gen]]
    BY <1>1
  <1>3. i \in live /\ i \in Ids
    BY ChoicesType
  <1>4. MemoryType'
    BY <1>2, <1>3 DEF TypeOK, MemoryType, Pick
  <1>5. [IdleReq EXCEPT !.pc = "stream", !.id = i, !.gen = gen] \in ReqType
    BY <1>3, Constants DEF TypeOK, MemoryType, ReqType, IdleReq, ReqPc, Holding
  <1>6. ThreadsType'
    BY <1>2, <1>5, ReqUpdate DEF Pick, TypeOK
  <1> QED
    BY <1>4, <1>6, StoreFrame, StickyFrame DEF Pick, TypeOK

\* release keeps the counts natural numbers: it never goes below zero.
LEMMA ReleasedType ==
  ASSUME TypeOK, NEW r \in Requests, req[r].pc # "idle",
         inFlight' = Released(r), UNCHANGED <<gen, live, mem>>
  PROVE  MemoryType'
  <1>1. req[r].gen \in Gens /\ req[r].id \in Ids /\ inFlight[req[r].gen][req[r].id] \in Nat
    BY HeldType
  <1> DEFINE left == IF inFlight[req[r].gen][req[r].id] = 0 THEN 0
                     ELSE inFlight[req[r].gen][req[r].id] - 1
  <1>2. left \in Nat
    BY <1>1
  <1>3. inFlight' = [inFlight EXCEPT ![req[r].gen][req[r].id] = left]
    BY DEF Released
  <1> HIDE DEF left
  <1> QED
    BY <1>1, <1>2, <1>3 DEF TypeOK, MemoryType

LEMMA ReleaseType == ASSUME TypeOK, NEW r \in Requests, Release(r) PROVE TypeOK'
  <1>1. MemoryType'
    BY ReleasedType DEF Release
  <1>2. [req[r] EXCEPT !.pc = "marking"] \in ReqType
    BY HeldType, ReqMove, Constants DEF Release, ReqPc
  <1>3. ThreadsType'
    BY <1>2, Constants, ReqUpdate DEF Release, TypeOK
  <1> QED
    BY <1>1, <1>3, StoreFrame, StickyFrame DEF Release, TypeOK

LEMMA AbandonType == ASSUME TypeOK, NEW r \in Requests, Abandon(r) PROVE TypeOK'
  BY Constants, ReqUpdate, MemoryFrame, StoreFrame, StickyFrame DEF Abandon, TypeOK

LEMMA McpRetryType == ASSUME TypeOK, NEW r \in Requests, McpRetry(r) PROVE TypeOK'
  <1>1. MemoryType'
    BY ReleasedType DEF McpRetry
  <1>2. [req[r] EXCEPT !.mcp = TRUE] \in ReqType
    BY HeldType, ReqMove DEF McpRetry, ReqPc
  <1>3. ThreadsType'
    BY <1>2, ReqUpdate DEF McpRetry, TypeOK
  <1> QED
    BY <1>1, <1>3, StoreFrame, StickyFrame DEF McpRetry, TypeOK

LEMMA MarkedType ==
  ASSUME TypeOK, NEW r \in Requests, NEW cooling \in BOOLEAN, NEW pc \in ReqPc,
         req[r].pc # "idle", Marked(r, cooling, pc)
  PROVE  TypeOK'
  <1> DEFINE object == [mem[req[r].gen][req[r].id] EXCEPT !.cooling = cooling]
  <1>1. req[r] \in ReqType /\ req[r].gen \in Gens /\ req[r].id \in Ids
    BY HeldType
  <1>2. object \in Columns
    BY HeldType DEF Columns
  <1>3. /\ mem' = [mem EXCEPT ![req[r].gen][req[r].id] = object]
        /\ req' = [req EXCEPT ![r] = [req[r] EXCEPT !.pc = pc, !.snap = object]]
        /\ UNCHANGED <<gen, live, inFlight, store, sticky, adm>>
    BY DEF Marked
  <1> HIDE DEF object
  <1>4. MemoryType'
    BY <1>1, <1>2, <1>3 DEF TypeOK, MemoryType
  <1>5. ThreadsType'
    BY <1>1, <1>2, <1>3, ReqMove, ReqUpdate DEF TypeOK
  <1> QED
    BY <1>3, <1>4, <1>5, StoreFrame, StickyFrame DEF TypeOK

LEMMA MarkType == ASSUME TypeOK, NEW r \in Requests, MarkOk(r) \/ MarkFail(r) PROVE TypeOK'
  <1>1. {"saveOk", "saveFail", "streamSave"} \subseteq ReqPc
    BY DEF ReqPc, Holding
  <1>2. CASE MarkOk(r)
    BY <1>1, <1>2, MarkedType DEF MarkOk
  <1>3. CASE MarkFail(r)
    <2>1. PICK hard \in BOOLEAN :
            \/ /\ req[r].pc = "marking"
               /\ Marked(r, hard \/ mem[req[r].gen][req[r].id].cooling, "saveFail")
            \/ /\ req[r].pc = "stream"
               /\ Marked(r, hard \/ mem[req[r].gen][req[r].id].cooling, "streamSave")
      BY <1>3 DEF MarkFail
    <2>2. req[r].pc # "idle"
      BY <2>1
    <2>3. (hard \/ mem[req[r].gen][req[r].id].cooling) \in BOOLEAN
      OBVIOUS
    <2> QED
      BY <1>1, <2>1, <2>2, <2>3, MarkedType
  <1> QED
    BY <1>2, <1>3

LEMMA WrittenType ==
  ASSUME StoreType, NEW i, NEW columns \in Columns, table' = Written(i, columns),
         UNCHANGED <<rows, owner, nextId, tomb>>
  PROVE  StoreType'
  BY DEF Written, StoreType

LEMMA PersistType == ASSUME TypeOK, NEW r \in Requests, Persist(r) PROVE TypeOK'
  <1>1. req[r] \in ReqType /\ req[r].snap \in Columns
    BY HeldType DEF Persist
  <1>2. StoreType'
    <2>1. CASE table' = Written(req[r].id, req[r].snap)
      BY <1>1, <2>1, WrittenType DEF Persist, TypeOK
    <2>2. CASE table' = table
      BY <2>2, StoreFrame DEF Persist, TypeOK, store
    <2> QED
      BY <2>1, <2>2 DEF Persist
  <1>3. AfterSave(req[r]) \in ReqType
    <2>1. \/ AfterSave(req[r]) = IdleReq
          \/ AfterSave(req[r]) = [req[r] EXCEPT !.pc = "pin", !.snap = Fresh]
          \/ AfterSave(req[r]) = [req[r] EXCEPT !.pc = "streamEnd", !.snap = Fresh]
      BY DEF Persist, AfterSave
    <2>2. "pin" \in ReqPc /\ "streamEnd" \in ReqPc /\ req[r].pc # "idle"
      BY DEF ReqPc, Holding, Persist
    <2>3. \A pc \in ReqPc : [req[r] EXCEPT !.pc = pc, !.snap = Fresh] \in ReqType
      BY <1>1, <2>2, Constants, ReqMove
    <2> QED
      BY <2>1, <2>2, <2>3, Constants
  <1>4. ThreadsType'
    BY <1>3, ReqUpdate DEF Persist, TypeOK
  <1> QED
    BY <1>2, <1>4, MemoryFrame, StickyFrame DEF Persist, TypeOK

LEMMA PinMemType == ASSUME TypeOK, NEW r \in Requests, PinMem(r) PROVE TypeOK'
  <1>1. req[r] \in ReqType /\ req[r].id \in Ids
    BY HeldType DEF PinMem
  <1>2. StickyType'
    BY <1>1 DEF PinMem, TypeOK, StickyType
  <1>3. [req[r] EXCEPT !.pc = "pinStore"] \in ReqType
    BY <1>1, ReqMove, Constants DEF PinMem, ReqPc
  <1>4. \/ req' = [req EXCEPT ![r] = [req[r] EXCEPT !.pc = "pinStore"]]
        \/ req' = [req EXCEPT ![r] = IdleReq]
    BY DEF PinMem
  <1>5. ThreadsType'
    BY <1>3, <1>4, Constants, ReqUpdate DEF PinMem, TypeOK
  <1> QED
    BY <1>2, <1>5, MemoryFrame, StoreFrame DEF PinMem, TypeOK

LEMMA PinStoreType == ASSUME TypeOK, NEW r \in Requests, PinStore(r) PROVE TypeOK'
  <1>1. req[r].id \in Ids
    BY HeldType DEF PinStore
  <1>2. StickyType'
    BY <1>1 DEF PinStore, TypeOK, StickyType
  <1>3. ThreadsType'
    BY Constants, ReqUpdate DEF PinStore, TypeOK
  <1> QED
    BY <1>2, <1>3, MemoryFrame, StoreFrame DEF PinStore, TypeOK

-----------------------------------------------------------------------------
(* The admin console *)

\* The two ways an admin thread moves on from scratch.
LEMMA GotoType ==
  ASSUME TypeOK, NEW t \in Admins, req' = req,
         \/ Goto(t, "idle") \/ Goto(t, "reload")
         \/ \E pc \in {"probe", "delete"}, i \in live : GotoWith(t, pc, i)
  PROVE  ThreadsType'
  <1>1. CASE Goto(t, "idle") \/ Goto(t, "reload")
    <2>1. [IdleAdm EXCEPT !.pc = "idle"] \in AdmType /\ [IdleAdm EXCEPT !.pc = "reload"] \in AdmType
      BY Constants DEF IdleAdm, AdmType, AdmPc
    <2> QED
      BY <1>1, <2>1, AdmUpdate DEF Goto, TypeOK
  <1>2. ASSUME NEW pc \in {"probe", "delete"}, NEW i \in live, GotoWith(t, pc, i)
        PROVE  ThreadsType'
    <2>1. i \in Ids /\ gen \in Gens
      BY DEF TypeOK, MemoryType
    <2>2. [IdleAdm EXCEPT !.pc = pc, !.id = i, !.gen = gen] \in AdmType
      BY <2>1, Constants DEF IdleAdm, AdmType, AdmPc
    <2> QED
      BY <1>2, <2>2, AdmUpdate DEF GotoWith, TypeOK
  <1> QED
    BY <1>1, <1>2

\* The account an admin thread works on exists.
LEMMA WorkedType ==
  ASSUME TypeOK, NEW t \in Admins, adm[t].pc \in {"probe", "save", "delete", "pop"}
  PROVE  /\ adm[t] \in AdmType /\ adm[t].gen \in Gens /\ adm[t].id \in Ids
         /\ adm[t].snap \in Columns
         /\ mem[adm[t].gen][adm[t].id] \in Columns
  <1>1. adm[t] \in AdmType /\ adm[t].gen \in Gens /\ adm[t].id \in Ids /\ adm[t].snap \in Columns
    BY DEF TypeOK, ThreadsType, AdmType
  <1> QED
    BY <1>1 DEF TypeOK, MemoryType

LEMMA PatchType == ASSUME TypeOK, NEW t \in Admins, Patch(t) PROVE TypeOK'
  <1>1. CASE table' = table
    <2>1. StoreType'
      BY <1>1, StoreFrame DEF Patch, TypeOK, store
    <2> QED
      BY <2>1, GotoType, MemoryFrame, StickyFrame DEF Patch, TypeOK
  <1>2. CASE \E i \in live, disabled \in BOOLEAN, cap \in Caps :
              table' = Written(i, [table[i] EXCEPT !.disabled = disabled, !.max_concurrent = cap])
    <2>1. PICK i \in live, disabled \in BOOLEAN, cap \in Caps :
            table' = Written(i, [table[i] EXCEPT !.disabled = disabled, !.max_concurrent = cap])
      BY <1>2
    <2>2. [table[i] EXCEPT !.disabled = disabled, !.max_concurrent = cap] \in Columns
      <3>1. table[i] \in Columns
        BY DEF TypeOK, MemoryType, StoreType
      <3> QED
        BY <3>1 DEF Columns
    <2>3. StoreType'
      BY <2>1, <2>2, WrittenType DEF Patch, TypeOK
    <2> QED
      BY <2>3, GotoType, MemoryFrame, StickyFrame DEF Patch, TypeOK
  <1> QED
    BY <1>1, <1>2 DEF Patch

\* A reload or a restart: a new generation of objects.
LEMMA RebuiltType ==
  ASSUME TypeOK, gen < MaxGen, gen' = gen + 1, live' = rows,
         mem' = [mem EXCEPT ![gen + 1] = table],
         NEW counts \in [Ids -> Nat], inFlight' = [inFlight EXCEPT ![gen + 1] = counts]
  PROVE  MemoryType'
  <1>1. gen + 1 \in Gens /\ table \in [Ids -> Columns] /\ rows \subseteq Ids
    BY Constants DEF TypeOK, MemoryType, StoreType, Gens
  <1> QED
    BY <1>1 DEF TypeOK, MemoryType

LEMMA ReloadType ==
  ASSUME TypeOK, NEW t \in Admins, Reload(t) \/ ReloadReadError(t) PROVE TypeOK'
  <1>1. Carried \in [Ids -> Nat]
    BY DEF Carried, TypeOK, MemoryType
  <1>2. CASE Reload(t)
    <2>1. MemoryType'
      BY <1>1, <1>2, RebuiltType DEF Reload
    <2> QED
      BY <1>2, <2>1, GotoType, StoreFrame, StickyFrame DEF Reload, TypeOK
  <1>3. CASE ReloadReadError(t)
    <2>1. MemoryType'
      BY <1>3, Constants DEF ReloadReadError, TypeOK, MemoryType, Gens
    <2> QED
      BY <1>3, <2>1, GotoType, StoreFrame, StickyFrame DEF ReloadReadError, TypeOK
  <1> QED
    BY <1>2, <1>3

LEMMA ProbeType ==
  ASSUME TypeOK, NEW t \in Admins, Probe(t) \/ ProbeFailed(t) PROVE TypeOK'
  BY GotoType, MemoryFrame, StoreFrame, StickyFrame DEF Probe, ProbeFailed, TypeOK

LEMMA ProbeAnsweredType == ASSUME TypeOK, NEW t \in Admins, ProbeAnswered(t) PROVE TypeOK'
  <1>1. /\ adm[t] \in AdmType /\ adm[t].gen \in Gens /\ adm[t].id \in Ids
        /\ mem[adm[t].gen][adm[t].id] \in Columns
    BY WorkedType DEF ProbeAnswered
  <1>2. PICK cooling \in {FALSE, mem[adm[t].gen][adm[t].id].cooling} :
          LET object == [mem[adm[t].gen][adm[t].id] EXCEPT !.cooling = cooling] IN
          /\ mem' = [mem EXCEPT ![adm[t].gen][adm[t].id] = object]
          /\ adm' = [adm EXCEPT ![t].pc = "save", ![t].snap = object]
    BY DEF ProbeAnswered
  <1> DEFINE object == [mem[adm[t].gen][adm[t].id] EXCEPT !.cooling = cooling]
  <1>3. object \in Columns
    BY <1>1 DEF Columns
  <1>4. /\ mem' = [mem EXCEPT ![adm[t].gen][adm[t].id] = object]
        /\ adm' = [adm EXCEPT ![t] = [adm[t] EXCEPT !.pc = "save", !.snap = object]]
    BY <1>2
  <1> HIDE DEF object
  <1>5. MemoryType'
    BY <1>1, <1>3, <1>4 DEF ProbeAnswered, TypeOK, MemoryType
  <1>6. [adm[t] EXCEPT !.pc = "save", !.snap = object] \in AdmType
    BY <1>1, <1>3 DEF AdmType, AdmPc
  <1>7. ThreadsType'
    BY <1>4, <1>6, AdmUpdate DEF ProbeAnswered, TypeOK
  <1> QED
    BY <1>5, <1>7, StoreFrame, StickyFrame DEF ProbeAnswered, TypeOK

LEMMA ProbeSaveType == ASSUME TypeOK, NEW t \in Admins, ProbeSave(t) PROVE TypeOK'
  <1>1. StoreType'
    <2>1. CASE table' = table
      BY <2>1, StoreFrame DEF ProbeSave, TypeOK, store
    <2>2. CASE table' = Written(adm[t].id, adm[t].snap)
      BY <2>2, WorkedType, WrittenType DEF ProbeSave, TypeOK
    <2> QED
      BY <2>1, <2>2 DEF ProbeSave
  <1> QED
    BY <1>1, GotoType, MemoryFrame, StickyFrame DEF ProbeSave, TypeOK

LEMMA RemoveTombType == ASSUME TypeOK, NEW t \in Admins, RemoveTomb(t) PROVE TypeOK'
  <1>1. PICK i \in live : tomb' \in {tomb, tomb \cup {owner[i]}} /\ GotoWith(t, "delete", i)
    BY DEF RemoveTomb
  <1>2. i \in Ids
    BY DEF TypeOK, MemoryType
  <1>3. StoreType'
    BY <1>1, <1>2 DEF RemoveTomb, TypeOK, StoreType
  <1>4. ThreadsType'
    BY <1>1, GotoType DEF RemoveTomb
  <1> QED
    BY <1>3, <1>4, MemoryFrame, StickyFrame DEF RemoveTomb, TypeOK

LEMMA RemoveRowType == ASSUME TypeOK, NEW t \in Admins, RemoveRow(t) PROVE TypeOK'
  <1>1. StoreType' /\ StickyType'
    BY DEF RemoveRow, TypeOK, StoreType, StickyType
  <1>2. adm[t] \in AdmType /\ adm[t].id \in Ids
    BY WorkedType DEF RemoveRow
  <1>3. [adm[t] EXCEPT !.pc = "pop"] \in AdmType
    BY <1>2 DEF AdmType, AdmPc
  <1>4. ThreadsType'
    BY <1>3, AdmUpdate DEF RemoveRow, TypeOK
  <1> QED
    BY <1>1, <1>4, MemoryFrame DEF RemoveRow, TypeOK

LEMMA RemoveMemType == ASSUME TypeOK, NEW t \in Admins, RemoveMem(t) PROVE TypeOK'
  <1>1. MemoryType' /\ StickyType'
    BY DEF RemoveMem, TypeOK, MemoryType, StickyType
  <1> QED
    BY <1>1, GotoType, StoreFrame DEF RemoveMem, TypeOK

LEMMA AddCheckType == ASSUME TypeOK, NEW t \in Admins, AddCheck(t) PROVE TypeOK'
  <1>1. PICK token \in Tokens, manual, unread \in BOOLEAN :
          /\ tomb' \in {tomb, tomb \ {token}}
          /\ adm' = [adm EXCEPT ![t] = [IdleAdm EXCEPT !.pc = "insert", !.token = token]]
    BY DEF AddCheck
  <1>2. StoreType'
    BY <1>1 DEF AddCheck, TypeOK, StoreType
  <1>3. [IdleAdm EXCEPT !.pc = "insert", !.token = token] \in AdmType
    BY Constants DEF IdleAdm, AdmType, AdmPc
  <1>4. ThreadsType'
    BY <1>1, <1>3, AdmUpdate DEF AddCheck, TypeOK
  <1> QED
    BY <1>2, <1>4, MemoryFrame, StickyFrame DEF AddCheck, TypeOK

LEMMA AddRowType == ASSUME TypeOK, NEW t \in Admins, AddRow(t) PROVE TypeOK'
  <1>1. adm[t].token \in Tokens \cup {NoToken}
    BY DEF TypeOK, ThreadsType, AdmType
  <1>2. StoreType'
    <2>1. CASE UNCHANGED <<rows, table, owner, nextId>>
      BY <2>1 DEF AddRow, TypeOK, StoreType
    <2>2. CASE /\ nextId <= MaxId /\ rows' = rows \cup {NewId}
               /\ table' = [table EXCEPT ![NewId] = Fresh]
               /\ owner' = [owner EXCEPT ![NewId] = adm[t].token]
               /\ nextId' = nextId + 1
      <3>1. nextId \in Ids /\ nextId + 1 \in 1..(MaxId + 1)
        BY <2>2, Constants DEF TypeOK, StoreType, Ids
      <3>2. /\ rows' = rows \cup {nextId} /\ table' = [table EXCEPT ![nextId] = Fresh]
            /\ owner' = [owner EXCEPT ![nextId] = adm[t].token]
            /\ nextId' = nextId + 1 /\ tomb' = tomb
        BY <2>2 DEF AddRow, NewId
      <3> QED
        BY <1>1, <3>1, <3>2, Constants DEF TypeOK, StoreType
    <2> QED
      BY <2>1, <2>2 DEF AddRow
  <1>3. ThreadsType'
    BY GotoType DEF AddRow
  <1> QED
    BY <1>2, <1>3, MemoryFrame, StickyFrame DEF AddRow, TypeOK

LEMMA UnpinType ==
  ASSUME TypeOK, NEW t \in Admins, UnpinMem(t) \/ UnpinStore(t) PROVE TypeOK'
  <1>1. CASE UnpinMem(t)
    <2>1. PICK s \in Sessions :
            /\ pins' = [pins EXCEPT ![s] = 0]
            /\ adm' = [adm EXCEPT ![t] = [IdleAdm EXCEPT !.pc = "unpin", !.session = s]]
      BY <1>1 DEF UnpinMem
    <2>2. StickyType'
      BY <1>1, <2>1 DEF UnpinMem, TypeOK, StickyType
    <2>3. [IdleAdm EXCEPT !.pc = "unpin", !.session = s] \in AdmType
      BY Constants DEF IdleAdm, AdmType, AdmPc
    <2>4. ThreadsType'
      BY <1>1, <2>1, <2>3, AdmUpdate DEF UnpinMem, TypeOK
    <2> QED
      BY <1>1, <2>2, <2>4, MemoryFrame, StoreFrame DEF UnpinMem, TypeOK
  <1>2. CASE UnpinStore(t)
    <2>1. StickyType'
      BY <1>2 DEF UnpinStore, TypeOK, StickyType
    <2> QED
      BY <1>2, <2>1, GotoType, MemoryFrame, StoreFrame DEF UnpinStore, TypeOK
  <1> QED
    BY <1>1, <1>2

-----------------------------------------------------------------------------
(* Time, the pin flusher, and restarts *)

\* A thread whose snapshot's cooldown has passed.
LEMMA OverType ==
  /\ \A q \in ReqType : [q EXCEPT !.snap.cooling = FALSE] \in ReqType
  /\ \A a \in AdmType : [a EXCEPT !.snap.cooling = FALSE] \in AdmType
  <1>1. \A c \in Columns : [c EXCEPT !.cooling = FALSE] \in Columns
    BY DEF Columns
  <1>2. ASSUME NEW q \in ReqType PROVE [q EXCEPT !.snap.cooling = FALSE] \in ReqType
    <2> DEFINE snap == [q.snap EXCEPT !.cooling = FALSE]
    <2>1. snap \in Columns
      BY <1>1 DEF ReqType
    <2>2. [q EXCEPT !.snap.cooling = FALSE] = [q EXCEPT !.snap = snap]
      OBVIOUS
    <2> HIDE DEF snap
    <2> QED
      BY <2>1, <2>2 DEF ReqType
  <1>3. ASSUME NEW a \in AdmType PROVE [a EXCEPT !.snap.cooling = FALSE] \in AdmType
    <2> DEFINE snap == [a.snap EXCEPT !.cooling = FALSE]
    <2>1. snap \in Columns
      BY <1>1 DEF AdmType
    <2>2. [a EXCEPT !.snap.cooling = FALSE] = [a EXCEPT !.snap = snap]
      OBVIOUS
    <2> HIDE DEF snap
    <2> QED
      BY <2>1, <2>2 DEF AdmType
  <1> QED
    BY <1>2, <1>3

LEMMA CooldownOverType == ASSUME TypeOK, NEW i \in Ids, CooldownOver(i) PROVE TypeOK'
  <1>1. \A f \in [Ids -> Columns] : [f EXCEPT ![i].cooling = FALSE] \in [Ids -> Columns]
    <2> SUFFICES ASSUME NEW f \in [Ids -> Columns]
                 PROVE  [f EXCEPT ![i] = [f[i] EXCEPT !.cooling = FALSE]] \in [Ids -> Columns]
      OBVIOUS
    <2>1. [f[i] EXCEPT !.cooling = FALSE] \in Columns
      BY DEF Columns
    <2> QED
      BY <2>1
  <1>2. MemoryType'
    BY <1>1 DEF CooldownOver, TypeOK, MemoryType
  <1>3. StoreType'
    BY <1>1 DEF CooldownOver, TypeOK, StoreType
  <1>4. ThreadsType'
    BY OverType DEF CooldownOver, TypeOK, ThreadsType
  <1> QED
    BY <1>2, <1>3, <1>4, StickyFrame DEF CooldownOver, TypeOK

LEMMA FlushType == ASSUME TypeOK, FlushMem \/ PruneRows PROVE TypeOK'
  <1>1. StickyType'
    BY DEF FlushMem, PruneRows, TypeOK, StickyType
  <1>2. ThreadsType'
    BY DEF FlushMem, PruneRows, TypeOK, ThreadsType
  <1> QED
    BY <1>1, <1>2, MemoryFrame, StoreFrame DEF FlushMem, PruneRows, TypeOK

LEMMA RestartType == ASSUME TypeOK, Restart PROVE TypeOK'
  <1>1. MemoryType'
    <2>1. [i \in Ids |-> 0] \in [Ids -> Nat]
      OBVIOUS
    <2> QED
      BY <2>1, RebuiltType DEF Restart
  <1>2. StickyType'
    BY DEF Restart, TypeOK, StickyType
  <1>3. ThreadsType'
    BY Constants DEF Restart, ThreadsType
  <1> QED
    BY <1>1, <1>2, <1>3, StoreFrame DEF Restart, TypeOK

LEMMA RequestType ==
  ASSUME TypeOK, NEW r \in Requests, RequestStep(r) PROVE TypeOK'
  BY PickType, ReleaseType, AbandonType, McpRetryType, MarkType, PersistType, PinMemType,
     PinStoreType DEF RequestStep

LEMMA AdminType ==
  ASSUME TypeOK, NEW t \in Admins, AdminStep(t) PROVE TypeOK'
  BY PatchType, ReloadType, ProbeType, ProbeAnsweredType, ProbeSaveType, RemoveTombType,
     RemoveRowType, RemoveMemType, AddCheckType, AddRowType, UnpinType DEF AdminStep

LEMMA NextType == TypeOK /\ [Next]_vars => TypeOK'
  <1> SUFFICES ASSUME TypeOK, [Next]_vars PROVE TypeOK'
    OBVIOUS
  <1>1. CASE UNCHANGED vars
    BY <1>1, MemoryFrame, StoreFrame, StickyFrame DEF vars, TypeOK, ThreadsType
  <1>2. CASE Next
    BY <1>2, RequestType, AdminType, CooldownOverType, FlushType, RestartType DEF Next
  <1> QED
    BY <1>1, <1>2

\* Every reachable state is well typed: in particular no interleaving of
\* releases, reloads and double releases takes an in_flight counter below zero,
\* and no thread works on an id sqlite never handed out (accounts.py, Pool).
THEOREM PoolTypeOK == Spec => []TypeOK
  <1> QED
    BY InitType, NextType, PTL DEF Spec

-----------------------------------------------------------------------------
(* The in-flight counters never hide a stream, and the cap holds.  Two code  *)
(* paths break this, so the theorems exclude them by hypothesis: the MCP     *)
(* retry, which releases an account it goes on streaming on, and a failed    *)
(* SQLite call, which rebuilds the pool from no rows or leaves a removed row. *)

\* Holders of an account are countable.
LEMMA HoldersFinite ==
  ASSUME NEW i
  PROVE  IsFiniteSet(Holders(i)) /\ Cardinality(Holders(i)) \in Nat
  <1>1. Holders(i) \in SUBSET Requests
    BY DEF Holders
  <1>2. IsFiniteSet(Holders(i))
    BY <1>1, RequestsAssumption, FS_Subset
  <1> QED
    BY <1>2, FS_CardinalityType

LEMMA FewerHolders ==
  ASSUME NEW i, Holders(i)' \subseteq Holders(i)
  PROVE  /\ Cardinality(Holders(i)') <= Cardinality(Holders(i))
         /\ Cardinality(Holders(i)') \in Nat
  <1>1. IsFiniteSet(Holders(i))
    BY HoldersFinite
  <1>2. IsFiniteSet(Holders(i)') /\ Cardinality(Holders(i)') <= Cardinality(Holders(i))
    BY <1>1, FS_Subset
  <1> QED
    BY <1>2, FS_CardinalityType

\* A step that starts no stream and touches neither the pool nor the rows.
LEMMA QuietStep ==
  ASSUME TypeOK, InFlightInv, UNCHANGED <<gen, live, inFlight, rows, nextId>>,
         \A i \in Ids : Holders(i)' \subseteq Holders(i),
         \A t \in Admins : adm'[t].pc \in {"delete", "pop"} =>
            adm'[t].pc = adm[t].pc /\ adm'[t].id = adm[t].id
  PROVE  InFlightInv'
  <1>1. IdsAllotted'
    BY DEF InFlightInv, IdsAllotted
  <1>2. PoppedIsDeleted'
    BY DEF InFlightInv, PoppedIsDeleted
  <1>3. UnloadedIsIdle'
    BY DEF InFlightInv, UnloadedIsIdle, TypeOK, StoreType
  <1>4. InFlightCovers'
    <2> SUFFICES ASSUME NEW i \in live PROVE Cardinality(Holders(i)') <= inFlight[gen][i]
      BY DEF InFlightCovers
    <2>1. i \in Ids /\ inFlight[gen][i] \in Nat
      BY DEF TypeOK, MemoryType
    <2>2. Cardinality(Holders(i)) <= inFlight[gen][i] /\ Cardinality(Holders(i)) \in Nat
      BY HoldersFinite DEF InFlightInv, InFlightCovers
    <2> QED
      BY <2>1, <2>2, FewerHolders
  <1> QED
    BY <1>1, <1>2, <1>3, <1>4 DEF InFlightInv

\* A request thread that goes on with the account it holds, or stops holding one.
LEMMA SameHolders ==
  ASSUME TypeOK, NEW r \in Requests, NEW q, req' = [req EXCEPT ![r] = q],
         q.pc \in Holding => req[r].pc \in Holding /\ q.id = req[r].id
  PROVE  \A i \in Ids : Holders(i)' \subseteq Holders(i)
  BY DEF Holders, TypeOK, ThreadsType

LEMMA InitInFlight == Init => InFlightInv
  <1> SUFFICES ASSUME Init PROVE InFlightInv
    OBVIOUS
  <1>1. \A i : Holders(i) = {}
    BY DEF Init, Holders, IdleReq, Holding
  <1>2. rows \cup live = 1..(nextId - 1) /\ nextId \in 1..(MaxId + 1)
    BY DEF Init
  <1>3. IdsAllotted
    BY <1>1, <1>2, Constants DEF IdsAllotted, Init, IdleAdm
  <1>4. PoppedIsDeleted /\ UnloadedIsIdle
    BY <1>1 DEF PoppedIsDeleted, UnloadedIsIdle, Init, IdleAdm
  <1>5. InFlightCovers
    <2> SUFFICES ASSUME NEW i \in live PROVE Cardinality(Holders(i)) <= inFlight[gen][i]
      BY DEF InFlightCovers
    <2>1. Cardinality(Holders(i)) = 0
      BY <1>1, FS_EmptySet
    <2>2. i \in Ids
      BY <1>2, Constants DEF Ids
    <2>3. inFlight[gen][i] = 0
      BY <2>2, Constants DEF Init
    <2> QED
      BY <2>1, <2>3
  <1> QED
    BY <1>3, <1>4, <1>5 DEF InFlightInv

\* A pick counts the stream it starts.
LEMMA PickHolders ==
  ASSUME TypeOK, NEW r \in Requests, NEW i \in Ids, req[r].pc = "idle",
         req' = [req EXCEPT ![r] = [IdleReq EXCEPT !.pc = "stream", !.id = i, !.gen = gen]]
  PROVE  /\ Cardinality(Holders(i)') = Cardinality(Holders(i)) + 1
         /\ \A j \in Ids \ {i} : Holders(j)' = Holders(j)
         /\ Holders(i)' = Holders(i) \cup {r}
  <1> DEFINE q == [IdleReq EXCEPT !.pc = "stream", !.id = i, !.gen = gen]
  <1>1. q.pc = "stream" /\ q.id = i
    BY DEF IdleReq
  <1>2. req' = [req EXCEPT ![r] = q] /\ req \in [Requests -> ReqType]
    BY DEF TypeOK, ThreadsType
  <1> HIDE DEF q
  <1>3. r \notin Holders(i)
    BY DEF Holders, Holding
  <1>4. Holders(i)' = Holders(i) \cup {r}
    BY <1>1, <1>2 DEF Holders, Holding
  <1>5. \A j \in Ids \ {i} : Holders(j)' = Holders(j)
    BY <1>1, <1>2 DEF Holders, Holding
  <1> QED
    BY <1>3, <1>4, <1>5, HoldersFinite, FS_AddElement

LEMMA PickInFlight ==
  ASSUME TypeOK, InFlightInv, NEW r \in Requests, Pick(r) PROVE InFlightInv'
  <1>1. PICK exclude \in SUBSET Ids : \E i \in Choices(r, exclude) :
          /\ inFlight' = [inFlight EXCEPT ![gen][i] = @ + 1]
          /\ req' = [req EXCEPT ![r] = [IdleReq EXCEPT !.pc = "stream", !.id = i, !.gen = gen]]
    BY DEF Pick
  <1>2. PICK i \in Choices(r, exclude) :
          /\ inFlight' = [inFlight EXCEPT ![gen][i] = @ + 1]
          /\ req' = [req EXCEPT ![r] = [IdleReq EXCEPT !.pc = "stream", !.id = i, !.gen = gen]]
    BY <1>1
  <1>3. i \in live /\ i \in Ids /\ req[r].pc = "idle"
    BY ChoicesType DEF Pick
  <1>4. /\ Cardinality(Holders(i)') = Cardinality(Holders(i)) + 1
        /\ \A j \in Ids \ {i} : Holders(j)' = Holders(j)
    BY <1>2, <1>3, PickHolders
  <1>5. UNCHANGED <<gen, live, rows, nextId, adm>>
    BY DEF Pick, store
  <1>6. IdsAllotted'
    BY <1>3, <1>4, <1>5 DEF InFlightInv, IdsAllotted
  <1>7. PoppedIsDeleted'
    BY <1>5 DEF InFlightInv, PoppedIsDeleted
  <1>8. UnloadedIsIdle'
    BY <1>3, <1>4, <1>5 DEF InFlightInv, UnloadedIsIdle, TypeOK, StoreType
  <1>9. InFlightCovers'
    <2> SUFFICES ASSUME NEW j \in live PROVE Cardinality(Holders(j)') <= inFlight'[gen][j]
      BY <1>5 DEF InFlightCovers
    <2>1. /\ j \in Ids /\ gen \in Gens /\ inFlight \in [Gens -> [Ids -> Nat]]
          /\ Cardinality(Holders(j)) <= inFlight[gen][j]
      BY DEF TypeOK, MemoryType, InFlightInv, InFlightCovers
    <2>2. Cardinality(Holders(j)) \in Nat /\ inFlight[gen][j] \in Nat
      BY <2>1, HoldersFinite
    <2>3. inFlight'[gen][j] = IF j = i THEN inFlight[gen][j] + 1 ELSE inFlight[gen][j]
      BY <1>2, <1>3, <2>1
    <2>4. CASE j = i
      BY <1>4, <2>1, <2>2, <2>3, <2>4
    <2>5. CASE j # i
      BY <1>4, <2>1, <2>3, <2>5
    <2> QED
      BY <2>4, <2>5
  <1> QED
    BY <1>6, <1>7, <1>8, <1>9 DEF InFlightInv

\* A release takes one holder off the count of the object it releases.
LEMMA ReleaseInFlight ==
  ASSUME TypeOK, InFlightInv, NEW r \in Requests, Release(r) PROVE InFlightInv'
  <1>1. /\ req[r].pc \in Holding /\ req[r].id \in Ids /\ req[r].gen \in Gens
        /\ inFlight' = Released(r)
        /\ UNCHANGED <<gen, live, rows, nextId, adm>>
    BY HeldType DEF Release, Holding, store
  <1>2. PICK q : req' = [req EXCEPT ![r] = q] /\ q.pc \notin Holding
    <2>1. [req[r] EXCEPT !.pc = "marking"].pc \notin Holding /\ IdleReq.pc \notin Holding
      BY HeldType DEF Release, Holding, IdleReq, ReqType
    <2> QED
      BY <2>1 DEF Release
  <1>3. \A i \in Ids : Holders(i)' = Holders(i) \ {r}
    BY <1>2 DEF Holders, TypeOK, ThreadsType
  <1>4. \A i \in Ids : Holders(i)' \subseteq Holders(i)
    BY <1>3
  <1>5. IdsAllotted' /\ PoppedIsDeleted' /\ UnloadedIsIdle'
    BY <1>1, <1>4 DEF InFlightInv, IdsAllotted, PoppedIsDeleted, UnloadedIsIdle, TypeOK, StoreType
  <1>6. InFlightCovers'
    <2> SUFFICES ASSUME NEW i \in live PROVE Cardinality(Holders(i)') <= inFlight'[gen][i]
      BY <1>1 DEF InFlightCovers
    <2>1. /\ i \in Ids /\ gen \in Gens /\ inFlight \in [Gens -> [Ids -> Nat]]
          /\ Cardinality(Holders(i)) <= inFlight[gen][i]
      BY DEF TypeOK, MemoryType, InFlightInv, InFlightCovers
    <2>2. Cardinality(Holders(i)) \in Nat /\ inFlight[gen][i] \in Nat
      BY <2>1, HoldersFinite
    <2>3. CASE i = req[r].id
      <3>1. r \in Holders(i)
        BY <1>1, <2>3 DEF Holders
      <3>2. Cardinality(Holders(i)') = Cardinality(Holders(i)) - 1
        BY <1>3, <2>1, <3>1, HoldersFinite, FS_RemoveElement
      <3>3. inFlight'[gen][i] \in {inFlight[gen][i], inFlight[gen][i] - 1}
            \/ inFlight[gen][i] = 0
        BY <1>1, <2>1, <2>2 DEF Released
      <3>4. inFlight[gen][i] # 0
        BY <2>1, <2>2, <3>1, HoldersFinite, FS_EmptySet
      <3> QED
        BY <2>1, <2>2, <3>2, <3>3, <3>4
    <2>4. CASE i # req[r].id
      <3>1. inFlight'[gen][i] = inFlight[gen][i]
        BY <1>1, <2>1, <2>4 DEF Released
      <3> QED
        BY <1>4, <2>1, <2>2, <3>1, FewerHolders
    <2> QED
      BY <2>3, <2>4
  <1> QED
    BY <1>5, <1>6 DEF InFlightInv

\* Request steps between release and the next pick, marks and persists.
LEMMA OtherRequestInFlight ==
  ASSUME TypeOK, InFlightInv, NEW r \in Requests,
         \/ Abandon(r) \/ MarkOk(r) \/ MarkFail(r) \/ Persist(r) \/ PinMem(r) \/ PinStore(r)
  PROVE  InFlightInv'
  <1>1. UNCHANGED <<gen, live, inFlight, rows, nextId, adm>>
    BY DEF Abandon, MarkOk, MarkFail, Marked, Persist, PinMem, PinStore, memory, store
  <1>2. \E q : /\ req' = [req EXCEPT ![r] = q]
               /\ q.pc \in Holding => req[r].pc \in Holding /\ q.id = req[r].id
    <2>1. req[r].pc # "idle" => req[r] \in ReqType
      BY DEF TypeOK, ThreadsType
    <2>2. IdleReq.pc \notin Holding
      BY DEF IdleReq, Holding
    <2>3. CASE Abandon(r) \/ PinStore(r)
      BY <2>2, <2>3 DEF Abandon, PinStore
    <2>4. CASE MarkOk(r) \/ MarkFail(r)
      <3>0. \E pc, cooling : /\ Marked(r, cooling, pc) /\ req[r].pc \in {"marking", "stream"}
                             /\ pc \in Holding => req[r].pc \in Holding
        <4>1. CASE MarkOk(r)
          <5>1. Marked(r, FALSE, "saveOk") /\ req[r].pc \in {"marking", "stream"}
            BY <4>1 DEF MarkOk
          <5>2. "saveOk" \notin Holding
            BY DEF Holding
          <5> QED
            BY <5>1, <5>2
        <4>2. CASE MarkFail(r)
          <5>1. PICK hard \in BOOLEAN :
                  \/ /\ req[r].pc = "marking"
                     /\ Marked(r, hard \/ mem[req[r].gen][req[r].id].cooling, "saveFail")
                  \/ /\ req[r].pc = "stream"
                     /\ Marked(r, hard \/ mem[req[r].gen][req[r].id].cooling, "streamSave")
            BY <4>2 DEF MarkFail
          <5>2. "stream" \in Holding /\ "saveFail" \notin Holding
            BY DEF Holding
          <5> QED
            BY <5>1, <5>2
        <4> QED
          BY <2>4, <4>1, <4>2
      <3>1. PICK pc, cooling : /\ Marked(r, cooling, pc) /\ req[r].pc \in {"marking", "stream"}
                               /\ pc \in Holding => req[r].pc \in Holding
        BY <3>0
      <3> DEFINE object == [mem[req[r].gen][req[r].id] EXCEPT !.cooling = cooling]
      <3>2. req' = [req EXCEPT ![r] = [req[r] EXCEPT !.pc = pc, !.snap = object]]
        BY <3>1 DEF Marked
      <3>3. /\ [req[r] EXCEPT !.pc = pc, !.snap = object].pc = pc
            /\ [req[r] EXCEPT !.pc = pc, !.snap = object].id = req[r].id
        <4> HIDE DEF object
        <4> QED
          BY <2>1, <3>1 DEF ReqType
      <3> QED
        BY <3>1, <3>2, <3>3
    <2>5. CASE Persist(r)
      <3>1. req' = [req EXCEPT ![r] = AfterSave(req[r])]
        BY <2>5 DEF Persist
      <3>2. AfterSave(req[r]).pc \in Holding =>
              req[r].pc \in Holding /\ AfterSave(req[r]).id = req[r].id
        BY <2>1, <2>2, <2>5 DEF Persist, AfterSave, Holding, ReqType
      <3> QED
        BY <3>1, <3>2
    <2>6. CASE PinMem(r)
      <3>1. [req[r] EXCEPT !.pc = "pinStore"].pc \notin Holding
        BY <2>1, <2>6 DEF PinMem, Holding, ReqType
      <3>2. \/ req' = [req EXCEPT ![r] = [req[r] EXCEPT !.pc = "pinStore"]]
            \/ req' = [req EXCEPT ![r] = IdleReq]
        BY <2>6 DEF PinMem
      <3> QED
        BY <2>2, <3>1, <3>2
    <2> QED
      BY <2>3, <2>4, <2>5, <2>6
  <1>3. \A i \in Ids : Holders(i)' \subseteq Holders(i)
    BY <1>2, SameHolders
  <1> QED
    BY <1>1, <1>3, QuietStep

\* A step that leaves the requests alone leaves the holders alone.
LEMMA HoldersFrame == req' = req => \A i : Holders(i)' = Holders(i)
  BY DEF Holders

\* Admin steps that neither rebuild the pool nor add or remove a row.
LEMMA OtherAdminInFlight ==
  ASSUME TypeOK, InFlightInv, NEW t \in Admins,
         \/ Patch(t) \/ Probe(t) \/ ProbeAnswered(t) \/ ProbeFailed(t) \/ ProbeSave(t)
         \/ AddCheck(t) \/ UnpinMem(t) \/ UnpinStore(t)
  PROVE  InFlightInv'
  <1>1. UNCHANGED <<gen, live, inFlight, rows, nextId, req>>
    BY DEF Patch, Probe, ProbeAnswered, ProbeFailed, ProbeSave, AddCheck, UnpinMem, UnpinStore,
           memory, store
  <1>2. \E a : adm' = [adm EXCEPT ![t] = a] /\ a.pc \notin {"delete", "pop"}
    <2>1. adm[t] \in AdmType
      BY DEF TypeOK, ThreadsType
    <2>2. CASE Patch(t) \/ ProbeFailed(t) \/ ProbeSave(t) \/ UnpinStore(t)
      <3>1. PICK pc \in {"idle", "reload"} : adm' = [adm EXCEPT ![t] = [IdleAdm EXCEPT !.pc = pc]]
        BY <2>2 DEF Patch, ProbeFailed, ProbeSave, UnpinStore, Goto
      <3>2. [IdleAdm EXCEPT !.pc = pc].pc = pc
        BY DEF IdleAdm
      <3> QED
        BY <3>1, <3>2
    <2>3. CASE Probe(t)
      <3>1. PICK i \in live :
              adm' = [adm EXCEPT ![t] = [IdleAdm EXCEPT !.pc = "probe", !.id = i, !.gen = gen]]
        BY <2>3 DEF Probe, GotoWith
      <3>2. [IdleAdm EXCEPT !.pc = "probe", !.id = i, !.gen = gen].pc = "probe"
        BY DEF IdleAdm
      <3> QED
        BY <3>1, <3>2
    <2>4. CASE ProbeAnswered(t)
      <3>1. PICK object : adm' = [adm EXCEPT ![t] = [adm[t] EXCEPT !.pc = "save", !.snap = object]]
        BY <2>4 DEF ProbeAnswered
      <3>2. [adm[t] EXCEPT !.pc = "save", !.snap = object].pc = "save"
        BY <2>1 DEF AdmType
      <3> QED
        BY <3>1, <3>2
    <2>5. CASE AddCheck(t)
      <3>1. PICK token : adm' = [adm EXCEPT ![t] = [IdleAdm EXCEPT !.pc = "insert", !.token = token]]
        BY <2>5 DEF AddCheck
      <3>2. [IdleAdm EXCEPT !.pc = "insert", !.token = token].pc = "insert"
        BY DEF IdleAdm
      <3> QED
        BY <3>1, <3>2
    <2>6. CASE UnpinMem(t)
      <3>1. PICK s : adm' = [adm EXCEPT ![t] = [IdleAdm EXCEPT !.pc = "unpin", !.session = s]]
        BY <2>6 DEF UnpinMem
      <3>2. [IdleAdm EXCEPT !.pc = "unpin", !.session = s].pc = "unpin"
        BY DEF IdleAdm
      <3> QED
        BY <3>1, <3>2
    <2> QED
      BY <2>2, <2>3, <2>4, <2>5, <2>6
  <1>3. \A u \in Admins : adm'[u].pc \in {"delete", "pop"} =>
           adm'[u].pc = adm[u].pc /\ adm'[u].id = adm[u].id
    BY <1>2 DEF TypeOK, ThreadsType
  <1>4. \A i \in Ids : Holders(i)' \subseteq Holders(i)
    BY <1>1, HoldersFrame
  <1> QED
    BY <1>1, <1>3, <1>4, QuietStep

\* A new generation: counts are carried over for the accounts that stay, and
\* an account that is new in memory has no streams yet.
LEMMA ReloadInFlight ==
  ASSUME TypeOK, InFlightInv, NEW t \in Admins, Reload(t) PROVE InFlightInv'
  <1>1. /\ gen' = gen + 1 /\ live' = rows /\ inFlight' = [inFlight EXCEPT ![gen + 1] = Carried]
        /\ UNCHANGED <<rows, nextId, req>>
    BY DEF Reload, store
  <1>2. gen + 1 \in Gens
    BY Constants DEF Reload, TypeOK, MemoryType, Gens
  <1>3. \A i : Holders(i)' = Holders(i)
    BY <1>1, HoldersFrame
  <1>4. \A u \in Admins : adm'[u].pc \in {"delete", "pop"} => adm'[u] = adm[u]
    BY DEF Reload, Goto, IdleAdm, TypeOK, ThreadsType
  <1>5. IdsAllotted' /\ PoppedIsDeleted' /\ UnloadedIsIdle'
    BY <1>1, <1>3, <1>4 DEF InFlightInv, IdsAllotted, PoppedIsDeleted, UnloadedIsIdle
  <1>6. InFlightCovers'
    <2> SUFFICES ASSUME NEW i \in rows PROVE Cardinality(Holders(i)) <= inFlight'[gen + 1][i]
      BY <1>1, <1>3 DEF InFlightCovers
    <2>1. i \in Ids
      BY DEF TypeOK, StoreType
    <2>2. inFlight'[gen + 1][i] = IF i \in live THEN inFlight[gen][i] ELSE 0
      BY <1>1, <1>2, <2>1 DEF Carried, TypeOK, MemoryType
    <2>3. CASE i \in live
      BY <2>2, <2>3 DEF InFlightInv, InFlightCovers
    <2>4. CASE i \notin live
      BY <2>2, <2>4, FS_EmptySet DEF InFlightInv, UnloadedIsIdle
    <2> QED
      BY <2>3, <2>4
  <1> QED
    BY <1>5, <1>6 DEF InFlightInv

\* Removal: the row goes first, so a reload in between drops the account, and
\* the object only leaves memory after it.
LEMMA RemoveInFlight ==
  ASSUME StoreErrors = FALSE, TypeOK, InFlightInv, NEW t \in Admins,
         RemoveTomb(t) \/ RemoveRow(t) \/ RemoveMem(t)
  PROVE  InFlightInv'
  <1>1. UNCHANGED <<gen, inFlight, nextId, req>>
    BY DEF RemoveTomb, RemoveRow, RemoveMem, memory, store
  <1>2. \A i : Holders(i)' = Holders(i)
    BY <1>1, HoldersFrame
  <1>3. live' \subseteq live /\ rows' \subseteq rows
    BY DEF RemoveTomb, RemoveRow, RemoveMem, memory, store
  <1>4. InFlightCovers'
    BY <1>1, <1>2, <1>3 DEF InFlightInv, InFlightCovers
  <1>5. CASE RemoveTomb(t)
    <2>1. PICK i \in live : GotoWith(t, "delete", i)
      BY <1>5 DEF RemoveTomb
    <2>2. \A u \in Admins : IF u = t THEN adm'[u].pc = "delete" /\ adm'[u].id = i
                                     ELSE adm'[u] = adm[u]
      BY <2>1 DEF GotoWith, IdleAdm, TypeOK, ThreadsType
    <2>3. UNCHANGED <<live, rows>>
      BY <1>5 DEF RemoveTomb, memory
    <2>4. IdsAllotted' /\ PoppedIsDeleted' /\ UnloadedIsIdle'
      BY <1>1, <1>2, <2>2, <2>3 DEF InFlightInv, IdsAllotted, PoppedIsDeleted, UnloadedIsIdle
    <2> QED
      BY <1>4, <2>4 DEF InFlightInv
  <1>6. CASE RemoveRow(t)
    <2>1. adm[t] \in AdmType /\ adm[t].pc = "delete"
      BY <1>6 DEF RemoveRow, TypeOK, ThreadsType
    <2>2. \A u \in Admins : IF u = t THEN adm'[u].pc = "pop" /\ adm'[u].id = adm[t].id
                                     ELSE adm'[u] = adm[u]
      BY <1>6, <2>1 DEF RemoveRow, TypeOK, ThreadsType, AdmType
    <2>3. live' = live /\ rows' = rows \ {adm[t].id}
      BY <1>6 DEF RemoveRow, memory
    <2>4. IdsAllotted' /\ PoppedIsDeleted' /\ UnloadedIsIdle'
      BY <1>1, <1>2, <2>1, <2>2, <2>3
      DEF InFlightInv, IdsAllotted, PoppedIsDeleted, UnloadedIsIdle
    <2> QED
      BY <1>4, <2>4 DEF InFlightInv
  <1>7. CASE RemoveMem(t)
    <2>1. adm[t].id \notin rows
      BY <1>7 DEF RemoveMem, InFlightInv, PoppedIsDeleted
    <2>2. \A u \in Admins : IF u = t THEN adm'[u].pc = "idle" ELSE adm'[u] = adm[u]
      BY <1>7 DEF RemoveMem, Goto, IdleAdm, TypeOK, ThreadsType
    <2>3. live' = live \ {adm[t].id} /\ rows' = rows
      BY <1>7 DEF RemoveMem, store
    <2>4. IdsAllotted' /\ PoppedIsDeleted' /\ UnloadedIsIdle'
      BY <1>1, <1>2, <2>1, <2>2, <2>3
      DEF InFlightInv, IdsAllotted, PoppedIsDeleted, UnloadedIsIdle
    <2> QED
      BY <1>4, <2>4 DEF InFlightInv
  <1> QED
    BY <1>5, <1>6, <1>7

\* An added account gets an id nobody streams on, in memory or deleted.
LEMMA AddRowInFlight ==
  ASSUME TypeOK, InFlightInv, NEW t \in Admins, AddRow(t) PROVE InFlightInv'
  <1>1. UNCHANGED <<gen, live, inFlight, req>>
    BY DEF AddRow, memory
  <1>2. \A i : Holders(i)' = Holders(i)
    BY <1>1, HoldersFrame
  <1>3. \A u \in Admins : adm'[u].pc \in {"delete", "pop"} => adm'[u] = adm[u]
    BY DEF AddRow, Goto, IdleAdm, TypeOK, ThreadsType
  <1>4. nextId \in Nat /\ (nextId \in Ids => Holders(nextId) = {}) /\ nextId \notin live
    BY Constants DEF TypeOK, StoreType, InFlightInv, IdsAllotted
  <1>5. \/ UNCHANGED <<rows, nextId>>
        \/ /\ rows' = rows \cup {nextId} /\ nextId' = nextId + 1 /\ nextId \in Ids
    BY Constants DEF AddRow, NewId, TypeOK, StoreType, Ids
  <1>6. \A i \in rows \cup live : i \in Nat
    BY Constants DEF TypeOK, StoreType, MemoryType
  <1>7. \A u \in Admins : adm[u].pc \in {"delete", "pop"} => adm[u].id \in Nat
    BY Constants DEF TypeOK, ThreadsType, AdmType
  <1>8. IdsAllotted'
    BY <1>1, <1>2, <1>3, <1>4, <1>5, <1>6, <1>7, Constants DEF InFlightInv, IdsAllotted
  <1>9. PoppedIsDeleted'
    BY <1>3, <1>4, <1>5, <1>7 DEF InFlightInv, IdsAllotted, PoppedIsDeleted
  <1>10. UnloadedIsIdle'
    BY <1>1, <1>2, <1>4, <1>5 DEF InFlightInv, UnloadedIsIdle
  <1>11. InFlightCovers'
    BY <1>1, <1>2 DEF InFlightInv, InFlightCovers
  <1> QED
    BY <1>8, <1>9, <1>10, <1>11 DEF InFlightInv

LEMMA CooldownInFlight ==
  ASSUME TypeOK, InFlightInv, NEW i \in Ids, CooldownOver(i) PROVE InFlightInv'
  <1> DEFINE over(thread) == IF thread.id = i THEN [thread EXCEPT !.snap.cooling = FALSE] ELSE thread
  <1>1. /\ \A r \in Requests : req'[r] = over(req[r])
        /\ \A t \in Admins : adm'[t] = over(adm[t])
    BY DEF CooldownOver
  <1>2. /\ \A r \in Requests : req[r] \in ReqType
        /\ \A t \in Admins : adm[t] \in AdmType
    BY DEF TypeOK, ThreadsType
  <1>3. \A q \in ReqType : over(q).pc = q.pc /\ over(q).id = q.id
    BY DEF ReqType
  <1>4. \A a \in AdmType : over(a).pc = a.pc /\ over(a).id = a.id
    BY DEF AdmType
  <1> HIDE DEF over
  <1>5. \A j \in Ids : Holders(j)' \subseteq Holders(j)
    BY <1>1, <1>2, <1>3 DEF Holders
  <1>6. UNCHANGED <<gen, live, inFlight, rows, nextId>>
    BY DEF CooldownOver
  <1> QED
    BY <1>1, <1>2, <1>4, <1>5, <1>6, QuietStep

LEMMA RestartInFlight == ASSUME TypeOK, InFlightInv, Restart PROVE InFlightInv'
  <1>1. /\ gen' = gen + 1 /\ live' = rows
        /\ inFlight' = [inFlight EXCEPT ![gen + 1] = [i \in Ids |-> 0]]
        /\ UNCHANGED <<rows, nextId>>
    BY DEF Restart, store
  <1>2. gen + 1 \in Gens
    BY Constants DEF Restart, TypeOK, MemoryType, Gens
  <1>3. \A i : Holders(i)' = {}
    BY DEF Restart, Holders, Holding, IdleReq
  <1>4. \A t \in Admins : adm'[t].pc = "idle"
    BY DEF Restart, IdleAdm
  <1>5. IdsAllotted' /\ PoppedIsDeleted' /\ UnloadedIsIdle'
    BY <1>1, <1>3, <1>4 DEF InFlightInv, IdsAllotted, PoppedIsDeleted, UnloadedIsIdle
  <1>6. InFlightCovers'
    <2> SUFFICES ASSUME NEW i \in rows PROVE Cardinality(Holders(i)') <= inFlight'[gen + 1][i]
      BY <1>1 DEF InFlightCovers
    <2>1. i \in Ids
      BY DEF TypeOK, StoreType
    <2>2. inFlight'[gen + 1][i] = 0
      BY <1>1, <1>2, <2>1 DEF TypeOK, MemoryType
    <2>3. Cardinality(Holders(i)') = 0
      BY <1>3, FS_EmptySet
    <2> QED
      BY <2>2, <2>3
  <1> QED
    BY <1>5, <1>6 DEF InFlightInv

LEMMA NextInFlight ==
  ASSUME ToolRequests = {}, StoreErrors = FALSE, TypeOK, InFlightInv, [Next]_vars
  PROVE  InFlightInv'
  <1>1. CASE UNCHANGED vars
    BY <1>1, QuietStep, HoldersFrame DEF vars, memory, store
  <1>2. ASSUME NEW r \in Requests, RequestStep(r) PROVE InFlightInv'
    BY <1>2, PickInFlight, ReleaseInFlight, OtherRequestInFlight DEF RequestStep, McpRetry
  <1>3. ASSUME NEW t \in Admins, AdminStep(t) PROVE InFlightInv'
    BY <1>3, OtherAdminInFlight, ReloadInFlight, RemoveInFlight, AddRowInFlight
    DEF AdminStep, ReloadReadError
  <1>4. ASSUME NEW i \in Ids, CooldownOver(i) PROVE InFlightInv'
    BY <1>4, CooldownInFlight
  <1>5. CASE FlushMem \/ PruneRows
    <2>1. UNCHANGED <<gen, live, inFlight, rows, nextId, req, adm>>
      BY <1>5 DEF FlushMem, PruneRows, memory, store
    <2> QED
      BY <2>1, QuietStep, HoldersFrame
  <1>6. CASE Restart
    BY <1>6, RestartInFlight
  <1> QED
    BY <1>1, <1>2, <1>3, <1>4, <1>5, <1>6 DEF Next

\* However reloads, removals, restarts and requests interleave, the count the
\* scheduler compares with the cap is at least the number of requests
\* streaming on the account (Pool.reload copies in_flight; Pool.pick and
\* Pool.release keep it).
THEOREM PoolInFlightCovers ==
  ASSUME ToolRequests = {}, StoreErrors = FALSE
  PROVE  Spec => []InFlightCovers
  <1>1. Init => TypeOK /\ InFlightInv
    BY InitType, InitInFlight
  <1>2. TypeOK /\ InFlightInv /\ [Next]_vars => (TypeOK /\ InFlightInv)'
    BY NextType, NextInFlight
  <1>3. InFlightInv => InFlightCovers
    BY DEF InFlightInv
  <1> QED
    BY <1>1, <1>2, <1>3, PTL DEF Spec

\* A step that changes neither the accounts nor a call about to reload or pop.
LEMMA MirrorsKept ==
  ASSUME PoolMirrorsRows, UNCHANGED <<live, rows>>,
         \A u \in Admins : adm[u].pc \in {"reload", "pop"} =>
            adm'[u].pc = adm[u].pc /\ adm'[u].id = adm[u].id
  PROVE  PoolMirrorsRows'
  BY DEF PoolMirrorsRows

LEMMA AdminMirrors ==
  ASSUME StoreErrors = FALSE, TypeOK, InFlightInv, PoolMirrorsRows,
         NEW t \in Admins, AdminStep(t)
  PROVE  PoolMirrorsRows'
  <1>1. CASE \/ Patch(t) \/ Probe(t) \/ ProbeAnswered(t) \/ ProbeFailed(t) \/ ProbeSave(t)
             \/ AddCheck(t) \/ UnpinMem(t) \/ UnpinStore(t) \/ RemoveTomb(t)
    <2>1. UNCHANGED <<live, rows>> /\ adm[t].pc \notin {"reload", "pop"}
      BY <1>1 DEF Patch, Probe, ProbeAnswered, ProbeFailed, ProbeSave, AddCheck, UnpinMem,
         UnpinStore, RemoveTomb, memory, store
    <2>2. \A u \in Admins \ {t} : adm'[u] = adm[u]
      BY <1>1 DEF Patch, Probe, ProbeAnswered, ProbeFailed, ProbeSave, AddCheck, UnpinMem,
         UnpinStore, RemoveTomb, Goto, GotoWith, TypeOK, ThreadsType
    <2> QED
      BY <2>1, <2>2, MirrorsKept
  <1>2. CASE Reload(t)
    <2>1. live' = rows /\ rows' = rows
      BY <1>2 DEF Reload, store
    <2> QED
      BY <2>1 DEF PoolMirrorsRows
  <1>3. CASE RemoveRow(t)
    <2>1. live' = live /\ rows' = rows \ {adm[t].id} /\ adm[t].pc = "delete"
      BY <1>3 DEF RemoveRow, memory
    <2>2. \A u \in Admins : IF u = t THEN adm'[u].pc = "pop" /\ adm'[u].id = adm[t].id
                                     ELSE adm'[u] = adm[u]
      BY <1>3 DEF RemoveRow, TypeOK, ThreadsType, AdmType
    <2> QED
      BY <2>1, <2>2 DEF PoolMirrorsRows
  <1>4. CASE RemoveMem(t)
    <2>1. live' = live \ {adm[t].id} /\ rows' = rows /\ adm[t].pc = "pop"
      BY <1>4 DEF RemoveMem, store
    <2>2. adm[t].id \notin rows
      BY <2>1 DEF InFlightInv, PoppedIsDeleted
    <2>3. \A u \in Admins \ {t} : adm'[u] = adm[u]
      BY <1>4 DEF RemoveMem, Goto, TypeOK, ThreadsType
    <2> QED
      BY <2>1, <2>2, <2>3 DEF PoolMirrorsRows
  <1>5. CASE AddRow(t)
    <2>1. live' = live /\ adm[t].pc = "insert"
      BY <1>5 DEF AddRow, memory
    <2>2. \A u \in Admins \ {t} : adm'[u] = adm[u]
      BY <1>5 DEF AddRow, Goto, TypeOK, ThreadsType
    <2>3. \/ rows' = rows
          \/ adm'[t].pc = "reload" /\ rows \subseteq rows'
      BY <1>5 DEF AddRow, Goto, IdleAdm, TypeOK, ThreadsType
    <2> QED
      BY <2>1, <2>2, <2>3 DEF PoolMirrorsRows
  <1> QED
    BY <1>1, <1>2, <1>3, <1>4, <1>5 DEF AdminStep, ReloadReadError

LEMMA NextMirrors ==
  ASSUME StoreErrors = FALSE, TypeOK, InFlightInv, PoolMirrorsRows, [Next]_vars
  PROVE  PoolMirrorsRows'
  <1>1. CASE UNCHANGED vars \/ FlushMem \/ PruneRows \/ \E r \in Requests : RequestStep(r)
    <2>1. UNCHANGED <<live, rows, adm>>
      BY <1>1 DEF vars, memory, store, FlushMem, PruneRows, RequestStep, Pick, Release, Abandon,
         McpRetry, MarkOk, MarkFail, Marked, Persist, PinMem, PinStore
    <2> QED
      BY <2>1, MirrorsKept
  <1>2. ASSUME NEW i \in Ids, CooldownOver(i) PROVE PoolMirrorsRows'
    <2> DEFINE over(thread) ==
          IF thread.id = i THEN [thread EXCEPT !.snap.cooling = FALSE] ELSE thread
    <2>1. UNCHANGED <<live, rows>> /\ \A t \in Admins : adm'[t] = over(adm[t])
      BY <1>2 DEF CooldownOver
    <2>2. \A a \in AdmType : over(a).pc = a.pc /\ over(a).id = a.id
      BY DEF AdmType
    <2> HIDE DEF over
    <2>3. \A t \in Admins : adm[t] \in AdmType
      BY DEF TypeOK, ThreadsType
    <2> QED
      BY <2>1, <2>2, <2>3, MirrorsKept
  <1>3. CASE Restart
    <2>1. live' = rows /\ rows' = rows
      BY <1>3 DEF Restart, store
    <2> QED
      BY <2>1 DEF PoolMirrorsRows
  <1>4. ASSUME NEW t \in Admins, AdminStep(t) PROVE PoolMirrorsRows'
    BY <1>4, AdminMirrors
  <1> QED
    BY <1>1, <1>2, <1>3, <1>4, Zenon DEF Next

\* However adds, removals, reloads and restarts overlap, the accounts in
\* memory are those in the store, but for one that is being added or removed
\* at this moment (Pool.add, Pool.remove and Pool.reload).
THEOREM PoolMirrors ==
  ASSUME ToolRequests = {}, StoreErrors = FALSE
  PROVE  Spec => []PoolMirrorsRows
  <1>1. Init => TypeOK /\ InFlightInv /\ PoolMirrorsRows
    BY InitType, InitInFlight DEF Init, PoolMirrorsRows
  <1>2. TypeOK /\ InFlightInv /\ PoolMirrorsRows /\ [Next]_vars
          => (TypeOK /\ InFlightInv /\ PoolMirrorsRows)'
    BY NextType, NextInFlight, NextMirrors
  <1> QED
    BY <1>1, <1>2, PTL DEF Spec

\* A request thread starts a stream only by a pick.
LEMMA OnlyPickStarts ==
  ASSUME TypeOK, [Next]_vars, NEW r \in Requests, req[r].pc = "idle", req'[r].pc = "stream"
  PROVE  Pick(r)
  <1>1. CASE UNCHANGED vars
    BY <1>1 DEF vars
  <1>2. ASSUME NEW q \in Requests, RequestStep(q) PROVE Pick(r)
    <2>1. CASE q = r
      BY <1>2, <2>1 DEF RequestStep, Release, Abandon, McpRetry, MarkOk, MarkFail, Persist, PinMem,
                       PinStore
    <2>2. CASE q # r
      <3>1. \E x : req' = [req EXCEPT ![q] = x]
        BY <1>2 DEF RequestStep, Pick, Release, Abandon, McpRetry, MarkOk, MarkFail, Marked,
                    Persist, PinMem, PinStore
      <3> QED
        BY <2>2, <3>1 DEF TypeOK, ThreadsType
    <2> QED
      BY <2>1, <2>2
  <1>3. ASSUME NEW t \in Admins, AdminStep(t) PROVE Pick(r)
    <2>1. req' = req
      BY <1>3 DEF AdminStep, Patch, Reload, ReloadReadError, Probe, ProbeAnswered, ProbeFailed,
                  ProbeSave, RemoveTomb, RemoveRow, RemoveMem, AddCheck, AddRow, UnpinMem, UnpinStore
    <2> QED
      BY <2>1
  <1>4. ASSUME NEW i \in Ids, CooldownOver(i) PROVE Pick(r)
    <2>1. req[r] \in ReqType
      BY DEF TypeOK, ThreadsType
    <2>2. req'[r] = req[r] \/ req'[r] = [req[r] EXCEPT !.snap.cooling = FALSE]
      BY <1>4 DEF CooldownOver
    <2>3. req'[r].pc = req[r].pc
      BY <2>1, <2>2 DEF ReqType
    <2> QED
      BY <2>3
  <1>5. CASE FlushMem \/ PruneRows
    BY <1>5 DEF FlushMem, PruneRows
  <1>6. CASE Restart
    BY <1>6 DEF Restart, IdleReq
  <1> QED
    BY <1>1, <1>2, <1>3, <1>4, <1>5, <1>6 DEF Next

\* An unforced pick leaves capped accounts out.
LEMMA ChoicesUnderCap ==
  ASSUME NEW r \in Requests, Forced[r] = 0, NEW exclude, NEW i \in Choices(r, exclude)
  PROVE  ~AtCap(i)
  <1>1. CASE Pinned(r) \in Ready(Avail(exclude))
    <2> i \in Avail(exclude)
      BY <1>1 DEF Choices, Ready
    <2> QED
      BY DEF Avail
  <1>2. CASE Pinned(r) \notin Ready(Avail(exclude)) /\ Ready(Avail(exclude)) # {}
    <2>1. i \in LeastBusy(Ready(Avail(exclude)))
      BY <1>2 DEF Choices
    <2>2. i \in Avail(exclude)
      BY <2>1 DEF LeastBusy, Ready
    <2> QED
      BY <2>2 DEF Avail
  <1>3. CASE Pinned(r) \notin Ready(Avail(exclude)) /\ Ready(Avail(exclude)) = {}
    <2>1. i \in LeastBusy(Avail(exclude))
      BY <1>3 DEF Choices
    <2>2. i \in Avail(exclude)
      BY <2>1 DEF LeastBusy
    <2> QED
      BY <2>2 DEF Avail
  <1> QED
    BY <1>1, <1>2, <1>3

\* The cap is a bound on the streams themselves, not only on the counter: no
\* unforced pick makes the requests streaming on an account exceed its
\* max_concurrent (Pool._pick), whatever reloads and removals happened before.
THEOREM PoolUnderCap ==
  ASSUME ToolRequests = {}, StoreErrors = FALSE
  PROVE  Spec => UnderCap
  <1>1. Init => TypeOK /\ InFlightInv
    BY InitType, InitInFlight
  <1>2. TypeOK /\ InFlightInv /\ [Next]_vars => (TypeOK /\ InFlightInv)'
    BY NextType, NextInFlight
  <1>3. TypeOK /\ InFlightInv /\ [Next]_vars => [StartsUnderCap]_vars
    <2> SUFFICES ASSUME TypeOK, InFlightInv, [Next]_vars PROVE StartsUnderCap
      OBVIOUS
    <2> SUFFICES ASSUME NEW r \in Requests, NEW i \in Ids,
                        Forced[r] = 0, req[r].pc = "idle", req'[r].pc = "stream",
                        req'[r].id = i, mem[gen][i].max_concurrent # 0
                 PROVE  Cardinality(Holders(i)') <= mem[gen][i].max_concurrent
      BY DEF StartsUnderCap
    <2>1. Pick(r)
      BY OnlyPickStarts
    <2>2. PICK exclude \in SUBSET Ids : \E j \in Choices(r, exclude) :
            req' = [req EXCEPT ![r] = [IdleReq EXCEPT !.pc = "stream", !.id = j, !.gen = gen]]
      BY <2>1 DEF Pick
    <2>3. PICK j \in Choices(r, exclude) :
            req' = [req EXCEPT ![r] = [IdleReq EXCEPT !.pc = "stream", !.id = j, !.gen = gen]]
      BY <2>2
    <2>4. j = i
      BY <2>3 DEF TypeOK, ThreadsType, IdleReq
    <2>5. i \in live /\ ~AtCap(i)
      BY <2>4, ChoicesType, ChoicesUnderCap
    <2>6. Cardinality(Holders(i)') = Cardinality(Holders(i)) + 1
      BY <2>3, <2>4, PickHolders
    <2>7. Cardinality(Holders(i)) <= inFlight[gen][i]
      BY <2>5 DEF InFlightInv, InFlightCovers
    <2>8. inFlight[gen][i] \in Nat /\ Cardinality(Holders(i)) \in Nat
          /\ mem[gen][i].max_concurrent \in Nat
      <3>1. mem[gen][i] \in Columns /\ inFlight[gen][i] \in Nat
        BY DEF TypeOK, MemoryType
      <3> QED
        BY <3>1, Constants, HoldersFinite DEF Columns
    <2> QED
      BY <2>5, <2>6, <2>7, <2>8 DEF AtCap
  <1> QED
    BY <1>1, <1>2, <1>3, PTL DEF Spec, UnderCap

(***************************************************************************)
(* What the pool remembers by id: ids keep their credential, removed       *)
(* accounts stay out, and stored pins match those in memory.               *)
(***************************************************************************)
-----------------------------------------------------------------------------
(* Ids *)

\* Every id anything knows was handed out.
KnownBelow ==
  /\ \A i \in rows \cup live : i < nextId
  /\ \A s \in Sessions : pins[s] < nextId /\ storePins[s] < nextId
  /\ \A r \in Requests : req[r].id < nextId
  /\ \A t \in Admins : adm[t].id < nextId

LEMMA InitKnown == Init => KnownBelow
  <1> SUFFICES ASSUME Init PROVE KnownBelow
    OBVIOUS
  <1>1. nextId \in Nat \ {0} /\ rows = 1..(nextId - 1) /\ live = rows
    BY Constants DEF Init
  <1>2. \A i \in rows \cup live : i < nextId
    BY <1>1
  <1> QED
    BY <1>1, <1>2 DEF Init, KnownBelow, IdleReq, IdleAdm

\* A request takes ids from the pool in memory only, and a pin from a request.
LEMMA RequestKnown ==
  ASSUME TypeOK, KnownBelow, NEW r \in Requests, RequestStep(r)
  PROVE  KnownBelow'
  <1>0. /\ req \in [Requests -> ReqType] /\ nextId \in Nat \ {0}
        /\ pins \in [Sessions -> Ids \cup {0}] /\ storePins \in [Sessions -> Ids \cup {0}]
    BY Constants DEF TypeOK, ThreadsType, StickyType, StoreType
  <1>1. UNCHANGED <<rows, live, nextId, adm>>
    BY DEF RequestStep, Pick, Release, Abandon, McpRetry, MarkOk, MarkFail, Marked, Persist,
       PinMem, PinStore, memory, store
  <1>2. \A u \in Requests \ {r} : req'[u] = req[u]
    BY <1>0 DEF RequestStep, Pick, Release, Abandon, McpRetry, MarkOk, MarkFail, Marked, Persist,
       PinMem, PinStore
  <1>3. req'[r].id < nextId
    <2>1. CASE Pick(r)
      <3>0. PICK exclude \in SUBSET Ids : \E i \in Choices(r, exclude) :
              req' = [req EXCEPT ![r] = [IdleReq EXCEPT !.pc = "stream", !.id = i, !.gen = gen]]
        BY <2>1 DEF Pick
      <3>1. PICK i \in Choices(r, exclude) :
              req' = [req EXCEPT ![r] = [IdleReq EXCEPT !.pc = "stream", !.id = i, !.gen = gen]]
        BY <3>0
      <3>2. i \in live
        BY <3>1, ChoicesType
      <3> QED
        BY <1>0, <3>1, <3>2 DEF KnownBelow, IdleReq
    <2>2. CASE ~Pick(r)
      <3>1. req'[r].id = req[r].id \/ req'[r] = IdleReq
        <4>1. CASE Persist(r)
          <5>1. req'[r] = AfterSave(req[r]) /\ req[r] \in ReqType
            BY <1>0, <4>1 DEF Persist
          <5> QED
            BY <4>1, <5>1 DEF Persist, AfterSave, ReqType
        <4>2. CASE MarkOk(r) \/ MarkFail(r)
          <5>1. \E pc, object : req' = [req EXCEPT ![r].pc = pc, ![r].snap = object]
            BY <4>2, Zenon DEF MarkOk, MarkFail, Marked
          <5>2. PICK pc, object : req' = [req EXCEPT ![r].pc = pc, ![r].snap = object]
            BY <5>1
          <5> QED
            BY <1>0, <5>2 DEF ReqType
        <4>3. CASE Release(r) \/ Abandon(r) \/ McpRetry(r) \/ PinMem(r) \/ PinStore(r)
          BY <1>0, <4>3 DEF Release, Abandon, McpRetry, PinMem, PinStore, ReqType
        <4> QED
          BY <2>2, <4>1, <4>2, <4>3 DEF RequestStep
      <3> QED
        BY <1>0, <3>1 DEF KnownBelow, IdleReq
    <2> QED
      BY <2>1, <2>2
  <1>4. \A s \in Sessions : /\ pins'[s] \in {pins[s], req[r].id}
                            /\ storePins'[s] \in {storePins[s], req[r].id}
    <2>1. CASE PinMem(r)
      BY <1>0, <2>1 DEF PinMem
    <2>2. CASE PinStore(r)
      BY <1>0, <2>2 DEF PinStore
    <2>3. CASE ~(PinMem(r) \/ PinStore(r))
      <3>1. UNCHANGED <<pins, storePins>>
        BY <2>3 DEF RequestStep, Pick, Release, Abandon, McpRetry, MarkOk, MarkFail, Marked,
           Persist, sticky
      <3> QED
        BY <3>1
    <2> QED
      BY <2>1, <2>2, <2>3
  <1> QED
    BY <1>1, <1>2, <1>3, <1>4 DEF KnownBelow

\* A console call takes ids from the pool in memory; only an insert makes a
\* new one, from the sequence.
LEMMA AdminKnown ==
  ASSUME TypeOK, KnownBelow, NEW t \in Admins, AdminStep(t)
  PROVE  KnownBelow'
  <1>0. /\ adm \in [Admins -> AdmType] /\ nextId \in Nat \ {0}
        /\ pins \in [Sessions -> Ids \cup {0}] /\ storePins \in [Sessions -> Ids \cup {0}]
    BY Constants DEF TypeOK, ThreadsType, StickyType, StoreType
  <1>1. req' = req
    BY DEF AdminStep, Patch, Reload, ReloadReadError, Probe, ProbeAnswered, ProbeFailed,
       ProbeSave, RemoveTomb, RemoveRow, RemoveMem, AddCheck, AddRow, UnpinMem, UnpinStore
  <1>2. \A u \in Admins \ {t} : adm'[u] = adm[u]
    BY <1>0 DEF AdminStep, Patch, Reload, ReloadReadError, Probe, ProbeAnswered, ProbeFailed,
       ProbeSave, RemoveTomb, RemoveRow, RemoveMem, AddCheck, AddRow, UnpinMem, UnpinStore,
       Goto, GotoWith
  <1>3. adm'[t].id \in {adm[t].id, 0} \cup live
    <2>1. CASE Probe(t) \/ RemoveTomb(t)
      BY <1>0, <2>1 DEF Probe, RemoveTomb, GotoWith, IdleAdm
    <2>2. CASE ProbeAnswered(t)
      <3>1. PICK object : adm' = [adm EXCEPT ![t].pc = "save", ![t].snap = object]
        BY <2>2 DEF ProbeAnswered
      <3> QED
        BY <1>0, <3>1 DEF AdmType
    <2>3. CASE RemoveRow(t)
      BY <1>0, <2>3 DEF RemoveRow, AdmType
    <2>4. CASE AddCheck(t) \/ UnpinMem(t)
      BY <1>0, <2>4 DEF AddCheck, UnpinMem, IdleAdm
    <2>5. CASE Goto(t, "idle") \/ Goto(t, "reload")
      BY <1>0, <2>5 DEF Goto, IdleAdm
    <2> QED
      BY <2>1, <2>2, <2>3, <2>4, <2>5 DEF AdminStep, Patch, Reload, ReloadReadError, ProbeFailed,
         ProbeSave, RemoveMem, AddRow, UnpinStore
  <1>4. \A s \in Sessions : pins'[s] \in {pins[s], 0} /\ storePins'[s] \in {storePins[s], 0}
    <2>1. CASE RemoveRow(t) \/ RemoveMem(t) \/ UnpinMem(t) \/ UnpinStore(t)
      BY <1>0, <2>1 DEF RemoveRow, RemoveMem, UnpinMem, UnpinStore
    <2>2. CASE ~(RemoveRow(t) \/ RemoveMem(t) \/ UnpinMem(t) \/ UnpinStore(t))
      <3>1. UNCHANGED <<pins, storePins>>
        BY <2>2 DEF AdminStep, Patch, Reload, ReloadReadError, Probe, ProbeAnswered, ProbeFailed,
           ProbeSave, RemoveTomb, AddCheck, AddRow, sticky
      <3> QED
        BY <3>1
    <2> QED
      BY <2>1, <2>2
  <1>5. \/ nextId' = nextId /\ rows' \subseteq rows
        \/ nextId' = nextId + 1 /\ rows' \subseteq rows \cup {nextId}
    <2>1. CASE AddRow(t)
      BY <2>1 DEF AddRow, NewId
    <2>2. CASE ~AddRow(t)
      BY <2>2 DEF AdminStep, Patch, Reload, ReloadReadError, Probe, ProbeAnswered, ProbeFailed,
         ProbeSave, RemoveTomb, RemoveRow, RemoveMem, AddCheck, UnpinMem, UnpinStore, store
    <2> QED
      BY <2>1, <2>2
  <1>6. live' \subseteq live \cup rows
    BY DEF AdminStep, Patch, Reload, ReloadReadError, Probe, ProbeAnswered, ProbeFailed,
       ProbeSave, RemoveTomb, RemoveRow, RemoveMem, AddCheck, AddRow, UnpinMem, UnpinStore, memory
  <1>7. nextId <= nextId' /\ nextId' \in Nat /\ \A n \in Nat : n < nextId => n < nextId'
    BY <1>0, <1>5
  <1>8. \A i \in rows' \cup live' : i < nextId'
    <2>1. rows \subseteq Nat /\ live \subseteq Nat
      BY Constants DEF TypeOK, StoreType, MemoryType
    <2>2. \A i \in rows \cup live : i \in Nat /\ i < nextId'
      BY <1>7, <2>1 DEF KnownBelow
    <2>3. nextId \in rows' \ rows => nextId < nextId'
      BY <1>0, <1>5
    <2> QED
      BY <1>5, <1>6, <2>2, <2>3
  <1>9. \A s \in Sessions : pins'[s] < nextId' /\ storePins'[s] < nextId'
    <2> SUFFICES ASSUME NEW s \in Sessions PROVE pins'[s] < nextId' /\ storePins'[s] < nextId'
      OBVIOUS
    <2>1. pins[s] \in Nat /\ storePins[s] \in Nat
      BY <1>0, Constants
    <2>2. pins[s] < nextId' /\ storePins[s] < nextId' /\ 0 < nextId'
      BY <1>0, <1>7, <2>1 DEF KnownBelow
    <2> QED
      BY <1>4, <2>2
  <1>10. \A u \in Requests : req'[u].id < nextId'
    <2> SUFFICES ASSUME NEW u \in Requests PROVE req[u].id < nextId'
      BY <1>1
    <2>1. req[u].id \in Nat
      BY Constants DEF TypeOK, ThreadsType, ReqType
    <2> QED
      BY <1>7, <2>1 DEF KnownBelow
  <1>11. \A u \in Admins : adm'[u].id < nextId'
    <2>1. ASSUME NEW u \in Admins PROVE adm[u].id < nextId'
      <3>1. adm[u].id \in Nat
        BY <1>0, Constants DEF AdmType
      <3> QED
        BY <1>7, <3>1 DEF KnownBelow
    <2>2. \A i \in live : i < nextId'
      BY <1>7, Constants DEF KnownBelow, TypeOK, MemoryType
    <2>3. adm'[t].id < nextId'
      BY <1>0, <1>3, <1>7, <2>1, <2>2
    <2> QED
      BY <1>2, <2>1, <2>3
  <1> QED
    BY <1>8, <1>9, <1>10, <1>11 DEF KnownBelow

\* The other steps: cooldowns, the flusher, restarts, and none.
LEMMA RestKnown ==
  ASSUME TypeOK, KnownBelow,
         \/ \E i \in Ids : CooldownOver(i)
         \/ FlushMem \/ PruneRows \/ Restart \/ UNCHANGED vars
  PROVE  KnownBelow'
  <1>0. /\ req \in [Requests -> ReqType] /\ adm \in [Admins -> AdmType]
        /\ nextId \in Nat \ {0}
        /\ pins \in [Sessions -> Ids \cup {0}] /\ storePins \in [Sessions -> Ids \cup {0}]
    BY Constants DEF TypeOK, ThreadsType, StickyType, StoreType
  <1>1. ASSUME NEW i \in Ids, CooldownOver(i) PROVE KnownBelow'
    <2>1. UNCHANGED <<live, rows, nextId, pins, storePins>>
      BY <1>1 DEF CooldownOver, sticky
    <2>2. \A r \in Requests : req'[r].id = req[r].id
      BY <1>0, <1>1 DEF CooldownOver, ReqType
    <2>3. \A t \in Admins : adm'[t].id = adm[t].id
      BY <1>0, <1>1 DEF CooldownOver, AdmType
    <2> QED
      BY <2>1, <2>2, <2>3 DEF KnownBelow
  <1>2. CASE FlushMem \/ PruneRows
    <2>1. UNCHANGED <<live, rows, nextId, req, adm>>
      BY <1>2 DEF FlushMem, PruneRows, memory, store
    <2>2. \A s \in Sessions : pins'[s] \in {pins[s], 0} /\ storePins'[s] \in {storePins[s], 0}
      BY <1>2 DEF FlushMem, PruneRows
    <2> QED
      BY <1>0, <2>1, <2>2 DEF KnownBelow
  <1>3. CASE Restart
    <2>1. /\ live' = rows /\ UNCHANGED <<rows, nextId>>
          /\ \A r \in Requests : req'[r].id = 0
          /\ \A t \in Admins : adm'[t].id = 0
      BY <1>3 DEF Restart, store, IdleReq, IdleAdm
    <2>2. \A s \in Sessions : pins'[s] \in {storePins[s], 0} /\ storePins'[s] \in {storePins[s], 0}
      BY <1>3 DEF Restart
    <2> QED
      BY <1>0, <2>1, <2>2 DEF KnownBelow
  <1>4. CASE UNCHANGED vars
    BY <1>4 DEF vars, memory, store, sticky, KnownBelow
  <1> QED
    BY <1>1, <1>2, <1>3, <1>4

LEMMA NextKnown == TypeOK /\ KnownBelow /\ [Next]_vars => KnownBelow'
  BY RequestKnown, AdminKnown, RestKnown DEF Next

\* The owner of an id is written when the id is handed out, never again.
LEMMA OwnerKept ==
  ASSUME TypeOK, [Next]_vars, NEW i \in Ids, i # nextId
  PROVE  owner'[i] = owner[i]
  <1>1. ASSUME NEW t \in Admins, AddRow(t) PROVE owner'[i] = owner[i]
    BY <1>1 DEF AddRow, NewId, TypeOK, StoreType
  <1>2. ASSUME NEW t \in Admins, AdminStep(t), ~AddRow(t) PROVE owner' = owner
    BY <1>2 DEF AdminStep, Patch, Reload, ReloadReadError, Probe, ProbeAnswered, ProbeFailed,
       ProbeSave, RemoveTomb, RemoveRow, RemoveMem, AddCheck, UnpinMem, UnpinStore, store
  <1>3. ASSUME NEW r \in Requests, RequestStep(r) PROVE owner' = owner
    BY <1>3 DEF RequestStep, Pick, Release, Abandon, McpRetry, MarkOk, MarkFail, Marked, Persist,
       PinMem, PinStore, store
  <1>4. CASE \/ \E j \in Ids : CooldownOver(j)
             \/ FlushMem \/ PruneRows \/ Restart \/ UNCHANGED vars
    BY <1>4 DEF CooldownOver, FlushMem, PruneRows, Restart, vars, store
  <1> QED
    BY <1>1, <1>2, <1>3, <1>4 DEF Next

\* Whatever a pin, a stored pin, a request or a console call names by id keeps
\* its credential for as long as it is named, through removals, imports,
\* failing writes and restarts: AUTOINCREMENT never gives an id away twice.
THEOREM PoolIdentityStable == Spec => IdentityStable
  <1>1. Init => TypeOK /\ KnownBelow
    BY InitType, InitKnown
  <1>2. TypeOK /\ KnownBelow /\ [Next]_vars => (TypeOK /\ KnownBelow)'
    BY NextType, NextKnown
  <1>3. TypeOK /\ KnownBelow /\ [Next]_vars
          => [\A i \in Remembered \ {0} : owner'[i] = owner[i]]_vars
    <2> SUFFICES ASSUME TypeOK, KnownBelow, [Next]_vars, NEW i \in Remembered, i # 0
                 PROVE  owner'[i] = owner[i]
      OBVIOUS
    <2>1. i < nextId
      BY DEF Remembered, KnownBelow
    <2>2. nextId \in Nat
      BY Constants DEF TypeOK, StoreType
    <2>3. i \in Ids
      BY DEF Remembered, TypeOK, StickyType, ThreadsType, ReqType, AdmType
    <2>4. i # nextId
      BY <2>1, <2>2, <2>3, Constants
    <2> QED
      BY <2>3, <2>4, OwnerKept
  <1> QED
    BY <1>1, <1>2, <1>3, PTL DEF Spec, IdentityStable

-----------------------------------------------------------------------------
(* Pins *)

OwnSessions == \A q, r \in Requests : Session[q] = Session[r] /\ Session[r] # NoSession => q = r

Pinning(r, s) == req[r].pc = "pinStore" /\ Session[r] = s

\* Memory and store name one account, or the request that pinned the session is
\* about to store what memory has, if memory still has it.
PinsInv ==
  /\ \A s \in Sessions : OneAccount(s) \/ \E r \in Requests : Pinning(r, s)
  /\ \A r \in Requests : req[r].pc = "pinStore" =>
       Session[r] \in Sessions /\ pins[Session[r]] \in {0, req[r].id}

\* Entries and rows that only go away contradict nothing.
LEMMA Forgets ==
  ASSUME PinsInv,
         \A s \in Sessions : pins'[s] \in {0, pins[s]} /\ storePins'[s] \in {0, storePins[s]},
         \A r \in Requests : req'[r].pc = req[r].pc /\ req'[r].id = req[r].id
  PROVE  PinsInv'
  BY DEF PinsInv, OneAccount, Pinning

\* A request that is neither at its pin's second step nor goes there.
LEMMA OtherStep ==
  ASSUME PinsInv, NEW r \in Requests, req[r].pc # "pinStore", req'[r].pc # "pinStore",
         \A u \in Requests \ {r} : req'[u] = req[u], UNCHANGED <<pins, storePins>>
  PROVE  PinsInv'
  <1>1. \A u \in Requests, s \in Sessions : Pinning(u, s) => Pinning(u, s)'
    BY DEF Pinning
  <1> QED
    BY <1>1 DEF PinsInv, OneAccount

\* A new pin in memory, which the request then stores: its session is nobody
\* else's, so nobody else's pin is contradicted.
LEMMA PinMemKeeps ==
  ASSUME OwnSessions, TypeOK, PinsInv, NEW r \in Requests, PinMem(r)
  PROVE  PinsInv'
  <1>0. /\ req \in [Requests -> ReqType] /\ pins \in [Sessions -> Ids \cup {0}]
        /\ req[r].pc = "pin" /\ storePins' = storePins
        /\ \A u \in Requests \ {r} : req'[u] = req[u]
    BY DEF TypeOK, ThreadsType, StickyType, PinMem
  <1>1. CASE ~IsNewPin(r)
    <2>1. req'[r].pc = "idle"
      BY <1>0, <1>1 DEF PinMem, IdleReq
    <2>2. pins' = pins
      BY <1>0, <1>1 DEF PinMem, IsNewPin, Pinned
    <2> QED
      BY <1>0, <2>1, <2>2, OtherStep
  <1>2. CASE IsNewPin(r)
    <2>1. Session[r] # NoSession /\ Session[r] \in Sessions
      BY <1>2, RequestsAssumption DEF IsNewPin
    <2>2. /\ pins'[Session[r]] = req[r].id
          /\ \A s \in Sessions \ {Session[r]} : pins'[s] = pins[s]
      BY <1>0, <2>1 DEF PinMem
    <2>3. req'[r].pc = "pinStore" /\ req'[r].id = req[r].id
      <3>1. req'[r] = [req[r] EXCEPT !.pc = "pinStore"] /\ req[r] \in ReqType
        BY <1>0, <1>2 DEF PinMem
      <3> QED
        BY <3>1 DEF ReqType
    <2>4. Pinning(r, Session[r])'
      BY <2>3 DEF Pinning
    <2>5. ASSUME NEW s \in Sessions PROVE (OneAccount(s) \/ \E u \in Requests : Pinning(u, s))'
      <3>1. CASE s = Session[r]
        BY <2>4, <3>1
      <3>2. CASE s # Session[r]
        <4>1. OneAccount(s) => OneAccount(s)'
          BY <1>0, <2>2, <3>2 DEF OneAccount
        <4>2. \A u \in Requests : Pinning(u, s) => Pinning(u, s)'
          BY <1>0, <3>2 DEF Pinning
        <4> QED
          BY <4>1, <4>2 DEF PinsInv
      <3> QED
        BY <3>1, <3>2
    <2>6. ASSUME NEW u \in Requests, req'[u].pc = "pinStore"
          PROVE  Session[u] \in Sessions /\ pins'[Session[u]] \in {0, req'[u].id}
      <3>1. CASE u = r
        BY <2>1, <2>2, <2>3, <3>1
      <3>2. CASE u # r
        <4>1. Session[u] \in Sessions /\ pins[Session[u]] \in {0, req[u].id}
          BY <1>0, <2>6, <3>2 DEF PinsInv
        <4>2. Session[u] # Session[r]
          BY <2>1, <3>2 DEF OwnSessions
        <4> QED
          BY <1>0, <2>2, <3>2, <4>1, <4>2
      <3> QED
        BY <3>1, <3>2
    <2> QED
      BY <2>5, <2>6 DEF PinsInv
  <1> QED
    BY <1>1, <1>2

\* The row is written: it names what memory names, if memory names anything.
LEMMA PinStoreKeeps ==
  ASSUME StoreErrors = FALSE, TypeOK, PinsInv, NEW r \in Requests, PinStore(r)
  PROVE  PinsInv'
  <1>1. /\ req \in [Requests -> ReqType] /\ storePins \in [Sessions -> Ids \cup {0}]
        /\ req[r].pc = "pinStore" /\ pins' = pins
        /\ storePins' = [storePins EXCEPT ![Session[r]] = req[r].id]
        /\ req' = [req EXCEPT ![r] = IdleReq]
    BY DEF PinStore, TypeOK, ThreadsType, StickyType
  <1>2. Session[r] \in Sessions /\ pins[Session[r]] \in {0, req[r].id}
    BY <1>1 DEF PinsInv
  <1>3. req'[r].pc = "idle" /\ \A u \in Requests \ {r} : req'[u] = req[u]
    BY <1>1 DEF IdleReq
  <1>4. /\ storePins'[Session[r]] = req[r].id
        /\ \A s \in Sessions \ {Session[r]} : storePins'[s] = storePins[s]
    BY <1>1, <1>2
  <1>5. ASSUME NEW s \in Sessions PROVE (OneAccount(s) \/ \E u \in Requests : Pinning(u, s))'
    <2>1. CASE s = Session[r]
      BY <1>1, <1>2, <1>4, <2>1 DEF OneAccount
    <2>2. CASE s # Session[r]
      <3>1. OneAccount(s) => OneAccount(s)'
        BY <1>1, <1>4, <2>2 DEF OneAccount
      <3>2. \A u \in Requests : Pinning(u, s) => Pinning(u, s)'
        BY <1>3, <2>2 DEF Pinning
      <3> QED
        BY <3>1, <3>2 DEF PinsInv
    <2> QED
      BY <2>1, <2>2
  <1> QED
    BY <1>1, <1>3, <1>5 DEF PinsInv

LEMMA RequestPins ==
  ASSUME OwnSessions, StoreErrors = FALSE, TypeOK, PinsInv, NEW r \in Requests, RequestStep(r)
  PROVE  PinsInv'
  <1>0. req \in [Requests -> ReqType]
    BY DEF TypeOK, ThreadsType
  <1>1. CASE ~(PinMem(r) \/ PinStore(r))
    <2>1. UNCHANGED <<pins, storePins>> /\ \A u \in Requests \ {r} : req'[u] = req[u]
      BY <1>0, <1>1 DEF RequestStep, Pick, Release, Abandon, McpRetry, MarkOk, MarkFail, Marked,
         Persist, sticky
    <2>2. req[r].pc # "pinStore"
      BY <1>1 DEF RequestStep, Pick, Release, Abandon, McpRetry, MarkOk, MarkFail, Persist
    <2>3. req'[r].pc # "pinStore"
      <3>1. CASE Pick(r)
        <4>1. \E i : req' = [req EXCEPT ![r] = [IdleReq EXCEPT !.pc = "stream", !.id = i, !.gen = gen]]
          BY <3>1 DEF Pick
        <4> QED
          BY <1>0, <4>1 DEF IdleReq
      <3>2. CASE Release(r) \/ Abandon(r) \/ McpRetry(r)
        BY <1>0, <2>2, <3>2 DEF Release, Abandon, McpRetry, IdleReq, ReqType
      <3>3. CASE MarkOk(r) \/ MarkFail(r)
        <4>1. \E pc \in {"saveOk", "saveFail", "streamSave"} : \E object :
                req' = [req EXCEPT ![r].pc = pc, ![r].snap = object]
          BY <3>3 DEF MarkOk, MarkFail, Marked
        <4> QED
          BY <1>0, <4>1 DEF ReqType
      <3>4. CASE Persist(r)
        <4>1. req'[r] = AfterSave(req[r]) /\ req[r] \in ReqType
          BY <1>0, <3>4 DEF Persist
        <4> QED
          BY <3>4, <4>1 DEF Persist, AfterSave, ReqType, IdleReq
      <3> QED
        BY <1>1, <3>1, <3>2, <3>3, <3>4 DEF RequestStep
    <2> QED
      BY <2>1, <2>2, <2>3, OtherStep
  <1> QED
    BY <1>1, PinMemKeeps, PinStoreKeeps

\* The console only unbinds sessions: by removing their account or one by one.
LEMMA AdminPins ==
  ASSUME TypeOK, PinsInv, NEW t \in Admins, AdminStep(t)
  PROVE  PinsInv'
  <1>1. req' = req
    BY DEF AdminStep, Patch, Reload, ReloadReadError, Probe, ProbeAnswered, ProbeFailed,
       ProbeSave, RemoveTomb, RemoveRow, RemoveMem, AddCheck, AddRow, UnpinMem, UnpinStore
  <1>2. pins \in [Sessions -> Ids \cup {0}] /\ storePins \in [Sessions -> Ids \cup {0}]
    BY DEF TypeOK, StickyType
  <1>3. \A s \in Sessions : pins'[s] \in {0, pins[s]} /\ storePins'[s] \in {0, storePins[s]}
    <2>1. CASE RemoveRow(t) \/ RemoveMem(t)
      BY <2>1 DEF RemoveRow, RemoveMem
    <2>2. CASE UnpinMem(t)
      BY <1>2, <2>2 DEF UnpinMem
    <2>3. CASE UnpinStore(t)
      BY <1>2, <2>3 DEF UnpinStore
    <2>4. CASE UNCHANGED sticky
      BY <2>4 DEF sticky
    <2> QED
      BY <2>1, <2>2, <2>3, <2>4 DEF AdminStep, Patch, Reload, ReloadReadError, Probe,
         ProbeAnswered, ProbeFailed, ProbeSave, RemoveTomb, AddCheck, AddRow
  <1> QED
    BY <1>1, <1>3, Forgets

LEMMA RestPins ==
  ASSUME TypeOK, PinsInv,
         \/ \E i \in Ids : CooldownOver(i)
         \/ FlushMem \/ PruneRows \/ Restart \/ UNCHANGED vars
  PROVE  PinsInv'
  <1>1. ASSUME NEW i \in Ids, CooldownOver(i) PROVE PinsInv'
    <2>1. UNCHANGED <<pins, storePins>>
      BY <1>1 DEF CooldownOver, sticky
    <2>2. \A r \in Requests : req'[r].pc = req[r].pc /\ req'[r].id = req[r].id
      BY <1>1 DEF CooldownOver, TypeOK, ThreadsType, ReqType
    <2> QED
      BY <2>1, <2>2, Forgets
  <1>2. CASE FlushMem \/ PruneRows
    BY <1>2, Forgets DEF FlushMem, PruneRows
  <1>3. CASE Restart
    BY <1>3 DEF Restart, PinsInv, OneAccount, IdleReq
  <1>4. CASE UNCHANGED vars
    BY <1>4, Forgets DEF vars, sticky
  <1> QED
    BY <1>1, <1>2, <1>3, <1>4

\* Once nothing is under way, memory and store never bind a session to two
\* accounts (Pool.pin, unpin, remove, the flusher, Pool.__init__), whatever was
\* pruned, removed or unpinned and however often the process stopped, if no two
\* requests share a session (their pins' two steps can cross) and set_pin
\* does not fail.
THEOREM PoolPinsAgree ==
  ASSUME OwnSessions, StoreErrors = FALSE
  PROVE  Spec => []PinsAgree
  <1>1. Init => TypeOK /\ PinsInv
    <2>1. Init => PinsInv
      BY DEF Init, PinsInv, OneAccount, IdleReq
    <2> QED
      BY <2>1, InitType
  <1>2. TypeOK /\ PinsInv /\ [Next]_vars => (TypeOK /\ PinsInv)'
    BY NextType, RequestPins, AdminPins, RestPins DEF Next
  <1>3. PinsInv => PinsAgree
    BY DEF PinsInv, Pinning, Quiet, PinsAgree
  <1> QED
    BY <1>1, <1>2, <1>3, PTL DEF Spec
=============================================================================
