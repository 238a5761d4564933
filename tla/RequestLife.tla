---------------------------- MODULE RequestLife ----------------------------
(***************************************************************************)
(* The life of client requests in devin_proxy/app.py and responses.py: the *)
(* concurrency slot of their API key, the driver run that serves them, the *)
(* one row each leaves in the request log, and clients that leave.         *)
(*                                                                         *)
(* "plain" is an answer in one piece, "chat" and "responses" are server-   *)
(* sent events from a generator that the web server resumes and may close  *)
(* where it yielded; "ws" is the WebSocket, whose driver runs in a pump    *)
(* thread and talks to the event loop through a queue.                     *)
(***************************************************************************)
EXTENDS Naturals, Sequences, FiniteSets

CONSTANTS
  Requests,
  Keys,
  Transport, Key,  \* of each request
  Limit,           \* max_concurrent of each key, 0 for none
  MaxPieces        \* bound: pieces of one reply

ASSUME LifeAssumption ==
  /\ Transport \in [Requests -> {"plain", "chat", "responses", "ws"}]
  /\ Key \in [Requests -> Keys] /\ Limit \in [Keys -> Nat]
  /\ MaxPieces \in Nat

VARIABLES
  pc,
  slots,     \* app.state.key_slots
  held,      \* requests whose slot was taken and not given back
  live,      \* InflightTracker: requests inside iter_chat
  pieces,    \* pieces the driver produced
  outcome,   \* how the driver run ended: "none", "ok" or "error"
  queue,     \* q: from the pump to the event loop
  pump,      \* the pump thread: "off", "queued", "running" or "ended"
  cancel,    \* cancel_event
  err,       \* what the endpoint holds for the driver's outcome
  gone,      \* clients that left
  rows,      \* rows this request left in the log, by status
  told       \* the verdict the client was sent

driver == <<live, pieces, outcome>>
socket == <<queue, pump, cancel>>
vars == <<pc, slots, held, driver, socket, err, gone, rows, told>>

Streams == {r \in Requests : Transport[r] \in {"chat", "responses"}}
Sockets == {r \in Requests : Transport[r] = "ws"}
Plain == {r \in Requests : Transport[r] = "plain"}

-----------------------------------------------------------------------------
(* Helpers *)

Goto(r, l) == pc' = [pc EXCEPT ![r] = l]

Record(r, status) == rows' = [rows EXCEPT ![r] = Append(@, status)]

\* A key without a limit is not counted.
Counted(r) == Limit[Key[r]] # 0
AtLimit_OffByOne(r) == Counted(r) /\ slots[Key[r]] > Limit[Key[r]]
AtLimit(r) == Counted(r) /\ slots[Key[r]] >= Limit[Key[r]]

\* The release function counts down each time it is called.
Release(r) ==
  /\ held' = held \ {r}
  /\ slots' = IF Counted(r) THEN [slots EXCEPT ![Key[r]] = IF @ = 0 THEN 0 ELSE @ - 1]
                            ELSE slots

\* The request is over: its slot goes back.
Finish(r) == Goto(r, "done") /\ Release(r)

\* The driver runs: a piece, or the end with a verdict.
DriverPiece(r) ==
  /\ pieces[r] < MaxPieces
  /\ pieces' = [pieces EXCEPT ![r] = @ + 1]
  /\ UNCHANGED <<live, outcome>>

DriverEnds(r, how) ==
  /\ live' = live \ {r}
  /\ outcome' = [outcome EXCEPT ![r] = how]
  /\ UNCHANGED pieces

\* iter_chat's finally clause.
DriverClosed(r) == live' = live \ {r} /\ UNCHANGED <<pieces, outcome>>

-----------------------------------------------------------------------------
(* Admission *)

\* A malformed body, or a model the key may not use.  Over HTTP it leaves a
\* row, a malformed first message of a WebSocket does not.
Refuse(r) ==
  /\ pc[r] = "new"
  /\ IF r \in Sockets THEN rows' = rows ELSE Record(r, "refused")
  /\ Goto(r, "refused")
  /\ UNCHANGED <<slots, held, driver, socket, err, gone, told>>

OverLimit_Unrecorded(r) ==
  /\ pc[r] = "new" /\ AtLimit(r)
  /\ Goto(r, "done")
  /\ UNCHANGED <<slots, held, driver, socket, err, gone, rows, told>>

OverLimit(r) ==
  /\ pc[r] = "new" /\ AtLimit(r)
  /\ Record(r, "limit")
  /\ Goto(r, "done")
  /\ UNCHANGED <<slots, held, driver, socket, err, gone, told>>

Admit(r) ==
  /\ pc[r] = "new" /\ ~AtLimit(r)
  /\ held' = held \cup {r}
  /\ slots' = IF Counted(r) THEN [slots EXCEPT ![Key[r]] = @ + 1] ELSE slots
  /\ Goto(r, "admitted")
  /\ UNCHANGED <<driver, socket, err, gone, rows, told>>

\* The Responses endpoints map the request while they hold the slot.
MapFails(r) ==
  /\ pc[r] = "admitted" /\ Transport[r] # "chat"
  /\ Record(r, "refused")
  /\ Finish(r)
  /\ UNCHANGED <<driver, socket, err, gone, told>>

-----------------------------------------------------------------------------
(* An answer in one piece *)

RunPlain(r) ==
  /\ r \in Plain /\ pc[r] = "admitted"
  /\ live' = live \cup {r}
  /\ Goto(r, "run")
  /\ UNCHANGED <<slots, held, pieces, outcome, socket, err, gone, rows, told>>

EndPlain(r) ==
  /\ r \in Plain /\ pc[r] = "run"
  /\ \E how \in {"ok", "error"} :
       /\ DriverEnds(r, how)
       /\ Record(r, how)
       /\ told' = [told EXCEPT ![r] = how]
  /\ Finish(r)
  /\ UNCHANGED <<socket, err, gone>>

-----------------------------------------------------------------------------
(* Server-sent events: _sse_stream and _sse *)

\* The client left before the web server asked for the first event: the
\* generator was never started and has no finally clause to run.
DropUnstarted(r) ==
  /\ r \in Streams /\ pc[r] = "admitted" /\ r \in gone
  /\ Goto(r, "done")
  /\ UNCHANGED <<slots, held, driver, socket, err, gone, rows, told>>

\* responses sends two events before it enters its try block.
Preamble(r) ==
  /\ Transport[r] = "responses" /\ pc[r] = "admitted"
  /\ Goto(r, "preamble")
  /\ UNCHANGED <<slots, held, driver, socket, err, gone, rows, told>>

RunStream(r) ==
  /\ r \in Streams
  /\ pc[r] = IF Transport[r] = "responses" THEN "preamble" ELSE "admitted"
  /\ live' = live \cup {r}
  /\ Goto(r, "run")
  /\ UNCHANGED <<slots, held, pieces, outcome, socket, err, gone, rows, told>>

\* The generator is suspended with a piece, and resumed.
YieldPiece(r) ==
  /\ r \in Streams /\ pc[r] = "run"
  /\ DriverPiece(r)
  /\ Goto(r, "yield")
  /\ UNCHANGED <<slots, held, socket, err, gone, rows, told>>

Resume(r) ==
  /\ pc[r] = "yield"
  /\ Goto(r, "run")
  /\ UNCHANGED <<slots, held, driver, socket, err, gone, rows, told>>

EndStream(r) ==
  /\ r \in Streams /\ pc[r] = "run"
  /\ \E how \in {"ok", "error"} :
       /\ DriverEnds(r, how)
       /\ err' = [err EXCEPT ![r] = (how = "error")]
  /\ Goto(r, "tail")
  /\ UNCHANGED <<slots, held, socket, gone, rows, told>>

\* The last events before the row is written: chat always has one, responses
\* when an item is open or the run failed.
LastEvents(r) ==
  /\ r \in Streams /\ pc[r] = "tail"
  /\ Goto(r, "tailYield")
  /\ told' = IF Transport[r] = "chat" \/ err[r]
               THEN [told EXCEPT ![r] = IF err[r] THEN "error" ELSE "ok"] ELSE told
  /\ UNCHANGED <<slots, held, driver, socket, err, gone, rows>>

RecordStream(r) ==
  /\ r \in Streams
  /\ \/ pc[r] = "tailYield"
     \/ pc[r] = "tail" /\ Transport[r] = "responses" /\ ~err[r]
  /\ Record(r, IF err[r] THEN "error" ELSE "ok")
  /\ told' = [told EXCEPT ![r] = IF err[r] THEN "error" ELSE "ok"]
  /\ Goto(r, "last")
  /\ UNCHANGED <<slots, held, driver, socket, err, gone>>

EndGenerator(r) ==
  /\ pc[r] = "last"
  /\ Finish(r)
  /\ UNCHANGED <<driver, socket, err, gone, rows, told>>

CloseInLoop_NoRelease(r) ==
  /\ pc[r] = "yield" /\ r \in gone
  /\ DriverClosed(r)
  /\ Record(r, "aborted")
  /\ Goto(r, "done")
  /\ UNCHANGED <<slots, held, socket, err, gone, told>>

\* The client left: the generator is closed where it yielded, or the driver
\* notices while it waits in _backoff_wait.
CloseInLoop(r) ==
  /\ r \in Streams /\ pc[r] \in {"yield", "run"} /\ r \in gone
  /\ DriverClosed(r)
  /\ Record(r, "aborted")
  /\ Finish(r)
  /\ UNCHANGED <<socket, err, gone, told>>

\* Outside the try block nothing is recorded.
CloseOutside(r) ==
  /\ r \in Streams /\ pc[r] \in {"preamble", "tailYield", "last"} /\ r \in gone
  /\ Finish(r)
  /\ UNCHANGED <<driver, socket, err, gone, rows, told>>

StreamStep(r) == Preamble(r) \/ RunStream(r) \/ YieldPiece(r) \/ Resume(r) \/ EndStream(r)
                   \/ LastEvents(r) \/ RecordStream(r) \/ EndGenerator(r)
                   \/ CloseInLoop(r) \/ CloseOutside(r) \/ DropUnstarted(r)

-----------------------------------------------------------------------------
(* The WebSocket: the event loop *)

\* A send to a client that left fails, or is lost unnoticed.
SendFails(r) == r \in gone

Open(r) ==
  /\ r \in Sockets /\ pc[r] = "admitted"
  /\ pump' = [pump EXCEPT ![r] = "queued"]
  /\ Goto(r, "loop")
  /\ UNCHANGED <<slots, held, driver, queue, cancel, err, gone, rows, told>>

OpenFails(r) ==
  /\ r \in Sockets /\ pc[r] = "admitted" /\ SendFails(r)
  /\ Finish(r)
  /\ UNCHANGED <<driver, socket, err, gone, rows, told>>

\* The finally clause: the pump is told to stop; one that has not started
\* yet never will.
StopPump(r) ==
  /\ cancel' = cancel \cup {r}
  /\ pump' = [pump EXCEPT ![r] = IF @ = "queued" THEN "ended" ELSE @]

Arrives(r, item) == pc[r] = "loop" /\ queue[r] # <<>> /\ Head(queue[r]) = item

TakePiece(r) ==
  /\ Arrives(r, "piece")
  /\ queue' = [queue EXCEPT ![r] = Tail(@)]
  /\ UNCHANGED <<pc, slots, held, driver, pump, cancel, err, gone, rows, told>>

\* A failed send is taken for an error of the proxy.
TakePieceFails(r) ==
  /\ Arrives(r, "piece") /\ SendFails(r)
  /\ err' = [err EXCEPT ![r] = TRUE]
  /\ StopPump(r)
  /\ Goto(r, "socketTail")
  /\ UNCHANGED <<slots, held, driver, queue, gone, rows, told>>

TakeError_Ignored(r) ==
  /\ Arrives(r, "error")
  /\ err' = err
  /\ StopPump(r)
  /\ Goto(r, "socketTail")
  /\ UNCHANGED <<slots, held, driver, queue, gone, rows, told>>

TakeError(r) ==
  /\ Arrives(r, "error")
  /\ err' = [err EXCEPT ![r] = TRUE]
  /\ StopPump(r)
  /\ Goto(r, "socketTail")
  /\ UNCHANGED <<slots, held, driver, queue, gone, rows, told>>

TakeStop(r) ==
  /\ Arrives(r, "stop")
  /\ StopPump(r)
  /\ Goto(r, "socketTail")
  /\ UNCHANGED <<slots, held, driver, queue, err, gone, rows, told>>

\* The receiver task sees the client leave.
Disconnect(r) ==
  /\ pc[r] = "loop" /\ r \in gone
  /\ Record(r, "aborted")
  /\ StopPump(r)
  /\ Finish(r)
  /\ UNCHANGED <<driver, queue, err, gone, told>>

\* A failure is sent and then recorded, a success recorded and then sent.
RecordSocket(r) ==
  /\ pc[r] = "socketTail"
  /\ Record(r, IF err[r] THEN "error" ELSE "ok")
  /\ told' = IF err[r] THEN [told EXCEPT ![r] = "error"] ELSE told
  /\ Goto(r, "socketLast")
  /\ UNCHANGED <<slots, held, driver, socket, err, gone>>

EndSocket(r) ==
  /\ pc[r] = "socketLast"
  /\ told' = IF err[r] THEN told ELSE [told EXCEPT ![r] = "ok"]
  /\ Finish(r)
  /\ UNCHANGED <<driver, socket, err, gone, rows>>

\* The exception of a send leaves the handler; its finally clause gives the
\* slot back.
EndSocketFails(r) ==
  /\ pc[r] \in {"socketTail", "socketLast"} /\ SendFails(r)
  /\ Finish(r)
  /\ UNCHANGED <<driver, socket, err, gone, rows, told>>

(* The pump thread *)

PumpStart(r) ==
  /\ pump[r] = "queued"
  /\ pump' = [pump EXCEPT ![r] = "running"]
  /\ live' = live \cup {r}
  /\ UNCHANGED <<pc, slots, held, pieces, outcome, queue, cancel, err, gone, rows, told>>

PumpPiece(r) ==
  /\ pump[r] = "running"
  /\ DriverPiece(r)
  /\ queue' = [queue EXCEPT ![r] = Append(@, "piece")]
  /\ UNCHANGED <<pc, slots, held, pump, cancel, err, gone, rows, told>>

PumpEnds_NoStop(r) ==
  /\ pump[r] = "running"
  /\ \E how \in {"ok", "error"} :
       /\ DriverEnds(r, how)
       /\ queue' = [queue EXCEPT ![r] = @ \o IF how = "ok" THEN <<>> ELSE <<"error">>]
  /\ pump' = [pump EXCEPT ![r] = "ended"]
  /\ UNCHANGED <<pc, slots, held, cancel, err, gone, rows, told>>

\* The last thing in the queue is STOP, whatever happened.
PumpEnds(r) ==
  /\ pump[r] = "running"
  /\ \E how \in {"ok", "error"} :
       /\ DriverEnds(r, how)
       /\ queue' = [queue EXCEPT ![r] = @ \o IF how = "ok" THEN <<"stop">>
                                                           ELSE <<"error", "stop">>]
  /\ pump' = [pump EXCEPT ![r] = "ended"]
  /\ UNCHANGED <<pc, slots, held, cancel, err, gone, rows, told>>

\* Only _backoff_wait looks at cancel_event: a reply that streams is read to
\* its end.
PumpCancelled(r) ==
  /\ pump[r] = "running" /\ r \in cancel
  /\ DriverClosed(r)
  /\ queue' = [queue EXCEPT ![r] = @ \o <<"error", "stop">>]
  /\ pump' = [pump EXCEPT ![r] = "ended"]
  /\ UNCHANGED <<pc, slots, held, cancel, err, gone, rows, told>>

SocketStep(r) == Open(r) \/ OpenFails(r) \/ TakePiece(r) \/ TakePieceFails(r) \/ TakeError(r)
                   \/ TakeStop(r) \/ Disconnect(r) \/ RecordSocket(r) \/ EndSocket(r)
                   \/ EndSocketFails(r)
PumpStep(r) == PumpStart(r) \/ PumpPiece(r) \/ PumpEnds(r) \/ PumpCancelled(r)

-----------------------------------------------------------------------------

\* A plain answer is computed and recorded whether its client waits or not.
ClientLeaves(r) ==
  /\ r \notin Plain \cup gone /\ pc[r] \notin {"done", "refused"}
  /\ gone' = gone \cup {r}
  /\ UNCHANGED <<pc, slots, held, driver, socket, err, rows, told>>

Init ==
  /\ pc = [r \in Requests |-> "new"]
  /\ slots = [k \in Keys |-> 0] /\ held = {}
  /\ live = {} /\ pieces = [r \in Requests |-> 0]
  /\ outcome = [r \in Requests |-> "none"]
  /\ queue = [r \in Requests |-> <<>>] /\ pump = [r \in Requests |-> "off"] /\ cancel = {}
  /\ err = [r \in Requests |-> FALSE] /\ gone = {}
  /\ rows = [r \in Requests |-> <<>>] /\ told = [r \in Requests |-> "none"]

HandlerStep(r) == Refuse(r) \/ OverLimit(r) \/ Admit(r) \/ MapFails(r) \/ RunPlain(r) \/ EndPlain(r)
                    \/ StreamStep(r) \/ SocketStep(r)

Rest == /\ \A r \in Requests : pc[r] \in {"done", "refused"} /\ pump[r] \in {"off", "ended"}
        /\ UNCHANGED vars

Next == (\E r \in Requests : HandlerStep(r) \/ PumpStep(r) \/ ClientLeaves(r)) \/ Rest

Spec == Init /\ [][Next]_vars

\* Handlers and pumps run in threads and on the event loop of their own, and
\* every driver run ends (Failover!Terminates).  Nothing makes a client leave.
FairSpec == Spec /\ \A r \in Requests : WF_vars(HandlerStep(r)) /\ WF_vars(PumpStep(r))

-----------------------------------------------------------------------------
(* Properties *)

Places == {"new", "admitted", "preamble", "run", "yield", "tail", "tailYield", "last",
           "loop", "socketTail", "socketLast", "done", "refused"}
HandlerType ==
  /\ pc \in [Requests -> Places] /\ slots \in [Keys -> Nat]
  /\ held \subseteq Requests /\ err \in [Requests -> BOOLEAN]
DriverType ==
  /\ live \subseteq Requests /\ pieces \in [Requests -> 0..MaxPieces]
  /\ outcome \in [Requests -> {"none", "ok", "error"}]
SocketType ==
  /\ queue \in [Requests -> Seq({"piece", "error", "stop"})]
  /\ pump \in [Requests -> {"off", "queued", "running", "ended"}]
  /\ cancel \subseteq Requests
ClientType ==
  /\ gone \subseteq Requests
  /\ rows \in [Requests -> Seq({"ok", "error", "aborted", "refused", "limit"})]
  /\ told \in [Requests -> {"none", "ok", "error"}]
TypeOK == HandlerType /\ DriverType /\ SocketType /\ ClientType

Of(S, k) == {r \in S : Key[r] = k}

\* The client left before the response began.
NeverStarted(r) ==
  r \in Streams \cap gone /\ rows[r] = <<>> /\ outcome[r] = "none" /\ pieces[r] = 0

\* The slots of a key are those of its requests that are being handled: none
\* is given back twice, and none is lost however a request ends, but for a
\* response that was dropped before it began (see EverySlotReturns).
SlotsExact ==
  /\ \A k \in Keys : Limit[k] # 0 => slots[k] = Cardinality(Of(held, k))
  /\ \A r \in held : pc[r] \in {"new", "refused", "done"} => NeverStarted(r)

\* The concurrency cap of a key refuses calls over the limit only: a request
\* that is over takes no slot.
EverySlotReturns == \A r \in held : pc[r] # "done"

\* A key never has more driver runs for clients being served than its limit.
ServedUnderLimit ==
  \A k \in Keys :
    Limit[k] # 0 => Cardinality({r \in Of(live, k) : pc[r] # "done"}) <= Limit[k]

\* The same, counting the runs that go on after the handler ended: the limit
\* that the console promises for the key.
RunsUnderLimit == \A k \in Keys : Limit[k] # 0 => Cardinality(Of(live, k)) <= Limit[k]

\* Nothing is logged twice, and a request whose client waits for the answer
\* is logged.
LoggedOnce ==
  \A r \in Requests :
    /\ Len(rows[r]) <= 1
    /\ pc[r] = "done" /\ r \notin gone => Len(rows[r]) = 1

\* Every request is logged, as the console's request log promises.
EveryRequestLogged == \A r \in Requests : pc[r] = "done" => Len(rows[r]) = 1

\* A client is told, and the log says, that a reply is complete only if the
\* driver completed it; and they never disagree.
Truthful ==
  \A r \in Requests :
    /\ told[r] = "ok" \/ rows[r] = <<"ok">> => outcome[r] = "ok"
    /\ told[r] # "none" /\ rows[r] # <<>> => rows[r] = <<told[r]>> \/ r \in gone

\* No driver run begins for a request that is over.
NoLateRun == [][\A r \in live' \ live : pc[r] # "done"]_vars

\* In the end nothing is counted any more: no slot, no run, no entry of the
\* live view, but for the slots SlotsExact leaves out.
AllQuiet ==
  <>[](live = {} /\ \A r \in Requests : pump[r] \in {"off", "ended"}
                                        /\ (r \in held => NeverStarted(r)))
=============================================================================
