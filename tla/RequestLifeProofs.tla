-------------------------- MODULE RequestLifeProofs --------------------------
(***************************************************************************)
(* Theorems about the lives of any number of requests, over every          *)
(* transport, with any keys and limits.                                    *)
(***************************************************************************)
EXTENDS RequestLife, FiniteSetTheorems, SequenceTheorems, TLAPS

RequestStep(r) == HandlerStep(r) \/ PumpStep(r) \/ ClientLeaves(r)

Verdicts == {"ok", "error"}
Items == {"piece", "error", "stop"}
Statuses == {"ok", "error", "aborted", "refused", "limit"}

-----------------------------------------------------------------------------
(* What a step of one request does to each variable *)

Moves(r) ==
  /\ pc' = pc \/ \E l \in Places : Goto(r, l)
  /\ UNCHANGED <<slots, held>> \/ Release(r) \/ Admit(r)
  /\ \/ UNCHANGED driver \/ DriverPiece(r) \/ DriverClosed(r)
     \/ live' = live \cup {r} /\ UNCHANGED <<pieces, outcome>>
     \/ \E how \in Verdicts : DriverEnds(r, how)
  /\ gone' = gone \/ gone' = gone \cup {r}
  /\ rows' = rows \/ \E s \in Statuses : Record(r, s)
  /\ told' = told \/ \E v \in Verdicts : told' = [told EXCEPT ![r] = v]
  /\ err' = err \/ \E b \in BOOLEAN : err' = [err EXCEPT ![r] = b]

Queues(r) ==
  /\ \/ queue' = queue
     \/ queue[r] # <<>> /\ queue' = [queue EXCEPT ![r] = Tail(@)]
     \/ queue' = [queue EXCEPT ![r] = Append(@, "piece")]
     \/ \E s \in {<<"stop">>, <<"error", "stop">>} : queue' = [queue EXCEPT ![r] = @ \o s]
  /\ pump' = pump \/ \E s \in {"off", "queued", "running", "ended"} : pump' = [pump EXCEPT ![r] = s]
  /\ cancel' = cancel \/ cancel' = cancel \cup {r}

LEMMA StepMoves ==
  ASSUME NEW r \in Requests, TypeOK, RequestStep(r)
  PROVE  Moves(r)
  <1> USE DEF Places, Statuses, Verdicts, Moves, Finish, driver
  <1>1. CASE Refuse(r) \/ OverLimit(r) \/ Admit(r) \/ MapFails(r)
    BY <1>1 DEF Refuse, OverLimit, Admit, MapFails
  <1>2. CASE RunPlain(r) \/ EndPlain(r)
    BY <1>2 DEF RunPlain, EndPlain
  <1>3. CASE DropUnstarted(r) \/ Preamble(r) \/ RunStream(r) \/ YieldPiece(r) \/ Resume(r)
    BY <1>3 DEF DropUnstarted, Preamble, RunStream, YieldPiece, Resume
  <1>4. CASE EndStream(r) \/ LastEvents(r) \/ RecordStream(r) \/ EndGenerator(r)
    BY <1>4 DEF EndStream, LastEvents, RecordStream, EndGenerator
  <1>5. CASE CloseInLoop(r) \/ CloseOutside(r)
    BY <1>5 DEF CloseInLoop, CloseOutside
  <1>6. CASE Open(r) \/ OpenFails(r) \/ TakePiece(r) \/ TakePieceFails(r)
    BY <1>6 DEF Open, OpenFails, TakePiece, TakePieceFails
  <1>7. CASE TakeError(r) \/ TakeStop(r) \/ Disconnect(r)
    BY <1>7 DEF TakeError, TakeStop, Disconnect
  <1>8. CASE RecordSocket(r) \/ EndSocket(r) \/ EndSocketFails(r)
    BY <1>8 DEF RecordSocket, EndSocket, EndSocketFails
  <1>9. CASE PumpStep(r)
    BY <1>9 DEF PumpStep, PumpStart, PumpPiece, PumpEnds, PumpCancelled
  <1>10. CASE ClientLeaves(r)
    BY <1>10 DEF ClientLeaves
  <1> QED
    BY <1>1, <1>2, <1>3, <1>4, <1>5, <1>6, <1>7, <1>8, <1>9, <1>10
    DEF RequestStep, HandlerStep, StreamStep, SocketStep

LEMMA StepQueues ==
  ASSUME NEW r \in Requests, TypeOK, RequestStep(r)
  PROVE  Queues(r)
  <1> USE DEF Queues, socket
  <1>1. CASE Refuse(r) \/ OverLimit(r) \/ Admit(r) \/ MapFails(r)
    BY <1>1 DEF Refuse, OverLimit, Admit, MapFails
  <1>2. CASE RunPlain(r) \/ EndPlain(r)
    BY <1>2 DEF RunPlain, EndPlain
  <1>3. CASE DropUnstarted(r) \/ Preamble(r) \/ RunStream(r) \/ YieldPiece(r) \/ Resume(r)
    BY <1>3 DEF DropUnstarted, Preamble, RunStream, YieldPiece, Resume
  <1>4. CASE EndStream(r) \/ LastEvents(r) \/ RecordStream(r) \/ EndGenerator(r)
    BY <1>4 DEF EndStream, LastEvents, RecordStream, EndGenerator
  <1>5. CASE CloseInLoop(r) \/ CloseOutside(r)
    BY <1>5 DEF CloseInLoop, CloseOutside
  <1>6. CASE Open(r) \/ OpenFails(r) \/ TakePiece(r)
    BY <1>6 DEF Open, OpenFails, TakePiece, Arrives
  <1>7. CASE TakePieceFails(r) \/ TakeError(r) \/ TakeStop(r) \/ Disconnect(r)
    <2> DEFINE s == IF pump[r] = "queued" THEN "ended" ELSE pump[r]
    <2>1. s \in {"off", "queued", "running", "ended"}
      BY DEF TypeOK, SocketType
    <2>2. queue' = queue /\ cancel' = cancel \cup {r} /\ pump' = [pump EXCEPT ![r] = s]
      BY <1>7 DEF TakePieceFails, TakeError, TakeStop, Disconnect, StopPump
    <2> QED
      BY <2>1, <2>2
  <1>8. CASE RecordSocket(r) \/ EndSocket(r) \/ EndSocketFails(r)
    BY <1>8 DEF RecordSocket, EndSocket, EndSocketFails
  <1>9. CASE PumpStep(r)
    BY <1>9 DEF PumpStep, PumpStart, PumpPiece, PumpEnds, PumpCancelled
  <1>10. CASE ClientLeaves(r)
    BY <1>10 DEF ClientLeaves
  <1> QED
    BY <1>1, <1>2, <1>3, <1>4, <1>5, <1>6, <1>7, <1>8, <1>9, <1>10
    DEF RequestStep, HandlerStep, StreamStep, SocketStep

LEMMA TypeKept ==
  ASSUME NEW r \in Requests, TypeOK, RequestStep(r)
  PROVE  TypeOK'
  <1> USE DEF TypeOK
  <1>1. Moves(r) /\ Queues(r)
    BY StepMoves, StepQueues
  <1>2. HandlerType'
    <2>1. pc' \in [Requests -> Places]
      BY <1>1 DEF Moves, HandlerType, Goto
    <2>2. slots' \in [Keys -> Nat] /\ held' \subseteq Requests
      BY <1>1, LifeAssumption DEF Moves, HandlerType, Release, Admit
    <2>3. err' \in [Requests -> BOOLEAN]
      BY <1>1 DEF Moves, HandlerType
    <2> QED
      BY <2>1, <2>2, <2>3 DEF HandlerType
  <1>3. DriverType'
    BY <1>1, LifeAssumption DEF Moves, DriverType, driver, DriverPiece, DriverClosed, DriverEnds, Verdicts
  <1>4. SocketType'
    <2>1. queue \in [Requests -> Seq(Items)] /\ queue[r] \in Seq(Items)
      BY DEF SocketType, Items
    <2>2. \E q \in Seq(Items) : queue' = [queue EXCEPT ![r] = q]
      <3>1. CASE queue' = queue
        BY <2>1, <3>1
      <3>2. CASE queue[r] # <<>> /\ queue' = [queue EXCEPT ![r] = Tail(@)]
        BY <2>1, <3>2, HeadTailProperties
      <3>3. CASE queue' = [queue EXCEPT ![r] = Append(@, "piece")]
        <4>1. Append(queue[r], "piece") \in Seq(Items)
          BY <2>1, AppendProperties DEF Items
        <4> QED
          BY <3>3, <4>1
      <3>4. CASE \E s \in {<<"stop">>, <<"error", "stop">>} : queue' = [queue EXCEPT ![r] = @ \o s]
        <4>1. <<"stop">> \in Seq(Items) /\ <<"error", "stop">> \in Seq(Items)
          BY DEF Items
        <4>2. PICK s \in Seq(Items) : queue' = [queue EXCEPT ![r] = @ \o s]
          BY <3>4, <4>1
        <4>3. queue[r] \o s \in Seq(Items)
          BY <2>1, ConcatProperties
        <4> QED
          BY <4>2, <4>3
      <3> QED
        BY <1>1, <3>1, <3>2, <3>3, <3>4 DEF Queues
    <2>3. queue' \in [Requests -> Seq(Items)]
      BY <2>1, <2>2
    <2> QED
      BY <1>1, <2>3 DEF Queues, SocketType, Items
  <1>5. ClientType'
    <2>1. rows \in [Requests -> Seq(Statuses)] /\ rows[r] \in Seq(Statuses)
      BY DEF ClientType, Statuses
    <2>2. \E q \in Seq(Statuses) : rows' = [rows EXCEPT ![r] = q]
      <3>1. CASE rows' = rows
        BY <2>1, <3>1
      <3>2. CASE \E s \in Statuses : Record(r, s)
        <4>1. PICK s \in Statuses : rows' = [rows EXCEPT ![r] = Append(@, s)]
          BY <3>2 DEF Record
        <4>2. Append(rows[r], s) \in Seq(Statuses)
          BY <2>1, AppendProperties
        <4> QED
          BY <4>1, <4>2
      <3> QED
        BY <1>1, <3>1, <3>2 DEF Moves
    <2>3. rows' \in [Requests -> Seq(Statuses)]
      BY <2>1, <2>2
    <2>4. gone' \subseteq Requests /\ told' \in [Requests -> {"none", "ok", "error"}]
      BY <1>1 DEF Moves, ClientType, Verdicts
    <2> QED
      BY <2>3, <2>4 DEF ClientType, Statuses
  <1> QED
    BY <1>2, <1>3, <1>4, <1>5

\* What it leaves of the other requests: all.
Untouched(u) ==
  /\ pc'[u] = pc[u] /\ pieces'[u] = pieces[u] /\ outcome'[u] = outcome[u]
  /\ queue'[u] = queue[u] /\ pump'[u] = pump[u] /\ err'[u] = err[u]
  /\ rows'[u] = rows[u] /\ told'[u] = told[u]
  /\ (u \in held' <=> u \in held) /\ (u \in live' <=> u \in live) /\ (u \in gone' <=> u \in gone)

LEMMA OthersUntouched ==
  ASSUME NEW r \in Requests, TypeOK, RequestStep(r), NEW u \in Requests, u # r
  PROVE  Untouched(u)
  <1> USE DEF TypeOK
  <1>1. Moves(r) /\ Queues(r)
    BY StepMoves, StepQueues
  <1>2. pc'[u] = pc[u] /\ err'[u] = err[u] /\ (u \in held' <=> u \in held)
    BY <1>1 DEF Moves, HandlerType, Goto, Release, Admit
  <1>3. pieces'[u] = pieces[u] /\ outcome'[u] = outcome[u] /\ (u \in live' <=> u \in live)
    BY <1>1 DEF Moves, DriverType, driver, DriverPiece, DriverClosed, DriverEnds
  <1>4. queue'[u] = queue[u] /\ pump'[u] = pump[u]
    BY <1>1 DEF Queues, SocketType
  <1>5. rows'[u] = rows[u] /\ told'[u] = told[u] /\ (u \in gone' <=> u \in gone)
    BY <1>1 DEF Moves, ClientType, Record
  <1> QED
    BY <1>2, <1>3, <1>4, <1>5 DEF Untouched

-----------------------------------------------------------------------------
(* What holds of each request *)

Before == {"new", "admitted", "preamble"}
Verdict(r) == IF err[r] THEN "error" ELSE "ok"

\* Nothing runs for a request before it is served, and its pump starts only
\* while its handler waits in the loop.
PlaceInv(r) ==
  /\ pc[r] \in Before => r \notin live /\ pieces[r] = 0
  /\ pc[r] \in Before \cup {"run", "yield"} => outcome[r] = "none"
  /\ r \in live => pc[r] # "refused"
  /\ pump[r] # "off" => r \in Sockets /\ pc[r] \in {"loop", "socketTail", "socketLast", "done"}
  /\ pump[r] \in {"queued", "running"} => outcome[r] = "none"
  /\ pump[r] = "queued" => pc[r] = "loop"

\* A request holds its slot exactly while it is handled.
HeldInv(r) ==
  /\ pc[r] \notin {"new", "refused", "done"} => r \in held
  /\ r \in held => pc[r] \notin {"new", "refused"} /\ (pc[r] = "done" => NeverStarted(r))

RowInv(r) ==
  /\ pc[r] \in Before \cup {"run", "yield", "tail", "tailYield", "loop", "socketTail"} =>
       rows[r] = <<>>
  /\ pc[r] \in {"last", "socketLast"} => rows[r] = <<Verdict(r)>>
  /\ Len(rows[r]) <= 1
  /\ pc[r] = "done" /\ r \notin gone => Len(rows[r]) = 1

\* "stop" is the end of a run that succeeded, or comes behind its error.
Sound(q, how) ==
  \A i \in 1..Len(q) : q[i] = "stop" => how = "ok" \/ \E j \in 1..(i - 1) : q[j] = "error"
QueueInv(r) == Sound(queue[r], outcome[r])

TruthInv(r) ==
  /\ pc[r] \in Before \cup {"run", "yield", "tail", "loop", "socketTail"} => told[r] = "none"
  /\ pc[r] \in {"tail", "tailYield", "last", "socketTail", "socketLast"} =>
       err[r] \/ outcome[r] = "ok"
  /\ told[r] = "ok" \/ rows[r] = <<"ok">> => outcome[r] = "ok"
  /\ pc[r] = "tailYield" => told[r] \in {"none", Verdict(r)}
  /\ pc[r] = "last" => told[r] = Verdict(r)
  /\ pc[r] = "socketLast" => told[r] = IF err[r] THEN "error" ELSE "none"
  /\ told[r] # "none" /\ rows[r] # <<>> => rows[r] = <<told[r]>> \/ r \in gone

RequestInv(r) == PlaceInv(r) /\ HeldInv(r) /\ RowInv(r) /\ QueueInv(r) /\ TruthInv(r)

LEMMA UntouchedKept ==
  ASSUME NEW u \in Requests, RequestInv(u), Untouched(u)
  PROVE  RequestInv(u)'
  <1> USE DEF RequestInv, Untouched
  <1>1. PlaceInv(u)' /\ HeldInv(u)'
    BY DEF PlaceInv, HeldInv, NeverStarted
  <1>2. RowInv(u)' /\ TruthInv(u)'
    BY DEF RowInv, TruthInv, Verdict
  <1>3. QueueInv(u)'
    BY DEF QueueInv
  <1> QED
    BY <1>1, <1>2, <1>3

LEMMA NoRow == Len(<<>>) = 0
  OBVIOUS

LEMMA NoneBefore == ASSUME NEW j \in 1..(1 - 1) PROVE FALSE
  OBVIOUS

LEMMA Recorded == ASSUME NEW s PROVE Append(<<>>, s) = <<s>> /\ Len(<<s>>) = 1 /\ <<s>> # <<>>
  OBVIOUS

LEMMA PlaceKept ==
  ASSUME NEW r \in Requests, TypeOK, PlaceInv(r), RequestStep(r)
  PROVE  PlaceInv(r)'
  <1>0. /\ pc \in [Requests -> Places] /\ pump \in [Requests -> {"off", "queued", "running", "ended"}]
        /\ outcome \in [Requests -> {"none", "ok", "error"}] /\ pieces \in [Requests -> 0..MaxPieces]
    BY DEF TypeOK, HandlerType, DriverType, SocketType
  <1> USE <1>0 DEF PlaceInv, Goto, Before, Streams, Sockets, Plain, driver, socket
  <1>1. CASE Refuse(r) \/ OverLimit(r) \/ Admit(r) \/ MapFails(r)
    BY <1>1 DEF Refuse, OverLimit, Admit, MapFails, Finish
  <1>2. CASE RunPlain(r) \/ EndPlain(r)
    BY <1>2 DEF RunPlain, EndPlain, DriverEnds, Finish
  <1>3. CASE DropUnstarted(r) \/ Preamble(r) \/ RunStream(r)
    BY <1>3 DEF DropUnstarted, Preamble, RunStream
  <1>4. CASE YieldPiece(r) \/ Resume(r) \/ EndStream(r)
    BY <1>4 DEF YieldPiece, Resume, EndStream, DriverPiece, DriverEnds
  <1>5. CASE LastEvents(r) \/ RecordStream(r) \/ EndGenerator(r)
    BY <1>5 DEF LastEvents, RecordStream, EndGenerator, Finish
  <1>6. CASE CloseInLoop(r) \/ CloseOutside(r)
    BY <1>6 DEF CloseInLoop, CloseOutside, DriverClosed, Finish
  <1>7. CASE Open(r) \/ OpenFails(r) \/ TakePiece(r) \/ TakePieceFails(r)
    BY <1>7 DEF Open, OpenFails, TakePiece, TakePieceFails, Arrives, StopPump, SendFails, Finish
  <1>8. CASE TakeError(r) \/ TakeStop(r) \/ Disconnect(r)
    BY <1>8 DEF TakeError, TakeStop, Disconnect, Arrives, StopPump, Finish
  <1>9. CASE RecordSocket(r) \/ EndSocket(r) \/ EndSocketFails(r)
    BY <1>9 DEF RecordSocket, EndSocket, EndSocketFails, SendFails, Finish
  <1>10. CASE PumpStart(r) \/ PumpPiece(r) \/ PumpEnds(r) \/ PumpCancelled(r)
    BY <1>10 DEF PumpStart, PumpPiece, PumpEnds, PumpCancelled, DriverPiece, DriverEnds, DriverClosed
  <1>11. CASE ClientLeaves(r)
    BY <1>11 DEF ClientLeaves
  <1> QED
    BY <1>1, <1>2, <1>3, <1>4, <1>5, <1>6, <1>7, <1>8, <1>9, <1>10, <1>11 DEF RequestStep, HandlerStep, StreamStep, SocketStep, PumpStep

LEMMA HeldKept ==
  ASSUME NEW r \in Requests, TypeOK, PlaceInv(r), HeldInv(r), RowInv(r), RequestStep(r)
  PROVE  HeldInv(r)'
  <1>0. pc \in [Requests -> Places]
    BY DEF TypeOK, HandlerType
  <1> USE <1>0 DEF HeldInv, PlaceInv, RowInv, NeverStarted, Release, Goto, Before, Streams, Sockets, Plain, driver, socket
  <1>1. CASE Refuse(r) \/ OverLimit(r) \/ Admit(r) \/ MapFails(r)
    BY <1>1 DEF Refuse, OverLimit, Admit, MapFails, Finish
  <1>2. CASE RunPlain(r) \/ EndPlain(r)
    BY <1>2 DEF RunPlain, EndPlain, DriverEnds, Finish
  <1>3. CASE DropUnstarted(r) \/ Preamble(r) \/ RunStream(r)
    BY <1>3 DEF DropUnstarted, Preamble, RunStream
  <1>4. CASE YieldPiece(r) \/ Resume(r) \/ EndStream(r)
    BY <1>4 DEF YieldPiece, Resume, EndStream, DriverPiece, DriverEnds
  <1>5. CASE LastEvents(r) \/ RecordStream(r) \/ EndGenerator(r)
    BY <1>5 DEF LastEvents, RecordStream, EndGenerator, Finish
  <1>6. CASE CloseInLoop(r) \/ CloseOutside(r)
    BY <1>6 DEF CloseInLoop, CloseOutside, DriverClosed, Finish
  <1>7. CASE Open(r) \/ OpenFails(r) \/ TakePiece(r) \/ TakePieceFails(r)
    BY <1>7 DEF Open, OpenFails, TakePiece, TakePieceFails, Arrives, StopPump, SendFails, Finish
  <1>8. CASE TakeError(r) \/ TakeStop(r) \/ Disconnect(r)
    BY <1>8 DEF TakeError, TakeStop, Disconnect, Arrives, StopPump, Finish
  <1>9. CASE RecordSocket(r) \/ EndSocket(r) \/ EndSocketFails(r)
    BY <1>9 DEF RecordSocket, EndSocket, EndSocketFails, SendFails, Finish
  <1>10. CASE PumpStart(r) \/ PumpPiece(r) \/ PumpEnds(r) \/ PumpCancelled(r)
    BY <1>10 DEF PumpStart, PumpPiece, PumpEnds, PumpCancelled, DriverPiece, DriverEnds, DriverClosed
  <1>11. CASE ClientLeaves(r)
    BY <1>11 DEF ClientLeaves
  <1> QED
    BY <1>1, <1>2, <1>3, <1>4, <1>5, <1>6, <1>7, <1>8, <1>9, <1>10, <1>11 DEF RequestStep, HandlerStep, StreamStep, SocketStep, PumpStep

LEMMA RowKept ==
  ASSUME NEW r \in Requests, TypeOK, RowInv(r), RequestStep(r)
  PROVE  RowInv(r)'
  <1>0. pc \in [Requests -> Places] /\ rows \in [Requests -> Seq(Statuses)] /\ err \in [Requests -> BOOLEAN]
    BY DEF TypeOK, HandlerType, ClientType, Statuses
  <1> USE <1>0 DEF RowInv, Verdict, Record, Goto, Before, Streams, Sockets
  <1>1. CASE Refuse(r)
    <2>1. rows[r] = <<>> /\ pc'[r] = "refused"
      BY <1>1 DEF Refuse
    <2>2. rows' = rows \/ Record(r, "refused")
      BY <1>1 DEF Refuse
    <2>3. rows'[r] = <<>> \/ rows'[r] = <<"refused">>
      BY <2>1, <2>2, Recorded
    <2>4. Len(rows'[r]) <= 1
      <3>1. Len(rows'[r]) = 0 \/ Len(rows'[r]) = 1
        BY <2>3, Recorded, NoRow
      <3>2. ASSUME NEW n, n = 0 \/ n = 1 PROVE n <= 1
        BY <3>2
      <3> QED
        BY <3>1, <3>2, Zenon
    <2> QED
      BY <2>1, <2>4
  <1>2. CASE OverLimit(r)
    BY <1>2, Recorded DEF Refuse, OverLimit, Admit, MapFails, Finish
  <1>3. CASE Admit(r)
    BY <1>3 DEF Refuse, OverLimit, Admit, MapFails, Finish
  <1>4. CASE MapFails(r)
    BY <1>4, Recorded DEF Refuse, OverLimit, Admit, MapFails, Finish
  <1>5. CASE RunPlain(r)
    BY <1>5, Recorded DEF RunPlain, EndPlain, DriverEnds, Finish
  <1>6. CASE EndPlain(r)
    BY <1>6, Recorded DEF RunPlain, EndPlain, DriverEnds, Finish
  <1>7. CASE DropUnstarted(r) \/ Preamble(r) \/ RunStream(r)
    BY <1>7 DEF DropUnstarted, Preamble, RunStream
  <1>8. CASE YieldPiece(r) \/ Resume(r) \/ EndStream(r)
    BY <1>8, Recorded DEF YieldPiece, Resume, EndStream, DriverPiece, DriverEnds
  <1>9. CASE LastEvents(r) \/ RecordStream(r) \/ EndGenerator(r)
    BY <1>9, Recorded DEF LastEvents, RecordStream, EndGenerator, Finish
  <1>10. CASE CloseInLoop(r) \/ CloseOutside(r)
    BY <1>10, Recorded DEF CloseInLoop, CloseOutside, DriverClosed, Finish
  <1>11. CASE Open(r) \/ OpenFails(r) \/ TakePiece(r) \/ TakePieceFails(r)
    BY <1>11 DEF Open, OpenFails, TakePiece, TakePieceFails, Arrives, StopPump, SendFails, Finish
  <1>12. CASE TakeError(r) \/ TakeStop(r) \/ Disconnect(r)
    BY <1>12, Recorded DEF TakeError, TakeStop, Disconnect, Arrives, StopPump, Finish
  <1>13. CASE RecordSocket(r)
    BY <1>13, Recorded DEF RecordSocket, EndSocket, EndSocketFails, SendFails, Finish
  <1>14. CASE EndSocket(r)
    BY <1>14, Recorded DEF RecordSocket, EndSocket, EndSocketFails, SendFails, Finish
  <1>15. CASE EndSocketFails(r)
    BY <1>15, Recorded DEF RecordSocket, EndSocket, EndSocketFails, SendFails, Finish
  <1>16. CASE PumpStart(r) \/ PumpPiece(r) \/ PumpEnds(r) \/ PumpCancelled(r)
    BY <1>16 DEF PumpStart, PumpPiece, PumpEnds, PumpCancelled, DriverPiece, DriverEnds, DriverClosed
  <1>17. CASE ClientLeaves(r)
    BY <1>17 DEF ClientLeaves
  <1> QED
    BY <1>1, <1>2, <1>3, <1>4, <1>5, <1>6, <1>7, <1>8, <1>9, <1>10, <1>11, <1>12, <1>13, <1>14, <1>15, <1>16, <1>17 DEF RequestStep, HandlerStep, StreamStep, SocketStep, PumpStep

\* A "stop" that comes first is the end of a run that succeeded.
LEMMA SoundStop ==
  ASSUME NEW q \in Seq(Items), NEW how, Sound(q, how), q # <<>>, Head(q) = "stop"
  PROVE  how = "ok"
  <1>1. Len(q) \in Nat /\ Len(q) >= 1 /\ q[1] = "stop"
    BY HeadTailProperties, EmptySeq
  <1> QED
    BY <1>1, NoneBefore DEF Sound

LEMMA TruthKept ==
  ASSUME NEW r \in Requests, TypeOK, PlaceInv(r), QueueInv(r), RowInv(r), TruthInv(r), RequestStep(r)
  PROVE  TruthInv(r)'
  <1>0. /\ pc \in [Requests -> Places] /\ rows \in [Requests -> Seq(Statuses)]
        /\ err \in [Requests -> BOOLEAN] /\ outcome \in [Requests -> {"none", "ok", "error"}]
        /\ told \in [Requests -> {"none", "ok", "error"}]
    BY DEF TypeOK, HandlerType, DriverType, ClientType, Statuses
  <1> USE <1>0 DEF TruthInv, PlaceInv, RowInv, Verdict, Record, Goto, Before, Streams, Sockets, Plain, driver
  <1>1. CASE Refuse(r) \/ OverLimit(r) \/ Admit(r) \/ MapFails(r)
    BY <1>1, Recorded DEF Refuse, OverLimit, Admit, MapFails, Finish
  <1>2. CASE RunPlain(r) \/ EndPlain(r)
    BY <1>2, Recorded DEF RunPlain, EndPlain, DriverEnds, Finish
  <1>3. CASE DropUnstarted(r) \/ Preamble(r) \/ RunStream(r)
    BY <1>3 DEF DropUnstarted, Preamble, RunStream
  <1>4. CASE YieldPiece(r) \/ Resume(r) \/ EndStream(r)
    <2>1. CASE YieldPiece(r) \/ Resume(r)
      BY <2>1 DEF YieldPiece, Resume, DriverPiece
    <2>2. CASE EndStream(r)
      <3>1. PICK how \in Verdicts : DriverEnds(r, how) /\ err' = [err EXCEPT ![r] = (how = "error")]
        BY <2>2 DEF EndStream, Verdicts
      <3>2. (err'[r] <=> how = "error") /\ outcome'[r] = how
        BY <3>1 DEF DriverEnds
      <3>3. rows'[r] = <<>> /\ told'[r] = "none" /\ pc'[r] = "tail"
        BY <2>2 DEF EndStream
      <3>4. how \in {"ok", "error"}
        BY DEF Verdicts
      <3> QED
        BY <3>2, <3>3, <3>4, Recorded
    <2> QED
      BY <1>4, <2>1, <2>2
  <1>5. CASE LastEvents(r) \/ RecordStream(r) \/ EndGenerator(r)
    BY <1>5, Recorded DEF LastEvents, RecordStream, EndGenerator, Finish
  <1>6. CASE CloseInLoop(r) \/ CloseOutside(r)
    BY <1>6, Recorded DEF CloseInLoop, CloseOutside, DriverClosed, Finish
  <1>7. CASE Open(r) \/ OpenFails(r) \/ TakePiece(r) \/ TakePieceFails(r)
    BY <1>7 DEF Open, OpenFails, TakePiece, TakePieceFails, Arrives, StopPump, SendFails, Finish
  <1>8. CASE TakeError(r) \/ TakeStop(r) \/ Disconnect(r)
    <2>1. ASSUME TakeStop(r) PROVE outcome[r] = "ok"
      <3>1. queue[r] \in Seq(Items) /\ queue[r] # <<>> /\ Head(queue[r]) = "stop"
        BY <2>1 DEF TakeStop, Arrives, TypeOK, SocketType, Items
      <3>2. Sound(queue[r], outcome[r])
        BY DEF QueueInv
      <3> QED
        BY <3>1, <3>2, SoundStop, Zenon
    <2> QED
      BY <1>8, <2>1, Recorded DEF TakeError, TakeStop, Disconnect, StopPump, Arrives, Finish
  <1>9. CASE RecordSocket(r) \/ EndSocket(r) \/ EndSocketFails(r)
    BY <1>9, Recorded DEF RecordSocket, EndSocket, EndSocketFails, SendFails, Finish
  <1>10. CASE PumpStart(r) \/ PumpPiece(r) \/ PumpEnds(r) \/ PumpCancelled(r)
    BY <1>10 DEF PumpStart, PumpPiece, PumpEnds, PumpCancelled, DriverPiece, DriverEnds, DriverClosed
  <1>11. CASE ClientLeaves(r)
    BY <1>11 DEF ClientLeaves
  <1> QED
    BY <1>1, <1>2, <1>3, <1>4, <1>5, <1>6, <1>7, <1>8, <1>9, <1>10, <1>11 DEF RequestStep, HandlerStep, StreamStep, SocketStep, PumpStep

LEMMA SoundTail ==
  ASSUME NEW q \in Seq(Items), NEW how, Sound(q, how), q # <<>>, Head(q) = "piece"
  PROVE  Sound(Tail(q), how)
  <1>1. /\ Len(q) \in Nat /\ Len(q) >= 1 /\ Len(Tail(q)) = Len(q) - 1 /\ q[1] = "piece"
        /\ \A i \in 1..Len(Tail(q)) : Tail(q)[i] = q[i + 1]
    BY HeadTailProperties, EmptySeq
  <1> SUFFICES ASSUME NEW i \in 1..Len(Tail(q)), Tail(q)[i] = "stop", how # "ok"
               PROVE  \E j \in 1..(i - 1) : Tail(q)[j] = "error"
    BY DEF Sound
  <1>2. i + 1 \in 1..Len(q) /\ q[i + 1] = "stop"
    BY <1>1
  <1>3. PICK j \in 1..i : q[j] = "error"
    BY <1>2 DEF Sound
  <1>4. j # 1 /\ j - 1 \in 1..(i - 1) /\ j - 1 \in 1..Len(Tail(q))
    BY <1>1, <1>3
  <1>5. Tail(q)[j - 1] = "error"
    BY <1>1, <1>3, <1>4
  <1> QED
    BY <1>4, <1>5

LEMMA SoundPiece ==
  ASSUME NEW q \in Seq(Items), NEW how, Sound(q, how)
  PROVE  Sound(Append(q, "piece"), how)
  <1>1. /\ Len(q) \in Nat /\ Len(Append(q, "piece")) = Len(q) + 1
        /\ \A i \in 1..Len(q) : Append(q, "piece")[i] = q[i]
        /\ Append(q, "piece")[Len(q) + 1] = "piece"
    BY AppendProperties DEF Items
  <1> QED
    BY <1>1 DEF Sound

\* The verdict of the run: nothing before it said "stop" for a success.
LEMMA SoundEnd ==
  ASSUME NEW q \in Seq(Items), NEW how, Sound(q, "none")
  PROVE  Sound(q \o <<"stop">>, "ok") /\ Sound(q \o <<"error", "stop">>, how)
  <1>1. Sound(q \o <<"stop">>, "ok")
    BY DEF Sound
  <1>2. <<"error", "stop">> \in Seq(Items) /\ Len(<<"error", "stop">>) = 2
    BY DEF Items
  <1> DEFINE e == q \o <<"error", "stop">>
  <1>3. /\ Len(q) \in Nat /\ Len(e) = Len(q) + 2
        /\ \A i \in 1..Len(q) : e[i] = q[i]
        /\ e[Len(q) + 1] = "error"
    BY <1>2, ConcatProperties
  <1> HIDE DEF e
  <1>4. ASSUME NEW i \in 1..Len(e), e[i] = "stop" PROVE \E j \in 1..(i - 1) : e[j] = "error"
    <2>1. CASE i \in 1..Len(q)
      <3>1. q[i] = "stop"
        BY <1>3, <1>4, <2>1
      <3>2. PICK j \in 1..(i - 1) : q[j] = "error"
        BY <2>1, <3>1 DEF Sound
      <3> QED
        BY <1>3, <2>1, <3>2
    <2>2. CASE i \notin 1..Len(q)
      <3>1. i # Len(q) + 1
        BY <1>3, <1>4
      <3>2. Len(q) + 1 \in 1..(i - 1)
        BY <1>3, <2>2, <3>1
      <3> QED
        BY <1>3, <3>2
    <2> QED
      BY <2>1, <2>2
  <1>5. Sound(e, how)
    BY <1>4 DEF Sound
  <1> QED
    BY <1>1, <1>5 DEF e

LEMMA QueueKept ==
  ASSUME NEW r \in Requests, TypeOK, PlaceInv(r), QueueInv(r), RequestStep(r)
  PROVE  QueueInv(r)'
  <1>0. /\ queue \in [Requests -> Seq(Items)] /\ queue[r] \in Seq(Items)
        /\ outcome \in [Requests -> {"none", "ok", "error"}]
    BY DEF TypeOK, SocketType, DriverType, Items
  <1>1. CASE TakePiece(r)
    <2>1. queue[r] # <<>> /\ Head(queue[r]) = "piece"
      BY <1>1 DEF TakePiece, Arrives
    <2>2. queue'[r] = Tail(queue[r]) /\ outcome'[r] = outcome[r]
      BY <1>0, <1>1 DEF TakePiece, driver
    <2> QED
      BY <1>0, <2>1, <2>2, SoundTail DEF QueueInv
  <1>2. CASE PumpPiece(r)
    <2>1. queue'[r] = Append(queue[r], "piece") /\ outcome'[r] = outcome[r]
      BY <1>0, <1>2 DEF PumpPiece, DriverPiece
    <2> QED
      BY <1>0, <2>1, SoundPiece DEF QueueInv
  <1>3. CASE PumpEnds(r) \/ PumpCancelled(r)
    <2>1. Sound(queue[r], "none")
      BY <1>3 DEF PumpEnds, PumpCancelled, PlaceInv, QueueInv
    <2>2. \/ queue'[r] = queue[r] \o <<"stop">> /\ outcome'[r] = "ok"
          \/ queue'[r] = queue[r] \o <<"error", "stop">>
      <3>1. CASE PumpEnds(r)
        <4>1. PICK how \in {"ok", "error"} :
                /\ DriverEnds(r, how)
                /\ queue' = [queue EXCEPT ![r] = @ \o IF how = "ok" THEN <<"stop">>
                                                                    ELSE <<"error", "stop">>]
          BY <3>1 DEF PumpEnds
        <4>2. outcome'[r] = how
          BY <1>0, <4>1 DEF DriverEnds
        <4> QED
          BY <1>0, <4>1, <4>2
      <3>2. CASE PumpCancelled(r)
        BY <1>0, <3>2 DEF PumpCancelled
      <3> QED
        BY <1>3, <3>1, <3>2
    <2> QED
      BY <1>0, <2>1, <2>2, SoundEnd DEF QueueInv
  <1>4. CASE ~(TakePiece(r) \/ PumpPiece(r) \/ PumpEnds(r) \/ PumpCancelled(r))
    <2>1. queue' = queue /\ (outcome'[r] = outcome[r] \/ outcome[r] = "none")
      <3> USE <1>0, <1>4 DEF PlaceInv, Before, driver, socket, DriverEnds, DriverPiece, DriverClosed
      <3>1. CASE Refuse(r) \/ OverLimit(r) \/ Admit(r) \/ MapFails(r) \/ RunPlain(r) \/ EndPlain(r)
        BY <3>1 DEF Refuse, OverLimit, Admit, MapFails, RunPlain, EndPlain
      <3>2. CASE DropUnstarted(r) \/ Preamble(r) \/ RunStream(r) \/ YieldPiece(r) \/ Resume(r)
                   \/ EndStream(r)
        BY <3>2 DEF DropUnstarted, Preamble, RunStream, YieldPiece, Resume, EndStream
      <3>3. CASE LastEvents(r) \/ RecordStream(r) \/ EndGenerator(r) \/ CloseInLoop(r)
                   \/ CloseOutside(r)
        BY <3>3 DEF LastEvents, RecordStream, EndGenerator, CloseInLoop, CloseOutside
      <3>4. CASE Open(r) \/ OpenFails(r) \/ TakePieceFails(r) \/ TakeError(r) \/ TakeStop(r)
                   \/ Disconnect(r)
        BY <3>4 DEF Open, OpenFails, TakePieceFails, TakeError, TakeStop, Disconnect
      <3>5. CASE RecordSocket(r) \/ EndSocket(r) \/ EndSocketFails(r) \/ PumpStart(r)
                   \/ ClientLeaves(r)
        BY <3>5 DEF RecordSocket, EndSocket, EndSocketFails, PumpStart, ClientLeaves
      <3> QED
        BY <3>1, <3>2, <3>3, <3>4, <3>5
        DEF RequestStep, HandlerStep, StreamStep, SocketStep, PumpStep
    <2> QED
      BY <2>1 DEF QueueInv, Sound
  <1> QED
    BY <1>1, <1>2, <1>3, <1>4

-----------------------------------------------------------------------------
(* The slots *)

SlotInv ==
  /\ IsFiniteSet(held)
  /\ \A k \in Keys :
       Limit[k] # 0 => slots[k] = Cardinality(Of(held, k)) /\ slots[k] <= Limit[k]

\* A slot is given back only by a request that holds it.
LEMMA ReleaseHeld ==
  ASSUME NEW r \in Requests, HeldInv(r), RequestStep(r)
  PROVE  UNCHANGED <<slots, held>> \/ Admit(r) \/ (Release(r) /\ r \in held)
  <1> USE DEF HeldInv, Streams, Sockets, Plain, Finish
  <1>1. CASE Refuse(r) \/ OverLimit(r) \/ Admit(r) \/ MapFails(r)
    BY <1>1 DEF Refuse, OverLimit, MapFails
  <1>2. CASE RunPlain(r) \/ EndPlain(r)
    BY <1>2 DEF RunPlain, EndPlain
  <1>3. CASE DropUnstarted(r) \/ Preamble(r) \/ RunStream(r) \/ YieldPiece(r) \/ Resume(r)
    BY <1>3 DEF DropUnstarted, Preamble, RunStream, YieldPiece, Resume
  <1>4. CASE EndStream(r) \/ LastEvents(r) \/ RecordStream(r) \/ EndGenerator(r)
    BY <1>4 DEF EndStream, LastEvents, RecordStream, EndGenerator
  <1>5. CASE CloseInLoop(r) \/ CloseOutside(r)
    BY <1>5 DEF CloseInLoop, CloseOutside
  <1>6. CASE Open(r) \/ OpenFails(r) \/ TakePiece(r) \/ TakePieceFails(r)
    BY <1>6 DEF Open, OpenFails, TakePiece, TakePieceFails
  <1>7. CASE TakeError(r) \/ TakeStop(r) \/ Disconnect(r)
    BY <1>7 DEF TakeError, TakeStop, Disconnect, Arrives
  <1>8. CASE RecordSocket(r) \/ EndSocket(r) \/ EndSocketFails(r)
    BY <1>8 DEF RecordSocket, EndSocket, EndSocketFails
  <1>9. CASE PumpStep(r)
    BY <1>9 DEF PumpStep, PumpStart, PumpPiece, PumpEnds, PumpCancelled
  <1>10. CASE ClientLeaves(r)
    BY <1>10 DEF ClientLeaves
  <1> QED
    BY <1>1, <1>2, <1>3, <1>4, <1>5, <1>6, <1>7, <1>8, <1>9, <1>10
    DEF RequestStep, HandlerStep, StreamStep, SocketStep

LEMMA OfFinite ==
  ASSUME IsFiniteSet(held), NEW k
  PROVE  IsFiniteSet(Of(held, k)) /\ Cardinality(Of(held, k)) \in Nat
  <1>1. Of(held, k) \subseteq held
    BY DEF Of
  <1> QED
    BY <1>1, FS_Subset, FS_CardinalityType

LEMMA SlotKept ==
  ASSUME NEW r \in Requests, TypeOK, HeldInv(r), SlotInv, RequestStep(r)
  PROVE  SlotInv'
  <1>0. /\ slots \in [Keys -> Nat] /\ held \subseteq Requests /\ Key[r] \in Keys
        /\ Limit \in [Keys -> Nat] /\ IsFiniteSet(held)
    BY LifeAssumption DEF TypeOK, HandlerType, SlotInv
  <1>1. CASE UNCHANGED <<slots, held>>
    BY <1>1 DEF SlotInv
  <1>2. CASE Admit(r)
    <2>1. r \notin held /\ held' = held \cup {r}
      BY <1>2 DEF Admit, HeldInv
    <2>2. IsFiniteSet(held')
      BY <1>0, <2>1, FS_AddElement
    <2>3. ASSUME NEW k \in Keys, Limit[k] # 0
          PROVE  slots'[k] = Cardinality(Of(held', k)) /\ slots'[k] <= Limit[k]
      <3>1. slots[k] = Cardinality(Of(held, k)) /\ slots[k] <= Limit[k]
        BY <2>3 DEF SlotInv
      <3>2. CASE k = Key[r]
        <4>1. Of(held', k) = Of(held, k) \cup {r} /\ r \notin Of(held, k)
          BY <2>1, <3>2 DEF Of
        <4>2. Cardinality(Of(held', k)) = Cardinality(Of(held, k)) + 1
          BY <1>0, <4>1, OfFinite, FS_AddElement
        <4>3. slots'[k] = slots[k] + 1 /\ ~(slots[k] >= Limit[k])
          BY <1>0, <1>2, <2>3, <3>2 DEF Admit, AtLimit, Counted
        <4>4. slots[k] \in Nat /\ Limit[k] \in Nat
          BY <1>0
        <4> QED
          BY <3>1, <4>2, <4>3, <4>4
      <3>3. CASE k # Key[r]
        <4>1. Of(held', k) = Of(held, k)
          BY <2>1, <3>3 DEF Of
        <4>2. slots'[k] = slots[k]
          BY <1>0, <1>2, <3>3 DEF Admit
        <4> QED
          BY <3>1, <4>1, <4>2
      <3> QED
        BY <3>2, <3>3
    <2> QED
      BY <2>2, <2>3 DEF SlotInv, Of
  <1>3. CASE Release(r) /\ r \in held
    <2>1. held' = held \ {r}
      BY <1>3 DEF Release
    <2>2. IsFiniteSet(held')
      BY <1>0, <2>1, FS_RemoveElement
    <2>3. ASSUME NEW k \in Keys, Limit[k] # 0
          PROVE  slots'[k] = Cardinality(Of(held', k)) /\ slots'[k] <= Limit[k]
      <3>1. slots[k] = Cardinality(Of(held, k)) /\ slots[k] <= Limit[k]
        BY <2>3 DEF SlotInv
      <3>2. CASE k = Key[r]
        <4>1. Of(held', k) = Of(held, k) \ {r} /\ r \in Of(held, k)
          BY <1>3, <2>1, <3>2 DEF Of
        <4>2. Cardinality(Of(held', k)) = Cardinality(Of(held, k)) - 1
          BY <1>0, <4>1, OfFinite, FS_RemoveElement
        <4>3. Cardinality(Of(held, k)) # 0
          BY <1>0, <4>1, OfFinite, FS_EmptySet
        <4>4. slots'[k] = slots[k] - 1
          BY <1>0, <1>3, <2>3, <3>1, <3>2, <4>3 DEF Release, Counted
        <4>5. slots[k] \in Nat /\ Limit[k] \in Nat
          BY <1>0
        <4> QED
          BY <3>1, <4>2, <4>4, <4>5
      <3>3. CASE k # Key[r]
        <4>1. Of(held', k) = Of(held, k)
          BY <2>1, <3>3 DEF Of
        <4>2. slots'[k] = slots[k]
          BY <1>0, <1>3, <3>3 DEF Release
        <4> QED
          BY <3>1, <4>1, <4>2
      <3> QED
        BY <3>2, <3>3
    <2> QED
      BY <2>2, <2>3 DEF SlotInv, Of
  <1> QED
    BY <1>1, <1>2, <1>3, ReleaseHeld

-----------------------------------------------------------------------------
(* The inductive invariant *)

LifeInv == TypeOK /\ SlotInv /\ \A u \in Requests : RequestInv(u)

LEMMA InitLife == Init => LifeInv
  <1> SUFFICES ASSUME Init PROVE LifeInv
    OBVIOUS
  <1>1. TypeOK
    <2>1. <<>> \in Seq(Items) /\ <<>> \in Seq(Statuses)
      BY EmptySeq
    <2>2. HandlerType /\ DriverType
      BY LifeAssumption DEF Init, HandlerType, DriverType, Places
    <2>3. SocketType /\ ClientType
      BY <2>1 DEF Init, SocketType, ClientType, Items, Statuses
    <2> QED
      BY <2>2, <2>3 DEF TypeOK
  <1>2. SlotInv
    <2>1. held = {} /\ slots = [k \in Keys |-> 0] /\ IsFiniteSet(held)
      BY FS_EmptySet DEF Init
    <2>2. \A k \in Keys : Of(held, k) = {} /\ Cardinality(Of(held, k)) = 0
      BY <2>1, FS_EmptySet DEF Of
    <2> QED
      BY <2>1, <2>2, LifeAssumption DEF SlotInv
  <1>3. ASSUME NEW u \in Requests PROVE RequestInv(u)
    <2>1. PlaceInv(u) /\ HeldInv(u)
      BY DEF Init, PlaceInv, HeldInv, Before
    <2>2. RowInv(u)
      BY NoRow DEF Init, RowInv, Before
    <2>3. QueueInv(u)
      BY NoRow DEF Init, QueueInv, Sound
    <2>4. TruthInv(u)
      BY DEF Init, TruthInv, Before
    <2> QED
      BY <2>1, <2>2, <2>3, <2>4 DEF RequestInv
  <1> QED
    BY <1>1, <1>2, <1>3 DEF LifeInv

LEMMA NextLife == LifeInv /\ [Next]_vars => LifeInv'
  <1> SUFFICES ASSUME LifeInv, [Next]_vars PROVE LifeInv'
    OBVIOUS
  <1>1. TypeOK /\ SlotInv /\ \A u \in Requests : RequestInv(u)
    BY DEF LifeInv
  <1>2. ASSUME NEW r \in Requests, RequestStep(r) PROVE LifeInv'
    <2>1. RequestInv(r)
      BY <1>1
    <2>2. TypeOK' /\ SlotInv'
      BY <1>1, <1>2, <2>1, TypeKept, SlotKept DEF RequestInv
    <2>3. RequestInv(r)'
      BY <1>1, <1>2, <2>1, PlaceKept, HeldKept, RowKept, QueueKept, TruthKept DEF RequestInv
    <2>4. ASSUME NEW u \in Requests, u # r PROVE RequestInv(u)'
      BY <1>1, <1>2, <2>4, OthersUntouched, UntouchedKept
    <2> QED
      BY <2>2, <2>3, <2>4 DEF LifeInv
  <1>3. CASE UNCHANGED vars
    <2>1. TypeOK' /\ SlotInv'
      BY <1>1, <1>3 DEF vars, driver, socket, TypeOK, HandlerType, DriverType, SocketType,
                       ClientType, SlotInv
    <2>2. ASSUME NEW u \in Requests PROVE RequestInv(u)'
      <3>1. Untouched(u)
        BY <1>3 DEF vars, driver, socket, Untouched
      <3> QED
        BY <1>1, <3>1, UntouchedKept
    <2> QED
      BY <2>1, <2>2 DEF LifeInv
  <1> QED
    BY <1>2, <1>3 DEF Next, Rest, RequestStep

THEOREM LifeInductive == Spec => []LifeInv
  BY InitLife, NextLife, PTL DEF Spec

-----------------------------------------------------------------------------
(* What the inductive invariant gives *)

\* The request handlers of app.py keep every variable in its type.
THEOREM LifeTypeOK == Spec => []TypeOK
  <1>1. LifeInv => TypeOK
    BY DEF LifeInv
  <1> QED
    BY <1>1, LifeInductive, PTL

\* The count in app.state.key_slots is that of the requests being handled,
\* and a request that is over holds none, but for a stream never started.
THEOREM LifeSlotsExact == Spec => []SlotsExact
  <1>1. LifeInv => SlotsExact
    <2> SUFFICES ASSUME LifeInv PROVE SlotsExact
      OBVIOUS
    <2>1. ASSUME NEW r \in held, pc[r] \in {"new", "refused", "done"} PROVE NeverStarted(r)
      <3>1. r \in Requests /\ HeldInv(r)
        BY DEF LifeInv, RequestInv, TypeOK, HandlerType
      <3> QED
        BY <2>1, <3>1 DEF HeldInv
    <2> QED
      BY <2>1 DEF LifeInv, SlotInv, SlotsExact
  <1> QED
    BY <1>1, LifeInductive, PTL

\* However many requests a key has, the driver runs for those whose handler
\* is at work stay within its max_concurrent.
THEOREM LifeServedUnderLimit == Spec => []ServedUnderLimit
  <1>1. LifeInv => ServedUnderLimit
    <2> SUFFICES ASSUME LifeInv, NEW k \in Keys, Limit[k] # 0
                 PROVE  Cardinality({r \in Of(live, k) : pc[r] # "done"}) <= Limit[k]
      BY DEF ServedUnderLimit
    <2> DEFINE served == {r \in Of(live, k) : pc[r] # "done"}
    <2>1. ASSUME NEW r \in served PROVE r \in Of(held, k)
      <3>1. r \in Requests /\ r \in live /\ Key[r] = k /\ pc[r] # "done"
        BY DEF LifeInv, TypeOK, DriverType, Of
      <3>2. PlaceInv(r) /\ HeldInv(r)
        BY <3>1 DEF LifeInv, RequestInv
      <3> QED
        BY <3>1, <3>2 DEF PlaceInv, HeldInv, Before, Of
    <2>2. IsFiniteSet(Of(held, k)) /\ Cardinality(Of(held, k)) \in Nat
      BY OfFinite DEF LifeInv, SlotInv
    <2>3. Cardinality(Of(held, k)) <= Limit[k] /\ Limit[k] \in Nat
      BY LifeAssumption DEF LifeInv, SlotInv
    <2>4. served \subseteq Of(held, k)
      BY <2>1
    <2> HIDE DEF served
    <2>5. Cardinality(served) <= Cardinality(Of(held, k)) /\ Cardinality(served) \in Nat
      BY <2>2, <2>4, FS_Subset, FS_CardinalityType
    <2>6. Cardinality(served) <= Limit[k]
      BY <2>2, <2>3, <2>5
    <2> QED
      BY <2>6 DEF served
  <1> QED
    BY <1>1, LifeInductive, PTL

\* No request leaves two rows in the request log, and one whose client
\* waited has its row when its handler is over.
THEOREM LifeLoggedOnce == Spec => []LoggedOnce
  <1>1. LifeInv => LoggedOnce
    BY DEF LifeInv, RequestInv, RowInv, LoggedOnce
  <1> QED
    BY <1>1, LifeInductive, PTL

\* "Complete" is said to a client, or written to the log, only of a run that
\* was, and the two agree while the client is there.
THEOREM LifeTruthful == Spec => []Truthful
  <1>1. LifeInv => Truthful
    BY DEF LifeInv, RequestInv, TruthInv, Truthful
  <1> QED
    BY <1>1, LifeInductive, PTL

LEMMA RunBegins ==
  ASSUME NEW r \in Requests, PlaceInv(r), RequestStep(r)
  PROVE  live' \subseteq live \/ (live' = live \cup {r} /\ pc[r] # "done")
  <1> USE DEF PlaceInv, DriverPiece, DriverEnds, DriverClosed, driver
  <1>1. CASE Refuse(r) \/ OverLimit(r) \/ Admit(r) \/ MapFails(r)
    BY <1>1 DEF Refuse, OverLimit, Admit, MapFails
  <1>2. CASE RunPlain(r) \/ EndPlain(r)
    BY <1>2 DEF RunPlain, EndPlain
  <1>3. CASE DropUnstarted(r) \/ Preamble(r) \/ RunStream(r) \/ YieldPiece(r) \/ Resume(r)
    BY <1>3 DEF DropUnstarted, Preamble, RunStream, YieldPiece, Resume
  <1>4. CASE EndStream(r) \/ LastEvents(r) \/ RecordStream(r) \/ EndGenerator(r)
    BY <1>4 DEF EndStream, LastEvents, RecordStream, EndGenerator
  <1>5. CASE CloseInLoop(r) \/ CloseOutside(r)
    BY <1>5 DEF CloseInLoop, CloseOutside
  <1>6. CASE Open(r) \/ OpenFails(r) \/ TakePiece(r) \/ TakePieceFails(r)
    BY <1>6 DEF Open, OpenFails, TakePiece, TakePieceFails
  <1>7. CASE TakeError(r) \/ TakeStop(r) \/ Disconnect(r)
    BY <1>7 DEF TakeError, TakeStop, Disconnect
  <1>8. CASE RecordSocket(r) \/ EndSocket(r) \/ EndSocketFails(r)
    BY <1>8 DEF RecordSocket, EndSocket, EndSocketFails
  <1>9. CASE PumpStep(r)
    BY <1>9 DEF PumpStep, PumpStart, PumpPiece, PumpEnds, PumpCancelled
  <1>10. CASE ClientLeaves(r)
    BY <1>10 DEF ClientLeaves
  <1> QED
    BY <1>1, <1>2, <1>3, <1>4, <1>5, <1>6, <1>7, <1>8, <1>9, <1>10
    DEF RequestStep, HandlerStep, StreamStep, SocketStep

\* A pump that was still queued when its handler ended never starts its run:
\* the finally clause of the WebSocket cancels it.
THEOREM LifeNoLateRun == Spec => NoLateRun
  <1>1. LifeInv /\ [Next]_vars => [\A r \in live' \ live : pc[r] # "done"]_vars
    <2> SUFFICES ASSUME LifeInv, Next PROVE \A r \in live' \ live : pc[r] # "done"
      OBVIOUS
    <2>1. CASE \E u \in Requests : RequestStep(u)
      <3>1. PICK u \in Requests : RequestStep(u)
        BY <2>1
      <3>2. PlaceInv(u)
        BY DEF LifeInv, RequestInv
      <3> QED
        BY <3>1, <3>2, RunBegins
    <2>2. CASE Rest
      BY <2>2 DEF Rest, vars, driver
    <2> QED
      BY <2>1, <2>2 DEF Next, RequestStep
  <1> QED
    BY <1>1, LifeInductive, PTL DEF Spec, NoLateRun

-----------------------------------------------------------------------------
(* Every request winds down *)

PlaceLeft(r) ==
  CASE pc[r] = "new" -> 10 [] pc[r] = "admitted" -> 9 [] pc[r] = "preamble" -> 8
    [] pc[r] = "yield" -> 7 [] pc[r] \in {"run", "loop"} -> 6
    [] pc[r] = "tail" -> 5 [] pc[r] = "tailYield" -> 4 [] pc[r] = "last" -> 3
    [] pc[r] = "socketTail" -> 2 [] pc[r] = "socketLast" -> 1
    [] pc[r] \in {"done", "refused"} -> 0
PumpLeft(r) ==
  CASE pump[r] \in {"off", "queued"} -> 4 [] pump[r] = "running" -> 3 [] pump[r] = "ended" -> 0
PiecesLeft(r) == MaxPieces - pieces[r]
Waiting(r) == Len(queue[r])
Leaving(r) == IF r \in gone THEN 0 ELSE 1

\* What handler, driver, pump and client of a request may still do.
StepsLeft(r) == PlaceLeft(r) + PumpLeft(r) + 2 * PiecesLeft(r) + Waiting(r) + Leaving(r)

LEMMA LifeNumbers ==
  ASSUME NEW r \in Requests, TypeOK
  PROVE  /\ PlaceLeft(r) \in 0..10 /\ PumpLeft(r) \in 0..4 /\ Leaving(r) \in 0..1
         /\ PiecesLeft(r) \in Nat /\ Waiting(r) \in Nat
  <1>1. pc[r] \in Places /\ pump[r] \in {"off", "queued", "running", "ended"}
    BY DEF TypeOK, HandlerType, SocketType
  <1>2. PlaceLeft(r) \in 0..10
    BY <1>1 DEF PlaceLeft, Places
  <1>3. PumpLeft(r) \in 0..4 /\ Leaving(r) \in 0..1
    BY <1>1 DEF PumpLeft, Leaving
  <1>4. PiecesLeft(r) \in Nat
    BY LifeAssumption DEF TypeOK, DriverType, PiecesLeft
  <1>5. queue[r] \in Seq(Items)
    BY DEF TypeOK, SocketType, Items
  <1>6. Waiting(r) \in Nat
    BY <1>5, LenProperties DEF Waiting
  <1> QED
    BY <1>2, <1>3, <1>4, <1>6

\* The handler goes on: the place it reaches is behind the one it leaves.
LEMMA HandlerLowers ==
  ASSUME NEW r \in Requests, TypeOK, PlaceInv(r), HandlerStep(r), ~TakePiece(r), ~YieldPiece(r)
  PROVE  /\ PlaceLeft(r)' < PlaceLeft(r) /\ PumpLeft(r)' <= PumpLeft(r)
         /\ PiecesLeft(r)' = PiecesLeft(r) /\ Waiting(r)' = Waiting(r) /\ Leaving(r)' = Leaving(r)
  <1>0. pc \in [Requests -> Places] /\ pump \in [Requests -> {"off", "queued", "running", "ended"}]
    BY DEF TypeOK, HandlerType, SocketType
  <1>1. UNCHANGED <<pieces, queue, gone>>
    BY DEF HandlerStep, Refuse, OverLimit, Admit, MapFails, RunPlain, EndPlain, StreamStep, Preamble,
       RunStream, Resume, EndStream, LastEvents, RecordStream, EndGenerator, CloseInLoop,
       CloseOutside, DropUnstarted, SocketStep, Open, OpenFails, TakePieceFails, TakeError,
       TakeStop, Disconnect, RecordSocket, EndSocket, EndSocketFails, DriverEnds, DriverClosed,
       driver, socket
  <1>2. PlaceLeft(r)' < PlaceLeft(r)
    <2>1. CASE Refuse(r) \/ OverLimit(r) \/ Admit(r) \/ MapFails(r)
      BY <1>0, <2>1 DEF Refuse, OverLimit, Admit, MapFails, Finish, Goto, PlaceLeft
    <2>2. CASE RunPlain(r) \/ EndPlain(r)
      BY <1>0, <2>2 DEF RunPlain, EndPlain, Finish, Goto, PlaceLeft
    <2>3. CASE DropUnstarted(r) \/ Preamble(r) \/ RunStream(r) \/ Resume(r)
      BY <1>0, <2>3 DEF DropUnstarted, Preamble, RunStream, Resume, Goto, PlaceLeft
    <2>4. CASE EndStream(r) \/ LastEvents(r) \/ RecordStream(r) \/ EndGenerator(r)
      BY <1>0, <2>4 DEF EndStream, LastEvents, RecordStream, EndGenerator, Finish, Goto, PlaceLeft
    <2>5. CASE CloseInLoop(r) \/ CloseOutside(r)
      BY <1>0, <2>5 DEF CloseInLoop, CloseOutside, Finish, Goto, PlaceLeft
    <2>6. CASE Open(r) \/ OpenFails(r) \/ TakePieceFails(r)
      BY <1>0, <2>6 DEF Open, OpenFails, TakePieceFails, Arrives, Finish, Goto, PlaceLeft
    <2>7. CASE TakeError(r) \/ TakeStop(r) \/ Disconnect(r)
      BY <1>0, <2>7 DEF TakeError, TakeStop, Disconnect, Arrives, Finish, Goto, PlaceLeft
    <2>8. CASE RecordSocket(r) \/ EndSocket(r) \/ EndSocketFails(r)
      BY <1>0, <2>8 DEF RecordSocket, EndSocket, EndSocketFails, Finish, Goto, PlaceLeft
    <2> QED
      BY <2>1, <2>2, <2>3, <2>4, <2>5, <2>6, <2>7, <2>8 DEF HandlerStep, StreamStep, SocketStep
  <1>3. \/ pump' = pump
        \/ pump[r] = "off" /\ pump' = [pump EXCEPT ![r] = "queued"]
        \/ pump' = [pump EXCEPT ![r] = IF @ = "queued" THEN "ended" ELSE @]
    BY DEF HandlerStep, Refuse, OverLimit, Admit, MapFails, RunPlain, EndPlain, StreamStep, Preamble,
       RunStream, Resume, EndStream, LastEvents, RecordStream, EndGenerator, CloseInLoop,
       CloseOutside, DropUnstarted, SocketStep, Open, OpenFails, TakePieceFails, TakeError,
       TakeStop, Disconnect, RecordSocket, EndSocket, EndSocketFails, StopPump, PlaceInv, socket
  <1>4. PumpLeft(r)' <= PumpLeft(r)
    BY <1>0, <1>3 DEF PumpLeft
  <1> QED
    BY <1>1, <1>2, <1>4 DEF PiecesLeft, Waiting, Leaving

\* The pump goes on: what it puts in the queue is less than what it gives up.
LEMMA PumpLowers ==
  ASSUME NEW r \in Requests, TypeOK, PumpStep(r)
  PROVE  /\ PlaceLeft(r)' = PlaceLeft(r) /\ Leaving(r)' = Leaving(r)
         /\ \/ /\ PumpLeft(r)' = PumpLeft(r) /\ PiecesLeft(r)' = PiecesLeft(r) - 1
               /\ Waiting(r)' = Waiting(r) + 1
            \/ /\ PumpLeft(r)' = PumpLeft(r) - 1 /\ PiecesLeft(r)' = PiecesLeft(r)
               /\ Waiting(r)' = Waiting(r)
            \/ /\ PumpLeft(r)' = PumpLeft(r) - 3 /\ PiecesLeft(r)' = PiecesLeft(r)
               /\ Waiting(r)' <= Waiting(r) + 2
  <1>0. /\ pump \in [Requests -> {"off", "queued", "running", "ended"}]
        /\ pieces \in [Requests -> 0..MaxPieces] /\ MaxPieces \in Nat
        /\ DOMAIN queue = Requests /\ queue[r] \in Seq(Items)
    BY LifeAssumption DEF TypeOK, SocketType, DriverType, Items
  <1>1. PlaceLeft(r)' = PlaceLeft(r) /\ Leaving(r)' = Leaving(r)
    BY DEF PumpStep, PumpStart, PumpPiece, PumpEnds, PumpCancelled, PlaceLeft, Leaving
  <1>2. CASE PumpStart(r)
    <2>1. PumpLeft(r)' = PumpLeft(r) - 1
      BY <1>0, <1>2 DEF PumpStart, PumpLeft
    <2>2. PiecesLeft(r)' = PiecesLeft(r) /\ Waiting(r)' = Waiting(r)
      BY <1>2 DEF PumpStart, PiecesLeft, Waiting
    <2> QED
      BY <1>1, <2>1, <2>2
  <1>3. CASE PumpPiece(r)
    <2>1. PumpLeft(r)' = PumpLeft(r)
      BY <1>3 DEF PumpPiece, PumpLeft
    <2>2. PiecesLeft(r)' = PiecesLeft(r) - 1
      BY <1>0, <1>3 DEF PumpPiece, DriverPiece, PiecesLeft
    <2>3. queue'[r] = Append(queue[r], "piece")
      BY <1>0, <1>3 DEF PumpPiece
    <2>4. Waiting(r)' = Waiting(r) + 1
      BY <1>0, <2>3, AppendProperties DEF Items, Waiting
    <2> QED
      BY <1>1, <2>1, <2>2, <2>4
  <1>4. CASE PumpEnds(r) \/ PumpCancelled(r)
    <2>1. PumpLeft(r)' = PumpLeft(r) - 3
      BY <1>0, <1>4 DEF PumpEnds, PumpCancelled, PumpLeft
    <2>2. PiecesLeft(r)' = PiecesLeft(r)
      BY <1>4 DEF PumpEnds, PumpCancelled, DriverEnds, DriverClosed, PiecesLeft
    <2>3. PICK s \in {<<"stop">>, <<"error", "stop">>} : queue'[r] = queue[r] \o s
      BY <1>0, <1>4 DEF PumpEnds, PumpCancelled
    <2>4. s \in Seq(Items) /\ Len(s) \in 1..2
      <3>1. CASE s = <<"stop">>
        BY <3>1 DEF Items
      <3>2. CASE s = <<"error", "stop">>
        BY <3>2 DEF Items
      <3> QED
        BY <2>3, <3>1, <3>2
    <2>5. Len(queue'[r]) = Len(queue[r]) + Len(s) /\ Len(queue[r]) \in Nat
      BY <1>0, <2>3, <2>4, ConcatProperties, LenProperties
    <2>6. Waiting(r) \in Nat /\ \E n \in 1..2 : Waiting(r)' = Waiting(r) + n
      BY <2>4, <2>5 DEF Waiting
    <2>7. Waiting(r)' <= Waiting(r) + 2
      BY <2>6
    <2> QED
      BY <1>1, <2>1, <2>2, <2>7
  <1> QED
    BY <1>2, <1>3, <1>4 DEF PumpStep

LEMMA RequestLowers ==
  ASSUME NEW r \in Requests, TypeOK, PlaceInv(r), RequestStep(r), TypeOK'
  PROVE  StepsLeft(r)' < StepsLeft(r)
  <1>0. /\ PlaceLeft(r) \in Nat /\ PumpLeft(r) \in Nat /\ Leaving(r) \in Nat
        /\ PiecesLeft(r) \in Nat /\ Waiting(r) \in Nat
    BY LifeNumbers
  <1>1. PlaceLeft(r)' \in Nat /\ PumpLeft(r)' \in Nat /\ Waiting(r)' \in Nat
    <2>1. /\ pc'[r] \in Places /\ pump'[r] \in {"off", "queued", "running", "ended"}
          /\ queue'[r] \in Seq(Items)
      BY DEF TypeOK, HandlerType, SocketType, Items
    <2>2. PlaceLeft(r)' \in Nat /\ PumpLeft(r)' \in Nat
      BY <2>1 DEF PlaceLeft, PumpLeft, Places
    <2> QED
      BY <2>1, <2>2, LenProperties DEF Waiting
  <1>2. /\ StepsLeft(r) = PlaceLeft(r) + PumpLeft(r) + 2 * PiecesLeft(r) + Waiting(r) + Leaving(r)
        /\ StepsLeft(r)' =
             PlaceLeft(r)' + PumpLeft(r)' + 2 * PiecesLeft(r)' + Waiting(r)' + Leaving(r)'
    BY DEF StepsLeft
  <1>3. CASE HandlerStep(r) /\ ~TakePiece(r) /\ ~YieldPiece(r)
    <2>1. /\ PlaceLeft(r)' < PlaceLeft(r) /\ PumpLeft(r)' <= PumpLeft(r)
          /\ PiecesLeft(r)' = PiecesLeft(r) /\ Waiting(r)' = Waiting(r) /\ Leaving(r)' = Leaving(r)
      BY <1>3, HandlerLowers
    <2> QED
      BY <1>0, <1>1, <1>2, <2>1
  <1>4. CASE TakePiece(r)
    <2>1. /\ PlaceLeft(r)' = PlaceLeft(r) /\ PumpLeft(r)' = PumpLeft(r)
          /\ PiecesLeft(r)' = PiecesLeft(r) /\ Leaving(r)' = Leaving(r)
      BY <1>4 DEF TakePiece, PlaceLeft, PumpLeft, PiecesLeft, Leaving, driver
    <2>2. queue'[r] = Tail(queue[r]) /\ queue[r] # <<>> /\ queue[r] \in Seq(Items)
      BY <1>4 DEF TakePiece, Arrives, TypeOK, SocketType, Items
    <2>3. Len(queue'[r]) = Len(queue[r]) - 1
      BY <2>2, HeadTailProperties
    <2>4. Waiting(r)' = Waiting(r) - 1
      BY <2>3 DEF Waiting
    <2> QED
      BY <1>0, <1>2, <2>1, <2>4
  <1>5. CASE YieldPiece(r)
    <2>1. PumpLeft(r)' = PumpLeft(r) /\ Waiting(r)' = Waiting(r) /\ Leaving(r)' = Leaving(r)
      BY <1>5 DEF YieldPiece, PumpLeft, Waiting, Leaving, socket
    <2>2. pc[r] = "run" /\ pc'[r] = "yield"
      BY <1>5 DEF YieldPiece, Goto, TypeOK, HandlerType
    <2>3. PlaceLeft(r)' = PlaceLeft(r) + 1
      BY <2>2 DEF PlaceLeft
    <2>4. PiecesLeft(r)' = PiecesLeft(r) - 1
      BY <1>5, LifeAssumption DEF YieldPiece, DriverPiece, TypeOK, DriverType, PiecesLeft
    <2> QED
      BY <1>0, <1>2, <2>1, <2>3, <2>4
  <1>6. CASE PumpStep(r)
    <2>1. /\ PlaceLeft(r)' = PlaceLeft(r) /\ Leaving(r)' = Leaving(r)
          /\ \/ /\ PumpLeft(r)' = PumpLeft(r) /\ PiecesLeft(r)' = PiecesLeft(r) - 1
                /\ Waiting(r)' = Waiting(r) + 1
             \/ /\ PumpLeft(r)' = PumpLeft(r) - 1 /\ PiecesLeft(r)' = PiecesLeft(r)
                /\ Waiting(r)' = Waiting(r)
             \/ /\ PumpLeft(r)' = PumpLeft(r) - 3 /\ PiecesLeft(r)' = PiecesLeft(r)
                /\ Waiting(r)' <= Waiting(r) + 2
      BY <1>6, PumpLowers
    <2> QED
      BY <1>0, <1>1, <1>2, <2>1
  <1>7. CASE ClientLeaves(r)
    <2>1. /\ PlaceLeft(r)' = PlaceLeft(r) /\ PumpLeft(r)' = PumpLeft(r)
          /\ PiecesLeft(r)' = PiecesLeft(r) /\ Waiting(r)' = Waiting(r)
      BY <1>7 DEF ClientLeaves, PlaceLeft, PumpLeft, PiecesLeft, Waiting, driver, socket
    <2>2. Leaving(r)' = 0 /\ Leaving(r) = 1
      BY <1>7 DEF ClientLeaves, Leaving
    <2> QED
      BY <1>0, <1>2, <2>1, <2>2
  <1> QED
    BY <1>3, <1>4, <1>5, <1>6, <1>7 DEF RequestStep

\* A step belongs to one request, lowers what that one has left, and leaves
\* the others where they are: no request keeps another from its end, and none
\* goes on for ever, whichever of them steps, whichever client leaves.
THEOREM LifeWindsDown ==
  Spec => /\ [](\A r \in Requests : StepsLeft(r) \in Nat)
          /\ [][\E r \in Requests :
                  /\ StepsLeft(r)' < StepsLeft(r)
                  /\ \A u \in Requests \ {r} : StepsLeft(u)' = StepsLeft(u)]_vars
  <1>1. LifeInv => \A r \in Requests : StepsLeft(r) \in Nat
    <2> SUFFICES ASSUME LifeInv, NEW r \in Requests PROVE StepsLeft(r) \in Nat
      OBVIOUS
    <2>1. TypeOK
      BY DEF LifeInv
    <2> QED
      BY <2>1, LifeNumbers DEF StepsLeft
  <1>2. LifeInv /\ LifeInv' /\ [Next]_vars =>
          [\E r \in Requests :
             /\ StepsLeft(r)' < StepsLeft(r)
             /\ \A u \in Requests \ {r} : StepsLeft(u)' = StepsLeft(u)]_vars
    <2> SUFFICES ASSUME LifeInv, LifeInv', Next, ~UNCHANGED vars
                 PROVE  \E r \in Requests :
                          /\ StepsLeft(r)' < StepsLeft(r)
                          /\ \A u \in Requests \ {r} : StepsLeft(u)' = StepsLeft(u)
      OBVIOUS
    <2>1. PICK r \in Requests : RequestStep(r)
      BY DEF Next, Rest, RequestStep
    <2>2. TypeOK /\ PlaceInv(r) /\ TypeOK'
      BY DEF LifeInv, RequestInv
    <2>3. StepsLeft(r)' < StepsLeft(r)
      BY <2>1, <2>2, RequestLowers
    <2>4. ASSUME NEW u \in Requests \ {r} PROVE StepsLeft(u)' = StepsLeft(u)
      <3>1. Untouched(u)
        BY <2>1, <2>2, OthersUntouched
      <3> QED
        BY <3>1 DEF Untouched, StepsLeft, PlaceLeft, PumpLeft, PiecesLeft, Waiting, Leaving
    <2> QED
      BY <2>3, <2>4
  <1> QED
    BY <1>1, <1>2, LifeInductive, PTL DEF Spec
=============================================================================
