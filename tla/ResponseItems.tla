--------------------------- MODULE ResponseItems ---------------------------
(***************************************************************************)
(* From upstream events to Responses items: one request to /v1/responses.  *)
(*                                                                         *)
(* The driver hands over text, thinking and tool-call deltas.  ToolAgg     *)
(* (app.py) puts the tool calls together; _sse and _ws_stream              *)
(* (responses.py), the same code twice, stream every delta inside an       *)
(* output item that is added before and done after it, and send and store  *)
(* the whole answer at the end.  The handler without streaming, _collect,  *)
(* builds its answer from the aggregates alone.                            *)
(*                                                                         *)
(* A text is a sequence of pieces, numbered as they arrive; piece 0 is the *)
(* end of a JSON object.  A piece comes twice only where the upstream says *)
(* again what it said before.  Usage, metadata and wording are left out.   *)
(***************************************************************************)
EXTENDS Naturals, Sequences, SequencesExt

CONSTANTS
  Calls,        \* the tool calls of the answer
  Custom,       \* those of a tool the client declared as a custom tool
  NoCall,       \* a tool delta without an id, ToolAgg before any call
  Interleaved,  \* the upstream may come back to a call, or name it late
  MaxEvents     \* bound: deltas of one answer

ASSUME CallsAssumption == Custom \subseteq Calls /\ NoCall \notin Calls
ASSUME BoundAssumption == MaxEvents \in Nat /\ Interleaved \in BOOLEAN

VARIABLES
  transport,  \* "sse" or "ws"
  style,      \* do tool frames carry the arguments so far, or the new part?
  said,       \* what the upstream has said of each call
  agg,        \* ToolAgg: calls in order, arguments, named calls, active call
  text,       \* text_parts
  think,      \* think_parts
  out,        \* open_kind, out_idx, fc_open, fc_items and the events sent
  final,      \* items_out of response.completed, as sent and as stored
  pc,         \* "open", or how the response ended
  n           \* deltas so far

vars == <<transport, style, said, agg, text, think, out, final, pc, n>>

Pieces == 0 .. MaxEvents
Texts  == UNION {[1 .. k -> Pieces] : k \in 0 .. MaxEvents}
RsId   == <<"rs", 0>>
MsgId  == <<"msg", 0>>
FcId(k) == <<"fc", k>>      \* fresh for each call: k is its output_index
Ids    == {RsId, MsgId} \union {FcId(k) : k \in 1 .. MaxEvents}
Fresh  == <<"new", 0>>      \* an id of output_items, overwritten when streamed
NoFc   == [id |-> Fresh, call |-> NoCall, custom |-> FALSE]

----------------------------------------------------------------------------
(* Texts and tool calls *)

\* A body: its pieces, and whether _unwrap_input took them out of their JSON
\* object, which it does only to an object that is complete.
Plain(t) == [pieces |-> t, unwrapped |-> FALSE]
IsWhole(t) == t # <<>> /\ Last(t) = 0
CallBody(t, custom) == [pieces |-> t, unwrapped |-> custom /\ IsWhole(t)]

\* ToolAgg.feed guesses: a frame that begins with the arguments so far is taken
\* to repeat and replaces them, any other is appended; the delta is what is new.
Grown_Append(old, new) == old \o new
Grown(old, new) == IF IsPrefix(old, new) THEN new ELSE old \o new
NewPart_Whole(old, new) == new
NewPart(old, new) ==
  IF IsPrefix(old, new) THEN SubSeq(new, Len(old) + 1, Len(new)) ELSE new

CallOf(g, tc) == IF tc.id = NoCall THEN g.active ELSE tc.id

Ordered(order, c) == IF Contains(order, c) THEN order ELSE Append(order, c)

Feed(g, tc) ==
  LET c == CallOf(g, tc)
  IN  [order  |-> Ordered(g.order, c),
       args   |-> [g.args EXCEPT ![c] = Grown(@, tc.new)],
       named  |-> IF tc.name THEN g.named \union {c} ELSE g.named,
       active |-> c]

----------------------------------------------------------------------------
(* Output items *)

Event(type, id, o, body) == [type |-> type, id |-> id, idx |-> o.idx, body |-> body]
Sent(o, e) == [o EXCEPT !.wire = Append(@, e)]

OpenId(o) == CASE o.kind = "reasoning" -> RsId
               [] o.kind = "message"   -> MsgId
               [] OTHER                -> o.fc.id

OpenBody(o, g) == CASE o.kind = "reasoning" -> Plain(think)
                    [] o.kind = "message"   -> Plain(text)
                    [] OTHER -> CallBody(g.args[o.fc.call], o.fc.custom)

Item(type, id, c, body) == [type |-> type, id |-> id, call |-> c, body |-> body]

\* close_open: the done events of the open item, if one is open.
Close(o, g) ==
  IF o.kind = "none" THEN o
  ELSE LET e == Event("done", OpenId(o), o, OpenBody(o, g))
       IN  [Sent(o, e) EXCEPT
              !.kind = "none",
              !.fcItems = IF o.kind = "fc"
                          THEN Append(@, Item("call", e.id, o.fc.call, e.body)) ELSE @]

\* open_reasoning, open_message, open_fc: the next output_index.
Open(o, kind, fc) ==
  LET p == [o EXCEPT !.kind = kind, !.idx = @ + 1, !.fc = fc]
  IN  Sent(p, Event("added", OpenId(p), p, Plain(<<>>)))

SwitchTo_Unclosed(o, kind) == IF o.kind = kind THEN o ELSE Open(o, kind, o.fc)
SwitchTo(o, kind) ==
  IF o.kind = kind THEN o ELSE Open(Close(o, agg), kind, o.fc)

\* A frame opens an item when it names its call, or when no call was ever
\* opened, and the call is not the one opened last.
Opens(o, c, newName) == (newName \/ o.fc = NoFc) /\ o.fc.call # c

\* The arguments go to the call opened last, whichever they belong to.
ToolDelta(o, d) ==
  IF d = <<>> \/ o.fc = NoFc THEN o ELSE Sent(o, Event("delta", o.fc.id, o, Plain(d)))

ForCall(o, g, tc, old) ==
  LET c  == CallOf(g, tc)
      fc == [id |-> FcId(o.idx + 1), call |-> c, custom |-> c \in Custom /\ c \in g.named]
      p  == IF Opens(o, c, tc.name /\ c \notin old.named)
            THEN Open(Close(o, g), "fc", fc) ELSE o
  IN  ToolDelta(p, NewPart(old.args[c], tc.new))

----------------------------------------------------------------------------
(* The answer *)

\* output_items, from the aggregates alone: what _collect answers.
OutputItems(g) ==
  (IF think = <<>> THEN <<>> ELSE <<Item("reasoning", Fresh, NoCall, Plain(think))>>)
  \o [k \in DOMAIN g.order |->
        LET c == g.order[k]
        IN  Item("call", Fresh, c, CallBody(g.args[c], c \in Custom /\ c \in g.named))]
  \o (IF text = <<>> /\ g.order # <<>> THEN <<>>
      ELSE <<Item("message", Fresh, NoCall, Plain(text))>>)

\* What a stream sends and stores at its end: the same items with the ids of
\* the stream, each call replaced by the next one that was streamed.
WithStreamedIds_ByIndex(items, fcItems) ==
      [i \in DOMAIN items |->
        CASE items[i].type = "reasoning" -> [items[i] EXCEPT !.id = RsId]
          [] items[i].type = "message"   -> [items[i] EXCEPT !.id = MsgId]
          [] OTHER -> IF i <= Len(fcItems) THEN fcItems[i] ELSE items[i]]
WithStreamedIds_MsgNew(items, fcItems) ==
  LET before == IF items[1].type = "reasoning" THEN 1 ELSE 0
  IN  [i \in DOMAIN items |->
        CASE items[i].type = "reasoning" -> [items[i] EXCEPT !.id = RsId]
          [] items[i].type = "message"   -> items[i]
          [] OTHER -> IF i - before <= Len(fcItems) THEN fcItems[i - before] ELSE items[i]]
WithStreamedIds(items, fcItems) ==
  LET before == IF items[1].type = "reasoning" THEN 1 ELSE 0
  IN  [i \in DOMAIN items |->
        CASE items[i].type = "reasoning" -> [items[i] EXCEPT !.id = RsId]
          [] items[i].type = "message"   -> [items[i] EXCEPT !.id = MsgId]
          [] OTHER -> IF i - before <= Len(fcItems) THEN fcItems[i - before] ELSE items[i]]

----------------------------------------------------------------------------
Init ==
  /\ transport \in {"sse", "ws"}
  /\ style \in {"cumulative", "incremental"}
  /\ said = [c \in Calls |-> <<>>]
  /\ agg = [order |-> <<>>, args |-> said, named |-> {}, active |-> NoCall]
  /\ text = <<>> /\ think = <<>>
  /\ out = [kind |-> "none", idx |-> 0, fc |-> NoFc, fcItems |-> <<>>, wire |-> <<>>]
  /\ final = <<>>
  /\ pc = "open"
  /\ n = 0

Arrives == /\ pc = "open"
           /\ n < MaxEvents
           /\ n' = n + 1
           /\ UNCHANGED <<transport, style, final, pc>>

Thinks ==
  /\ Arrives
  /\ think' = Append(think, n')
  /\ out' = LET o == SwitchTo(out, "reasoning")
            IN  Sent(o, Event("delta", RsId, o, Plain(<<n'>>)))
  /\ UNCHANGED <<said, agg, text>>

Says ==
  /\ Arrives
  /\ text' = Append(text, n')
  /\ out' = LET o == SwitchTo(out, "message")
            IN  Sent(o, Event("delta", MsgId, o, Plain(<<n'>>)))
  /\ UNCHANGED <<said, agg, think>>

\* An upstream that ends a call before it begins the next item names a call
\* in its first frame and only there.
InTurn(c, name) ==
  LET first == ~Contains(agg.order, c)
  IN  (name <=> first) /\ (~first => agg.active = c /\ out.kind = "fc")

\* A tool-call frame: a name, the next piece of the arguments, or both; its id
\* may be missing when the call is the active one.
Calling(c, id, name, piece) ==
  LET now == said[c] \o piece
      tc  == [id |-> id, name |-> name,
              new |-> IF style = "cumulative" /\ piece # <<>> THEN now ELSE piece]
      g   == Feed(agg, tc)
  IN  /\ Arrives
      /\ id = NoCall => agg.active = c
      /\ Interleaved \/ InTurn(c, name)
      /\ name \/ piece # <<>>
      /\ ~IsWhole(said[c])
      /\ said' = [said EXCEPT ![c] = now]
      /\ agg' = g
      /\ out' = ForCall(out, g, tc, agg)
      /\ UNCHANGED <<text, think>>

\* What a frame may carry: nothing new, the next piece, the end; and of an
\* incremental upstream a continuation that begins with all that came before, as
\* in '{"a":' and then '{"a":1}}'.
NewPieces(c) == {<<>>, <<n + 1>>} \union (IF c \in Custom THEN {<<0>>} ELSE {})
EchoPieces(c) == IF style = "incremental" THEN {agg.args[c] \o <<n + 1>>} ELSE {}

ToolFrame ==
  \E c \in Calls, name \in BOOLEAN :
    \E id \in {c, NoCall}, piece \in NewPieces(c) \union EchoPieces(c) :
      Calling(c, id, name, piece)

\* The upstream is done: the open item is closed, the answer sent and stored.
Completes ==
  /\ pc = "open"
  /\ LET o == Close(out, agg)
     IN  /\ out' = o
         /\ final' = WithStreamedIds(OutputItems(agg), o.fcItems)
  /\ pc' = "completed"
  /\ UNCHANGED <<transport, style, said, agg, text, think, n>>

\* An error event of the driver: the open item is closed, the response failed.
Fails ==
  /\ pc = "open"
  /\ out' = Close(out, agg)
  /\ pc' = "failed"
  /\ UNCHANGED <<transport, style, said, agg, text, think, final, n>>

\* An exception of the driver: _ws_stream makes it an error event, _sse lets
\* it end the stream.
Raises ==
  /\ pc = "open"
  /\ \/ transport = "ws" /\ out' = Close(out, agg) /\ pc' = "failed"
     \/ transport = "sse" /\ pc' = "broken" /\ UNCHANGED out
  /\ UNCHANGED <<transport, style, said, agg, text, think, final, n>>

ClientLeaves ==
  /\ pc = "open"
  /\ pc' = "left"
  /\ UNCHANGED <<transport, style, said, agg, text, think, out, final, n>>

Next == Thinks \/ Says \/ ToolFrame \/ Completes \/ Fails \/ Raises \/ ClientLeaves

Spec == Init /\ [][Next]_vars

----------------------------------------------------------------------------
(* Properties *)

Bodies == [pieces : Texts, unwrapped : BOOLEAN]

\* Every variable has its type: in particular ToolAgg lists a call once.
TypeOK ==
  /\ transport \in {"sse", "ws"} /\ style \in {"cumulative", "incremental"}
  /\ said \in [Calls -> Seq(Pieces)]
  /\ agg.args \in [Calls -> Texts] /\ agg.named \subseteq Calls
  /\ IsInjective(agg.order) /\ ToSet(agg.order) \subseteq Calls
  /\ agg.active \in Calls \union {NoCall}
  /\ text \in Texts /\ think \in Texts
  /\ out.kind \in {"none", "reasoning", "message", "fc"} /\ out.idx \in 0 .. MaxEvents
  /\ \A i \in DOMAIN out.wire :
       /\ out.wire[i].type \in {"added", "delta", "done"}
       /\ out.wire[i].id \in Ids /\ out.wire[i].body \in Bodies
  /\ \A i \in DOMAIN final : final[i].body \in Bodies
  /\ pc \in {"open", "completed", "failed", "broken", "left"} /\ n \in 0 .. MaxEvents

\* An incremental upstream continued a call with what it had said already.
Echoed(c) == style = "incremental" /\ ~IsInjective(said[c])

\* The arguments ToolAgg has put together are those the upstream sent, in either
\* style, for every call of which the guess of ToolAgg.feed could not be wrong:
\* no continuation began with what was there already.
CallsWhole == \A c \in Calls : ~Echoed(c) => agg.args[c] = said[c]

\* The client never sees a delta outside its item: every event is "added", or
\* follows in its item, with its output_index, what is not yet done; and a
\* response that ends has ended its items (close_open before each opening and
\* at the end).
WellBracketed ==
  /\ \A i \in DOMAIN out.wire :
       LET e == out.wire[i]
           closed == i = 1 \/ out.wire[i - 1].type = "done"
       IN  IF e.type = "added" THEN closed
           ELSE ~closed /\ out.wire[i - 1].id = e.id /\ out.wire[i - 1].idx = e.idx
  /\ pc \in {"completed", "failed"} =>
       out.wire = <<>> \/ Last(out.wire).type = "done"

\* The pieces of the deltas of an item among the first k events.
Streamed(id, k) ==
  FlattenSeq([i \in 1 .. k |->
    IF out.wire[i].type = "delta" /\ out.wire[i].id = id
    THEN out.wire[i].body.pieces ELSE <<>>])

\* A client that joins the deltas of an item has the content its done event
\* reports (_sse's deltas against close_open's text and arguments).
DoneIsStreamed ==
  \A k \in DOMAIN out.wire :
    out.wire[k].type = "done" => out.wire[k].body.pieces = Streamed(out.wire[k].id, k)

\* The ids and contents of response.completed are those of the stream
\* ("keep generated ids stable with what we streamed"): each item of the
\* answer, but for the empty message of an empty answer, is the last done of
\* its id, and everything streamed is in the answer.
FinalIsStreamed ==
  pc = "completed" =>
    LET Done(id) == {k \in DOMAIN out.wire :
                       out.wire[k].type = "done" /\ out.wire[k].id = id}
    IN  /\ \A i \in DOMAIN final :
             final[i].body.pieces # <<>> \/ final[i].type = "call" =>
               \E k \in Done(final[i].id) :
                 /\ \A m \in Done(final[i].id) : m <= k
                 /\ out.wire[k].body = final[i].body
        /\ \A k \in DOMAIN out.wire : \E i \in DOMAIN final : final[i].id = out.wire[k].id

\* A streamed response answers, and stores for the next turn, what the same
\* upstream events give without streaming (_sse and _ws_stream against
\* _collect, which share output_items).
TransportsAgree ==
  pc = "completed" =>
    LET Content(items) == [i \in DOMAIN items |-> [items[i] EXCEPT !.id = Fresh]]
    IN  Content(final) = Content(OutputItems(agg))
============================================================================
