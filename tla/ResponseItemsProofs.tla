------------------------ MODULE ResponseItemsProofs ------------------------
(***************************************************************************)
(* Theorems about one streamed response, for any calls and any number of   *)
(* deltas.                                                                 *)
(*                                                                         *)
(* The stream is a log, and the properties join its events with FlattenSeq,*)
(* a recursive function.  An induction over the log is not needed: the     *)
(* invariant carries what was streamed of each item, and an event changes  *)
(* it by one Append.  That FlattenSeq of an Append is what it should be is *)
(* shown once, from the least length at which it is not.                   *)
(***************************************************************************)
EXTENDS ResponseItems, SequenceTheorems, WellFoundedInduction, TLAPS

-----------------------------------------------------------------------------
(* FlattenSeq *)

\* A nonempty set of numbers has a least one: what an induction over the length
\* of a sequence becomes, a look at its least counterexample.
LEMMA LeastNat ==
  ASSUME NEW T, T \subseteq Nat, T # {}
  PROVE  \E m \in T : \A k \in T : ~(k < m)
<1> DEFINE R == {ss \in Nat \X Nat : ss[1] < ss[2]}
<1>1. IsWellFoundedOn(R, Nat)
  BY NatLessThanWellFounded DEF OpToRel
<1> HIDE DEF R
<1>2. PICK m \in T : \A k \in T : ~(<<k, m>> \in R)
  BY <1>1, WFMin
<1>3. QED
  BY <1>2 DEF R

\* f is FlattenSeq's recursive function over the first k sequences.
Flattens(f, ss, k) ==
  f = [i \in 1 .. k |-> IF i = 1 THEN ss[i] ELSE f[i - 1] \o ss[i]]

\* Such a function satisfies its recursion.
LEMMA FlattensAt ==
  ASSUME NEW k \in Nat, NEW f, NEW ss, Flattens(f, ss, k), NEW i \in 1 .. k
  PROVE  f[i] = IF i = 1 THEN ss[i] ELSE f[i - 1] \o ss[i]
  <1> DEFINE F == [j \in 1 .. k |-> IF j = 1 THEN ss[j] ELSE f[j - 1] \o ss[j]]
  <1>1. f = F
    BY Zenon DEF Flattens
  <1>2. F[i] = IF i = 1 THEN ss[i] ELSE f[i - 1] \o ss[i]
    OBVIOUS
  <1> QED
    BY <1>1, <1>2, Zenon

\* Two such functions agree as far as both go.
LEMMA FlattensUnique ==
  ASSUME NEW ss, NEW j \in Nat, NEW k \in Nat, NEW f, NEW g,
         Flattens(f, ss, j), Flattens(g, ss, k), NEW i \in 1 .. j, i <= k
  PROVE  f[i] = g[i]
<1> DEFINE T == {m \in 1 .. j : m <= k /\ f[m] # g[m]}
<1>1. SUFFICES ASSUME T # {} PROVE FALSE
  OBVIOUS
<1>0. T \subseteq Nat
  OBVIOUS
<1> HIDE DEF T
<1>2. PICK m \in T : \A l \in T : ~(l < m)
  BY <1>0, <1>1, LeastNat, Zenon
<1>3. m \in 1 .. j /\ m \in 1 .. k /\ f[m] # g[m]
  BY <1>2 DEF T
<1>4. f[m] = IF m = 1 THEN ss[m] ELSE f[m - 1] \o ss[m]
  BY <1>3, FlattensAt
<1>5. g[m] = IF m = 1 THEN ss[m] ELSE g[m - 1] \o ss[m]
  BY <1>3, FlattensAt
<1>6. m # 1 => f[m - 1] = g[m - 1]
  BY <1>2, <1>3 DEF T
<1> QED
  BY <1>3, <1>4, <1>5, <1>6, Zenon

\* There is one for every length.
LEMMA FlattensExists ==
  ASSUME NEW ss, NEW k \in Nat
  PROVE  \E f : Flattens(f, ss, k)
<1> DEFINE T == {m \in Nat : ~(\E f : Flattens(f, ss, m))}
<1>1. SUFFICES ASSUME T # {} PROVE FALSE
  OBVIOUS
<1>2. PICK m \in T : \A l \in T : ~(l < m)
  BY <1>1, LeastNat
<1>3. m \in Nat /\ ~(\E f : Flattens(f, ss, m))
  OBVIOUS
<1>4. CASE m = 0
  <2>1. Flattens(<<>>, ss, m)
    BY <1>4 DEF Flattens
  <2> QED
    BY <1>3, <2>1
<1>5. CASE m # 0
  <2>0. m - 1 \in Nat /\ m - 1 < m
    BY <1>3, <1>5
  <2>1. m - 1 \notin T
    BY <1>2, <2>0
  <2>2. PICK f : Flattens(f, ss, m - 1)
    BY <2>0, <2>1
  <2> DEFINE g == [i \in 1 .. m |-> IF i < m THEN f[i]
                                    ELSE IF m = 1 THEN ss[m] ELSE f[m - 1] \o ss[m]]
             G == [i \in 1 .. m |-> IF i = 1 THEN ss[i] ELSE g[i - 1] \o ss[i]]
  <2>3. ASSUME NEW i \in 1 .. m PROVE g[i] = IF i = 1 THEN ss[i] ELSE g[i - 1] \o ss[i]
    <3>1. CASE i < m
      <4>1. i \in 1 .. m - 1
        BY <1>3, <3>1
      <4>2. g[i] = f[i] /\ (i # 1 => g[i - 1] = f[i - 1])
        BY <1>3, <4>1
      <4>3. f[i] = IF i = 1 THEN ss[i] ELSE f[i - 1] \o ss[i]
        BY <2>0, <2>2, <4>1, FlattensAt
      <4> HIDE DEF g
      <4> QED
        BY <4>2, <4>3, Zenon
    <3>2. CASE i = m
      <4>1. g[m] = IF m = 1 THEN ss[m] ELSE f[m - 1] \o ss[m]
        BY <3>2
      <4>2. m # 1 => g[m - 1] = f[m - 1]
        BY <1>3
      <4> HIDE DEF g
      <4> QED
        BY <3>2, <4>1, <4>2, Zenon
    <3> QED
      BY <1>3, <3>1, <3>2
  <2>4. g = [i \in 1 .. m |-> g[i]]
    OBVIOUS
  <2> HIDE DEF g
  <2>5. g = G
    BY <2>3, <2>4, Zenon
  <2>6. Flattens(g, ss, m)
    BY <2>5, Zenon DEF Flattens
  <2> QED
    BY <1>3, <2>6
<1> QED
  BY <1>4, <1>5

\* FlattenSeq is the last value of that function.
LEMMA FlattenSeqAt ==
  ASSUME NEW S, NEW ss \in Seq(S), ss # <<>>
  PROVE  \E f : Flattens(f, ss, Len(ss)) /\ FlattenSeq(ss) = f[Len(ss)]
<1> DEFINE f == CHOOSE h : Flattens(h, ss, Len(ss))
<1>1. Len(ss) # 0 /\ Len(ss) \in Nat
  OBVIOUS
<1>2. FlattenSeq(ss) = f[Len(ss)]
  BY <1>1, Zenon DEF FlattenSeq, Flattens
<1>3. \E h : Flattens(h, ss, Len(ss))
  BY <1>1, FlattensExists
<1>4. Flattens(f, ss, Len(ss))
  BY <1>3, Zenon
<1> QED
  BY <1>2, <1>4, Zenon

\* FlattenSeq joins one sequence after the other.
LEMMA FlattenEmpty == FlattenSeq(<<>>) = <<>>
  BY DEF FlattenSeq

\* Flattening one more sequence appends it.
LEMMA FlattenAppend ==
  ASSUME NEW S, NEW ss \in Seq(Seq(S)), NEW s \in Seq(S)
  PROVE  FlattenSeq(Append(ss, s)) = IF ss = <<>> THEN s ELSE FlattenSeq(ss) \o s
<1> DEFINE tt == Append(ss, s)
           k  == Len(ss)
<1>1. /\ k \in Nat /\ tt \in Seq(Seq(S)) /\ tt # <<>> /\ Len(tt) = k + 1
      /\ tt[k + 1] = s /\ \A i \in 1 .. k : tt[i] = ss[i]
  BY AppendProperties
<1> HIDE DEF tt
<1>2. PICK g : Flattens(g, tt, k + 1) /\ FlattenSeq(tt) = g[k + 1]
  BY <1>1, FlattenSeqAt
<1>3. g[k + 1] = IF k + 1 = 1 THEN tt[k + 1] ELSE g[k + 1 - 1] \o tt[k + 1]
  BY <1>1, <1>2, FlattensAt
<1>4. CASE ss = <<>>
  BY <1>1, <1>2, <1>3, <1>4 DEF tt
<1>5. CASE ss # <<>>
  <2>1. k # 0 /\ k \in 1 .. k
    BY <1>1, <1>5
  <2>2. PICK f : Flattens(f, ss, k) /\ FlattenSeq(ss) = f[k]
    BY <1>5, FlattenSeqAt
  <2>3. Flattens(f, tt, k)
    BY <1>1, <2>2 DEF Flattens
  <2>4. f[k] = g[k]
    <3> DEFINE m == k + 1
    <3>1. k \in Nat /\ m \in Nat /\ k <= m /\ k \in 1 .. k
      BY <1>1, <2>1
    <3>2. Flattens(f, tt, k) /\ Flattens(g, tt, m)
      BY <1>2, <2>3
    <3> HIDE DEF k, m
    <3> QED
      BY <3>1, <3>2, FlattensUnique
  <2>5. FlattenSeq(tt) = g[k] \o s
    BY <1>1, <1>2, <1>3, <2>1
  <2> QED
    BY <1>5, <2>2, <2>4, <2>5 DEF tt
<1> QED
  BY <1>4, <1>5

\* Flattened sequences over S are a sequence over S.
LEMMA FlattenType ==
  ASSUME NEW S, NEW ss \in Seq(Seq(S))
  PROVE  FlattenSeq(ss) \in Seq(S)
<1>1. CASE ss = <<>>
  <2>1. FlattenSeq(ss) = <<>>
    BY <1>1, FlattenEmpty, Zenon
  <2> QED
    BY <2>1
<1>2. CASE ss # <<>>
  <2> DEFINE k == Len(ss)
  <2>1. k \in Nat /\ k \in 1 .. k /\ \A i \in 1 .. k : ss[i] \in Seq(S)
    BY <1>2
  <2> HIDE DEF k
  <2>2. PICK f : Flattens(f, ss, k) /\ FlattenSeq(ss) = f[k]
    BY <1>2, FlattenSeqAt DEF k
  <2> DEFINE T == {m \in 1 .. k : f[m] \notin Seq(S)}
  <2>3. SUFFICES ASSUME T # {} PROVE FALSE
    BY <2>1, <2>2
  <2>0. T \subseteq Nat
    OBVIOUS
  <2> HIDE DEF T
  <2>4. PICK m \in T : \A l \in T : ~(l < m)
    BY <2>0, <2>3, LeastNat, Zenon
  <2>5. m \in 1 .. k /\ f[m] \notin Seq(S) /\ (m # 1 => f[m - 1] \in Seq(S))
    BY <2>1, <2>4 DEF T
  <2>6. f[m] = IF m = 1 THEN ss[m] ELSE f[m - 1] \o ss[m]
    BY <2>1, <2>2, <2>5, FlattensAt
  <2>7. ss[m] \in Seq(S)
    BY <2>1, <2>5
  <2> QED
    BY <2>5, <2>6, <2>7
<1> QED
  BY <1>1, <1>2
-----------------------------------------------------------------------------
(* The inductive invariant *)

\* Texts of at most m pieces, numbered up to m.
Upto(m) == {t \in Seq(0 .. m) : Len(t) <= m}

Fcs     == [id : Ids \union {Fresh}, call : Calls \union {NoCall}, custom : BOOLEAN]
Events  == [type : {"added", "delta", "done"}, id : Ids, idx : 0 .. MaxEvents, body : Bodies]
FcItems == [type : {"call"}, id : Ids, call : Calls, body : Bodies]

ScalarType ==
  /\ transport \in {"sse", "ws"} /\ style \in {"cumulative", "incremental"}
  /\ pc \in {"open", "completed", "failed", "broken", "left"} /\ n \in 0 .. MaxEvents

TextType ==
  /\ agg.args \in [Calls -> Upto(n)] /\ text \in Upto(n) /\ think \in Upto(n)

\* ToolAgg has of a call what was said of it, but where the guess may have been
\* wrong; it has the end of the arguments if and only if that was said.
Heard ==
  /\ said \in [Calls -> Seq(Pieces)]
  /\ CallsWhole
  /\ \A c \in Calls : IsWhole(agg.args[c]) <=> IsWhole(said[c])

Aggs == [order : Seq(Calls), args : [Calls -> Texts], named : SUBSET Calls,
         active : Calls \union {NoCall}]
AggType(g) == g \in Aggs /\ IsInjective(g.order)

Outs(m) == [kind : {"none", "reasoning", "message", "fc"}, idx : 0 .. m, fc : Fcs,
            fcItems : Seq(FcItems), wire : Seq(Events)]
OutType(o, m) ==
  /\ o \in Outs(m)
  /\ o.fc # NoFc => o.fc.id \in Ids /\ o.fc.call \in Calls
  /\ o.kind = "fc" => o.fc # NoFc

TypeInv ==
  /\ ScalarType /\ TextType /\ AggType(agg) /\ OutType(out, n)
  /\ \A i \in DOMAIN final : final[i].body \in Bodies

\* What the first k events of wire w stream of an item.
Joined(w, id, k) ==
  FlattenSeq([i \in 1 .. k |->
    IF w[i].type = "delta" /\ w[i].id = id THEN w[i].body.pieces ELSE <<>>])

Whole(w, id) == Joined(w, id, Len(w))

\* The last done event of an item reports this body.
LastDone(w, id, body) ==
  \E k \in DOMAIN w :
    /\ w[k].type = "done" /\ w[k].id = id /\ w[k].body = body
    /\ \A m \in DOMAIN w : w[m].type = "done" /\ w[m].id = id => m <= k

\* The call opened last is the last and the active one of ToolAgg.
CallsInTurn(o, g) ==
  /\ g.named = ToSet(g.order)
  /\ g.order = <<>> => o.fc = NoFc
  /\ g.order # <<>> => /\ o.fc.call = Last(g.order) /\ g.active = o.fc.call
                       /\ o.fc.custom = (o.fc.call \in Custom)
  /\ \A c \in Calls \ ToSet(g.order) : g.args[c] = <<>>

\* Every call but an open one has its item, in ToolAgg's order.
ItemsMatch(o, g) ==
  /\ Len(g.order) = Len(o.fcItems) + (IF o.kind = "fc" THEN 1 ELSE 0)
  /\ \A k \in DOMAIN o.fcItems :
       /\ o.fcItems[k].call = g.order[k]
       /\ o.fcItems[k].body = CallBody(g.args[g.order[k]], g.order[k] \in Custom)

\* Ids of calls are fresh when they are opened.
IdsFresh(o) ==
  /\ o.kind = "fc" => o.fc.id = FcId(o.idx)
  /\ \A k \in DOMAIN o.fcItems :
       \E j \in 1 .. o.idx : o.fcItems[k].id = FcId(j) /\ (o.kind = "fc" => j < o.idx)
  /\ \A j, k \in DOMAIN o.fcItems : o.fcItems[j].id = o.fcItems[k].id => j = k

\* What was streamed is what the aggregates hold.
AllStreamed(o, g, th, tx) ==
  /\ Whole(o.wire, RsId) = th /\ Whole(o.wire, MsgId) = tx
  /\ \A k \in DOMAIN o.fcItems : Whole(o.wire, o.fcItems[k].id) = g.args[o.fcItems[k].call]
  /\ o.kind = "fc" => Whole(o.wire, o.fc.id) = g.args[o.fc.call]
  /\ \A j \in (o.idx + 1) .. MaxEvents : Whole(o.wire, FcId(j)) = <<>>

DonesStreamed(w) ==
  \A k \in DOMAIN w : w[k].type = "done" => w[k].body.pieces = Joined(w, w[k].id, k)

\* What is not open was reported as it is.
Reported(o, th, tx) ==
  /\ th # <<>> /\ o.kind # "reasoning" => LastDone(o.wire, RsId, Plain(th))
  /\ tx # <<>> /\ o.kind # "message" => LastDone(o.wire, MsgId, Plain(tx))
  /\ \A k \in DOMAIN o.fcItems : LastDone(o.wire, o.fcItems[k].id, o.fcItems[k].body)

\* Every event is of an item the answer will have.
Named(o, th, tx, id) ==
  \/ id = RsId /\ th # <<>>
  \/ id = MsgId /\ tx # <<>>
  \/ \E j \in DOMAIN o.fcItems : id = o.fcItems[j].id
  \/ o.kind # "none" /\ id = OpenId(o)
AllNamed(o, th, tx) == \A k \in DOMAIN o.wire : Named(o, th, tx, o.wire[k].id)

Bracketed(w) ==
  \A i \in DOMAIN w :
    LET closed == i = 1 \/ w[i - 1].type = "done"
    IN  IF w[i].type = "added" THEN closed
        ELSE ~closed /\ w[i - 1].id = w[i].id /\ w[i - 1].idx = w[i].idx

\* The last event and the open item.
LastEvent(o) ==
  /\ o.kind = "none" => o.wire = <<>> \/ Last(o.wire).type = "done"
  /\ o.kind # "none" => /\ o.wire # <<>> /\ Last(o.wire).type # "done"
                        /\ Last(o.wire).id = OpenId(o) /\ Last(o.wire).idx = o.idx

Streaming(o, g, th, tx) ==
  /\ CallsInTurn(o, g) /\ ItemsMatch(o, g) /\ IdsFresh(o)
  /\ AllStreamed(o, g, th, tx) /\ DonesStreamed(o.wire) /\ Reported(o, th, tx)
  /\ AllNamed(o, th, tx) /\ Bracketed(o.wire) /\ LastEvent(o)

\* An item of text is opened for a piece of text.
Begun(o, th, tx) ==
  (o.kind = "reasoning" => th # <<>>) /\ (o.kind = "message" => tx # <<>>)

Ended ==
  /\ pc \in {"completed", "failed"} => out.kind = "none"
  /\ pc = "completed" => final = WithStreamedIds(OutputItems(agg), out.fcItems)

ItemsInv ==
  /\ TypeInv /\ Heard /\ Ended
  /\ Streaming(out, agg, think, text) /\ Begun(out, think, text)

-----------------------------------------------------------------------------
(* Streams: what an event adds *)

\* What the constants and the ids are.
LEMMA Constants ==
  /\ MaxEvents \in Nat /\ Pieces \subseteq Nat /\ Texts \subseteq Seq(Pieces) /\ <<>> \in Texts
  /\ NoCall \notin Calls /\ Custom \subseteq Calls
  /\ RsId \in Ids /\ MsgId \in Ids /\ RsId # MsgId /\ Fresh \notin Ids
  /\ \A k : FcId(k) # RsId /\ FcId(k) # MsgId
  /\ \A k \in 1 .. MaxEvents : FcId(k) \in Ids
  /\ \A j, k : FcId(j) = FcId(k) => j = k
  <1>1. MaxEvents \in Nat /\ Pieces \subseteq Nat
    BY BoundAssumption DEF Pieces
  <1>2. Texts \subseteq Seq(Pieces) /\ <<>> \in Texts
    BY <1>1 DEF Texts
  <1>3. NoCall \notin Calls /\ Custom \subseteq Calls
    BY CallsAssumption
  <1>4. /\ RsId \in Ids /\ MsgId \in Ids /\ RsId # MsgId /\ Fresh \notin Ids
        /\ \A k : FcId(k) # RsId /\ FcId(k) # MsgId
        /\ \A k \in 1 .. MaxEvents : FcId(k) \in Ids
        /\ \A j, k : FcId(j) = FcId(k) => j = k
    BY DEF RsId, MsgId, Ids, Fresh, FcId
  <1> QED
    BY <1>1, <1>2, <1>3, <1>4

\* The part an event has in what is streamed of an item.
Part(e, id) == IF e.type = "delta" /\ e.id = id THEN e.body.pieces ELSE <<>>

\* It is a sequence of pieces.
LEMMA PartType ==
  ASSUME NEW e \in Events, NEW id
  PROVE  Part(e, id) \in Seq(Pieces)
  BY Constants DEF Part, Events, Bodies

\* No events stream nothing.
LEMMA JoinedZero == \A w, id : Joined(w, id, 0) = <<>>
  <1> SUFFICES ASSUME NEW w, NEW id PROVE Joined(w, id, 0) = <<>>
    OBVIOUS
  <1> DEFINE p == [i \in 1 .. 0 |-> Part(w[i], id)]
  <1>1. p = <<>>
    OBVIOUS
  <1>2. Joined(w, id, 0) = FlattenSeq(p)
    BY Zenon DEF Joined, Part
  <1> QED
    BY <1>1, <1>2, FlattenEmpty, Zenon

\* One more event adds its part.
LEMMA JoinedStep ==
  ASSUME NEW w \in Seq(Events), NEW id, NEW k \in Nat, k < Len(w)
  PROVE  /\ Joined(w, id, k) \in Seq(Pieces)
         /\ Joined(w, id, k + 1) = Joined(w, id, k) \o Part(w[k + 1], id)
  <1> DEFINE p(j) == [i \in 1 .. j |-> Part(w[i], id)]
  <1>1. Joined(w, id, k) = FlattenSeq(p(k)) /\ Joined(w, id, k + 1) = FlattenSeq(p(k + 1))
    BY Zenon DEF Joined, Part
  <1>2. \A i \in 1 .. k + 1 : Part(w[i], id) \in Seq(Pieces)
    BY PartType
  <1>3. p(k) \in Seq(Seq(Pieces)) /\ Part(w[k + 1], id) \in Seq(Pieces)
    BY <1>2
  <1>4. p(k + 1) = Append(p(k), Part(w[k + 1], id))
    BY <1>3
  <1>5. p(k) = <<>> => Joined(w, id, k) = <<>>
    BY <1>1, FlattenEmpty, Zenon
  <1> HIDE DEF p
  <1>6. FlattenSeq(p(k)) \in Seq(Pieces)
    BY <1>3, FlattenType
  <1>7. FlattenSeq(Append(p(k), Part(w[k + 1], id))) =
          IF p(k) = <<>> THEN Part(w[k + 1], id) ELSE FlattenSeq(p(k)) \o Part(w[k + 1], id)
    BY <1>3, FlattenAppend
  <1>8. CASE p(k) = <<>>
    <2>1. Joined(w, id, k + 1) = Part(w[k + 1], id) /\ Joined(w, id, k) = <<>>
      BY <1>1, <1>4, <1>5, <1>7, <1>8, Zenon
    <2> QED
      BY <1>3, <2>1
  <1>9. CASE p(k) # <<>>
    BY <1>1, <1>4, <1>6, <1>7, <1>9, Zenon
  <1> QED
    BY <1>8, <1>9, Zenon

\* What was streamed does not change when another event follows.
LEMMA JoinedPrefix ==
  ASSUME NEW w \in Seq(Events), NEW e \in Events, NEW id, NEW k \in 0 .. Len(w)
  PROVE  Joined(Append(w, e), id, k) = Joined(w, id, k)
  <1> DEFINE v == Append(w, e)
             p(x) == [i \in 1 .. k |-> Part(x[i], id)]
  <1>1. \A i \in 1 .. k : v[i] = w[i]
    BY AppendProperties
  <1> HIDE DEF v
  <1>2. p(v) = p(w)
    BY <1>1
  <1>3. Joined(v, id, k) = FlattenSeq(p(v)) /\ Joined(w, id, k) = FlattenSeq(p(w))
    BY Zenon DEF Joined, Part
  <1> HIDE DEF p
  <1> QED
    BY <1>2, <1>3, Zenon DEF v

\* The whole stream of an item grows by the part of a new event.
LEMMA WholeAppend ==
  ASSUME NEW w \in Seq(Events), NEW e \in Events, NEW id
  PROVE  Whole(Append(w, e), id) = Whole(w, id) \o Part(e, id)
  <1> DEFINE v == Append(w, e)
             k == Len(w)
  <1>1. /\ v \in Seq(Events) /\ Len(v) = k + 1 /\ v[k + 1] = e /\ k \in Nat /\ k \in 0 .. k
        /\ k < Len(v)
    BY AppendProperties
  <1>2. Joined(v, id, k) = Joined(w, id, k)
    BY <1>1, JoinedPrefix
  <1> HIDE DEF v, k
  <1>3. Joined(v, id, k + 1) = Joined(v, id, k) \o Part(v[k + 1], id)
    BY <1>1, JoinedStep
  <1> QED
    BY <1>1, <1>2, <1>3, Zenon DEF Whole, v, k

\* What is streamed is a sequence of pieces.
LEMMA WholeType ==
  ASSUME NEW w \in Seq(Events), NEW id
  PROVE  Whole(w, id) \in Seq(Pieces)
  <1> DEFINE k == Len(w)
  <1>1. k \in Nat
    OBVIOUS
  <1>2. CASE k = 0
    <2>1. Whole(w, id) = <<>>
      BY <1>2, JoinedZero, Zenon DEF Whole
    <2> QED
      BY <2>1
  <1>3. CASE k # 0
    <2>1. k - 1 \in Nat /\ k - 1 < Len(w) /\ k - 1 + 1 = k /\ w[k] \in Events
      BY <1>1, <1>3
    <2>2. Joined(w, id, k - 1) \in Seq(Pieces)
      BY <2>1, JoinedStep
    <2>3. Joined(w, id, k - 1 + 1) = Joined(w, id, k - 1) \o Part(w[k - 1 + 1], id)
      BY <2>1, JoinedStep
    <2>4. Whole(w, id) = Joined(w, id, k - 1) \o Part(w[k], id)
      BY <2>1, <2>3 DEF Whole
    <2>5. Part(w[k], id) \in Seq(Pieces)
      BY <2>1, PartType
    <2> QED
      BY <2>2, <2>4, <2>5
  <1> QED
    BY <1>2, <1>3

-----------------------------------------------------------------------------
(* Types *)

\* A text fits into what it grows into, and into Texts while n is in its bound.
LEMMA UptoProperties ==
  ASSUME NEW m \in Nat, NEW t \in Upto(m)
  PROVE  /\ t \in Upto(m + 1) /\ t \in Seq(0 .. m) /\ Len(t) <= m
         /\ m <= MaxEvents => t \in Texts
         /\ \A p \in {0, m + 1} : t \o <<p>> \in Upto(m + 1) /\ Append(t, p) = t \o <<p>>
                                   /\ <<p>> \in Upto(m + 1)
  <1>1. t \in Seq(0 .. m) /\ Len(t) <= m
    BY DEF Upto
  <1>2. t \in Seq(0 .. m + 1)
    BY <1>1
  <1>3. t \in Upto(m + 1)
    BY <1>1, <1>2 DEF Upto
  <1>4. ASSUME m <= MaxEvents PROVE t \in Texts
    <2>1. t \in [1 .. Len(t) -> Pieces] /\ Len(t) \in 0 .. MaxEvents
      BY <1>1, <1>4, Constants DEF Pieces
    <2> QED
      BY <2>1, Zenon DEF Texts
  <1>5. ASSUME NEW p \in {0, m + 1}
        PROVE  t \o <<p>> \in Upto(m + 1) /\ Append(t, p) = t \o <<p>> /\ <<p>> \in Upto(m + 1)
    <2>1. p \in 0 .. m + 1 /\ <<p>> \in Seq(0 .. m + 1) /\ Len(<<p>>) = 1
      OBVIOUS
    <2>2. t \o <<p>> \in Seq(0 .. m + 1) /\ Len(t \o <<p>>) = Len(t) + 1
      BY <1>2, <2>1
    <2>3. Append(t, p) = t \o <<p>>
      BY <1>2, <2>1, AppendIsConcat
    <2> QED
      BY <1>1, <2>1, <2>2, <2>3 DEF Upto
  <1> QED
    BY <1>1, <1>3, <1>4, <1>5

\* Both kinds of bodies are bodies.
LEMMA BodyType ==
  ASSUME NEW t \in Texts, NEW custom
  PROVE  Plain(t) \in Bodies /\ CallBody(t, custom) \in Bodies
  BY DEF Plain, CallBody, Bodies, IsWhole

\* The open item has an id.
LEMMA OpenIdType ==
  ASSUME NEW m, NEW o, OutType(o, m), o.kind # "none"
  PROVE  OpenId(o) \in Ids
  BY Constants DEF OutType, Outs, OpenId

\* The open item has a body.
LEMMA OpenBodyType ==
  ASSUME NEW m, NEW o, OutType(o, m), NEW g \in Aggs, think \in Texts, text \in Texts,
         o.kind # "none"
  PROVE  OpenBody(o, g) \in Bodies
  <1>1. o.kind = "fc" => g.args[o.fc.call] \in Texts
    BY DEF OutType, Outs, Aggs
  <1>2. o.kind \in {"reasoning", "message", "fc"}
    BY DEF OutType, Outs
  <1> QED
    BY <1>1, <1>2, BodyType DEF OpenBody

\* What sending, closing and opening change.
OutRec(k, i, f, fs, w) == [kind |-> k, idx |-> i, fc |-> f, fcItems |-> fs, wire |-> w]

\* One component at a time: the provers do not take nested EXCEPTs apart.
LEMMA OutExcept ==
  ASSUME NEW m, NEW o \in Outs(m), NEW kind, NEW x, NEW fc
  PROVE  /\ [o EXCEPT !.wire = x] = OutRec(o.kind, o.idx, o.fc, o.fcItems, x)
         /\ [o EXCEPT !.kind = kind, !.idx = @ + 1, !.fc = fc]
              = OutRec(kind, o.idx + 1, fc, o.fcItems, o.wire)
  <1> DEFINE I == 0 .. m
             FS == Seq(FcItems)
             W == Seq(Events)
             K == {"none", "reasoning", "message", "fc"}
             a == [o EXCEPT !.kind = kind]
             b == [a EXCEPT !.idx = o.idx + 1]
  <1>1. o \in [kind : K, idx : I, fc : Fcs, fcItems : FS, wire : W]
    BY DEF Outs
  <1> HIDE DEF I, FS, W, K
  <1>2. a = OutRec(kind, o.idx, o.fc, o.fcItems, o.wire)
    BY <1>1 DEF OutRec
  <1>3. [o EXCEPT !.kind = kind, !.idx = o.idx + 1, !.fc = fc] = [b EXCEPT !.fc = fc]
    BY Zenon
  <1>4. [o EXCEPT !.kind = kind, !.idx = @ + 1, !.fc = fc]
          = [o EXCEPT !.kind = kind, !.idx = o.idx + 1, !.fc = fc]
    BY <1>1
  <1> HIDE DEF a
  <1>5. b = OutRec(kind, o.idx + 1, o.fc, o.fcItems, o.wire)
    BY <1>2 DEF OutRec
  <1> HIDE DEF b
  <1>6. [b EXCEPT !.fc = fc] = OutRec(kind, o.idx + 1, fc, o.fcItems, o.wire)
    BY <1>5 DEF OutRec
  <1>7. [o EXCEPT !.wire = x] = OutRec(o.kind, o.idx, o.fc, o.fcItems, x)
    BY <1>1 DEF OutRec
  <1> QED
    BY <1>3, <1>4, <1>6, <1>7, Zenon

\* Sending appends an event and leaves the open item alone.
LEMMA SentIs ==
  ASSUME NEW m, NEW o \in Outs(m), NEW e
  PROVE  /\ Sent(o, e) = OutRec(o.kind, o.idx, o.fc, o.fcItems, Append(o.wire, e))
         /\ OpenId(Sent(o, e)) = OpenId(o)
  <1>1. Sent(o, e) = OutRec(o.kind, o.idx, o.fc, o.fcItems, Append(o.wire, e))
    BY OutExcept, Zenon DEF Sent
  <1>2. Sent(o, e).kind = o.kind /\ Sent(o, e).fc = o.fc
    BY <1>1 DEF OutRec
  <1>3. OpenId(Sent(o, e)) = OpenId(o)
    BY <1>2, Zenon DEF OpenId
  <1> QED
    BY <1>1, <1>3, Zenon

\* Sending keeps the type.
LEMMA SentType ==
  ASSUME NEW m, NEW o, OutType(o, m), NEW e \in Events
  PROVE  OutType(Sent(o, e), m)
  <1>1. o \in Outs(m)
    BY DEF OutType
  <1>2. Append(o.wire, e) \in Seq(Events)
    BY <1>1 DEF Outs
  <1> DEFINE w == Append(o.wire, e)
  <1> HIDE DEF w
  <1>3. Sent(o, e) = OutRec(o.kind, o.idx, o.fc, o.fcItems, w)
    BY <1>1, SentIs DEF w
  <1>4. w \in Seq(Events)
    BY <1>2 DEF w
  <1>5. Sent(o, e) \in Outs(m)
    BY <1>1, <1>3, <1>4 DEF Outs, OutRec
  <1> QED
    BY <1>3, <1>5 DEF OutType, OutRec

ClosedItem(o, g) == Item("call", OpenId(o), o.fc.call, OpenBody(o, g))
ClosedItems(o, g) == IF o.kind = "fc" THEN Append(o.fcItems, ClosedItem(o, g)) ELSE o.fcItems
DoneEvent(o, g) == Event("done", OpenId(o), o, OpenBody(o, g))

\* Closing sends done, records a call and forgets what was open.
LEMMA CloseIs ==
  ASSUME NEW m, NEW o \in Outs(m), NEW g
  PROVE  /\ o.kind = "none" => Close(o, g) = o
         /\ o.kind # "none" =>
              Close(o, g) = OutRec("none", o.idx, o.fc, ClosedItems(o, g),
                                   Append(o.wire, DoneEvent(o, g)))
  <1>1. o.kind = "none" => Close(o, g) = o
    BY DEF Close
  <1>2. ASSUME o.kind # "none"
        PROVE  Close(o, g) = OutRec("none", o.idx, o.fc, ClosedItems(o, g),
                                    Append(o.wire, DoneEvent(o, g)))
    <2> DEFINE d == DoneEvent(o, g)
               w == Append(o.wire, d)
               i == ClosedItem(o, g)
               p == Sent(o, d)
               s == IF o.kind = "fc" THEN Append(p.fcItems, i) ELSE p.fcItems
    <2>1. d.id = OpenId(o) /\ d.body = OpenBody(o, g)
      BY DEF DoneEvent, Event
    <2>2. Close(o, g) = [p EXCEPT !.kind = "none", !.fcItems = s]
      BY <1>2, <2>1 DEF Close, DoneEvent, ClosedItem
    <2> HIDE DEF d, w, i
    <2>3. p = OutRec(o.kind, o.idx, o.fc, o.fcItems, w)
      BY SentIs DEF w
    <2>4. p.fcItems = o.fcItems
      BY <2>3 DEF OutRec
    <2>5. s = ClosedItems(o, g)
      BY <2>4, Zenon DEF ClosedItems, i
    <2> HIDE DEF p, s
    <2>6. [p EXCEPT !.kind = "none", !.fcItems = s] = OutRec("none", o.idx, o.fc, s, w)
      <3> DEFINE a == [p EXCEPT !.kind = "none"]
      <3>1. [p EXCEPT !.kind = "none", !.fcItems = s] = [a EXCEPT !.fcItems = s]
        BY Zenon
      <3>2. a = OutRec("none", o.idx, o.fc, o.fcItems, w)
        BY <2>3 DEF OutRec
      <3> HIDE DEF a
      <3>3. [a EXCEPT !.fcItems = s] = OutRec("none", o.idx, o.fc, s, w)
        BY <3>2 DEF OutRec
      <3> QED
        BY <3>1, <3>3, Zenon
    <2> QED
      BY <2>2, <2>5, <2>6, Zenon DEF w, d
  <1> QED
    BY <1>1, <1>2

\* An event made from typed parts is an event.
LEMMA EventType ==
  ASSUME NEW m \in 0 .. MaxEvents, NEW o \in Outs(m), NEW id \in Ids, NEW body \in Bodies,
         NEW type \in {"added", "delta", "done"}
  PROVE  Event(type, id, o, body) \in Events
  BY Constants DEF Event, Events, Outs

\* Closing keeps the type, the index and the call opened last.
LEMMA CloseType ==
  ASSUME NEW m \in 0 .. MaxEvents, NEW o, OutType(o, m), NEW g \in Aggs,
         think \in Texts, text \in Texts
  PROVE  OutType(Close(o, g), m) /\ Close(o, g).kind = "none"
         /\ Close(o, g).idx = o.idx /\ Close(o, g).fc = o.fc
  <1>1. o \in Outs(m)
    BY DEF OutType
  <1>2. CASE o.kind = "none"
    BY <1>1, <1>2, CloseIs
  <1>3. CASE o.kind # "none"
    <2>1. DoneEvent(o, g) \in Events
      BY <1>1, <1>3, OpenIdType, OpenBodyType, EventType DEF DoneEvent
    <2>2. Append(o.wire, DoneEvent(o, g)) \in Seq(Events)
      BY <1>1, <2>1 DEF Outs
    <2>3. o.kind = "fc" => ClosedItem(o, g) \in FcItems
      <3>1. OpenId(o) \in Ids /\ OpenBody(o, g) \in Bodies
        BY <1>3, OpenIdType, OpenBodyType
      <3>2. o.kind = "fc" => o.fc.call \in Calls
        BY DEF OutType
      <3> QED
        BY <3>1, <3>2 DEF ClosedItem, Item, FcItems
    <2>4. ClosedItems(o, g) \in Seq(FcItems)
      BY <1>1, <2>3 DEF ClosedItems, Outs
    <2> DEFINE d == DoneEvent(o, g)
               f == ClosedItems(o, g)
    <2> HIDE DEF d, f
    <2>5. Close(o, g) = OutRec("none", o.idx, o.fc, f, Append(o.wire, d))
      BY <1>1, <1>3, CloseIs DEF d, f
    <2>6. f \in Seq(FcItems) /\ Append(o.wire, d) \in Seq(Events)
      BY <2>2, <2>4 DEF d, f
    <2> QED
      BY <1>1, <2>5, <2>6 DEF OutType, Outs, OutRec
  <1> QED
    BY <1>2, <1>3

Opening(o, kind, fc) == [o EXCEPT !.kind = kind, !.idx = @ + 1, !.fc = fc]

\* The state in which the added event is made.
LEMMA OpeningIs ==
  ASSUME NEW m, NEW o \in Outs(m), NEW kind, NEW fc
  PROVE  Opening(o, kind, fc) = OutRec(kind, o.idx + 1, fc, o.fcItems, o.wire)
  BY OutExcept, Zenon DEF Opening

AddedEvent(p) == Event("added", OpenId(p), p, Plain(<<>>))

\* Opening names what is open, takes the next index and sends added.
LEMMA OpenIs ==
  ASSUME NEW m, NEW o \in Outs(m), NEW kind, NEW fc
  PROVE  /\ Open(o, kind, fc) = Sent(Opening(o, kind, fc), AddedEvent(Opening(o, kind, fc)))
         /\ Open(o, kind, fc) =
              OutRec(kind, o.idx + 1, fc, o.fcItems,
                     Append(o.wire, AddedEvent(Opening(o, kind, fc))))
  <1> DEFINE p == Opening(o, kind, fc)
             e == AddedEvent(p)
  <1>1. Open(o, kind, fc) = Sent(p, e)
    BY Zenon DEF Open, Opening, AddedEvent
  <1>2. p = OutRec(kind, o.idx + 1, fc, o.fcItems, o.wire)
    BY OpeningIs
  <1> HIDE DEF p, e
  <1>3. Sent(p, e) = [p EXCEPT !.wire = Append(p.wire, e)]
    BY DEF Sent
  <1>5. Sent(p, e) = OutRec(kind, o.idx + 1, fc, o.fcItems, Append(o.wire, e))
    BY <1>2, <1>3 DEF OutRec
  <1> QED
    BY <1>1, <1>5, Zenon DEF e, p

\* Opening keeps the type, one index further.
LEMMA OpenType ==
  ASSUME NEW m \in Nat, m + 1 <= MaxEvents, NEW o, OutType(o, m),
         NEW kind \in {"reasoning", "message", "fc"}, NEW fc \in Fcs,
         fc # NoFc => fc.id \in Ids /\ fc.call \in Calls,
         kind = "fc" => fc # NoFc
  PROVE  /\ OutType(Opening(o, kind, fc), m + 1) /\ OutType(Open(o, kind, fc), m + 1)
         /\ AddedEvent(Opening(o, kind, fc)) \in Events
  <1> DEFINE p == Opening(o, kind, fc)
             e == AddedEvent(p)
  <1>0. o \in Outs(m)
    BY DEF OutType
  <1>1. p = OutRec(kind, o.idx + 1, fc, o.fcItems, o.wire)
    BY <1>0, OpeningIs
  <1>2. o.idx + 1 \in 0 .. m + 1
    BY <1>0 DEF Outs
  <1> HIDE DEF p
  <1>3. OutType(p, m + 1) /\ p.kind # "none"
    <2>1. p \in Outs(m + 1)
      BY <1>0, <1>1, <1>2 DEF Outs, OutRec
    <2> QED
      BY <1>1, <2>1 DEF OutType, OutRec
  <1>4. e \in Events
    <2>1. m + 1 \in 0 .. MaxEvents /\ p \in Outs(m + 1) /\ OpenId(p) \in Ids
      BY <1>3, Constants, OpenIdType DEF OutType
    <2>2. Plain(<<>>) \in Bodies
      BY Constants, BodyType
    <2> QED
      BY <2>1, <2>2, EventType DEF AddedEvent
  <1>5. Open(o, kind, fc) = Sent(p, e)
    BY <1>0, OpenIs, Zenon DEF p
  <1> HIDE DEF e
  <1>6. OutType(Open(o, kind, fc), m + 1)
    BY <1>3, <1>4, <1>5, SentType
  <1> QED
    BY <1>3, <1>4, <1>6 DEF p, e

\* An index that fits still fits after one more delta.
LEMMA OutTypeUp ==
  ASSUME NEW m \in Nat, NEW o, OutType(o, m)
  PROVE  OutType(o, m + 1)
  <1>1. \A i \in 0 .. m : i \in 0 .. m + 1
    OBVIOUS
  <1>2. o \in Outs(m + 1)
    <2> DEFINE I == 0 .. m
               J == 0 .. m + 1
               FS == Seq(FcItems)
               W == Seq(Events)
               K == {"none", "reasoning", "message", "fc"}
    <2>1. o \in [kind : K, idx : I, fc : Fcs, fcItems : FS, wire : W] /\ \A i \in I : i \in J
      BY <1>1 DEF OutType, Outs
    <2> HIDE DEF I, J, FS, W, K
    <2>2. o \in [kind : K, idx : J, fc : Fcs, fcItems : FS, wire : W]
      BY <2>1
    <2> QED
      BY <2>2 DEF Outs, J, FS, W, K
  <1> QED
    BY <1>2 DEF OutType

\* Switching to a kind opens it.
LEMMA SwitchType ==
  ASSUME NEW m \in Nat, m + 1 <= MaxEvents, NEW o, OutType(o, m), agg \in Aggs,
         think \in Texts, text \in Texts, NEW kind \in {"reasoning", "message"}
  PROVE  OutType(SwitchTo(o, kind), m + 1) /\ SwitchTo(o, kind).kind = kind
  <1>1. CASE o.kind = kind
    BY <1>1, OutTypeUp DEF SwitchTo
  <1>2. CASE o.kind # kind
    <2> DEFINE q == Close(o, agg)
    <2>1. m \in 0 .. MaxEvents
      BY Constants
    <2>2. OutType(q, m) /\ q.fc = o.fc
      BY <2>1, CloseType
    <2>3. o.fc \in Fcs /\ (o.fc # NoFc => o.fc.id \in Ids /\ o.fc.call \in Calls)
      BY DEF OutType, Outs
    <2>4. SwitchTo(o, kind) = Open(q, kind, o.fc)
      BY <1>2 DEF SwitchTo
    <2> HIDE DEF q
    <2>5. OutType(Open(q, kind, o.fc), m + 1)
      BY <2>2, <2>3, OpenType
    <2>6. q \in Outs(m)
      BY <2>2 DEF OutType
    <2>7. Open(q, kind, o.fc).kind = kind
      BY <2>6, OpenIs DEF OutRec
    <2> QED
      BY <2>4, <2>5, <2>7
  <1> QED
    BY <1>1, <1>2

\* Sending a delta of the open item.
LEMMA DeltaType ==
  ASSUME NEW m \in 0 .. MaxEvents, NEW o, OutType(o, m), NEW id \in Ids, NEW p \in Texts
  PROVE  /\ Event("delta", id, o, Plain(p)) \in Events
         /\ OutType(Sent(o, Event("delta", id, o, Plain(p))), m)
  <1>1. o \in Outs(m) /\ Plain(p) \in Bodies
    BY BodyType DEF OutType
  <1>2. Event("delta", id, o, Plain(p)) \in Events
    BY <1>1, EventType
  <1> QED
    BY <1>2, SentType

-----------------------------------------------------------------------------
(* A tool-call frame *)

\* Whatever its style, a frame adds its piece to what was said.
LEMMA Grows ==
  ASSUME NEW m \in Nat, NEW old \in Upto(m), ~IsWhole(old),
         NEW p \in {<<>>, << 0 >>, <<m + 1>>}, NEW new,
         new = p \/ (p # <<>> /\ new = old \o p)
  PROVE  Grown(old, new) = old \o p /\ NewPart(old, new) = p
  <1>1. old \in Seq(Nat) /\ p \in Seq(Nat) /\ old \in Seq(0 .. m)
    <2>1. old \in Seq(0 .. m)
      BY DEF Upto
    <2>2. old \in Seq(Nat)
      BY <2>1
    <2>3. p \in Seq(Nat)
      <3>1. \A q \in Nat : <<q>> \in Seq(Nat)
        OBVIOUS
      <3>2. <<>> \in Seq(Nat) /\ << 0 >> \in Seq(Nat) /\ <<m + 1>> \in Seq(Nat)
        BY <3>1
      <3> QED
        BY <3>2
    <2> QED
      BY <2>1, <2>2, <2>3
  <1>2. CASE new = old \o p
    <2>1. SubSeq(old, 1, Len(old)) = old
      BY <1>1
    <2>2. SubSeq(old \o p, 1, Len(old)) = old
      BY <1>1
    <2>3. Len(old) <= Len(old \o p)
      BY <1>1
    <2>4. IsPrefix(old, new)
      BY <1>2, <2>1, <2>2, <2>3 DEF IsPrefix
    <2>5. SubSeq(old \o p, Len(old) + 1, Len(old \o p)) = p
      BY <1>1
    <2> QED
      BY <1>2, <2>4, <2>5 DEF Grown, NewPart
  <1>3. CASE new = p /\ ~IsPrefix(old, new)
    BY <1>3 DEF Grown, NewPart
  <1>4. CASE new = p /\ IsPrefix(old, new)
    <2>1. Len(old) <= Len(p) /\ SubSeq(old, 1, Len(old)) = SubSeq(p, 1, Len(old))
      BY <1>4 DEF IsPrefix
    <2>2. old = <<>>
      <3>1. SUFFICES ASSUME old # <<>> PROVE FALSE
        OBVIOUS
      <3>2. Len(old) = 1 /\ Len(p) = 1
        BY <1>1, <2>1, <3>1
      <3>3. SubSeq(old, 1, 1)[1] = old[1] /\ SubSeq(p, 1, 1)[1] = p[1]
        BY <1>1, <3>2
      <3>4. old[1] = p[1]
        BY <2>1, <3>2, <3>3
      <3>5. old[1] \in 0 .. m /\ p[1] \in {0, m + 1}
        BY <1>1, <3>2
      <3>6. old[1] = 0
        BY <3>4, <3>5
      <3> QED
        BY <3>1, <3>2, <3>6 DEF IsWhole, Last
    <2>3. old \o p = p
      BY <1>1, <2>2
    <2>4. SubSeq(p, 1, Len(p)) = p
      BY <1>1
    <2> QED
      BY <1>4, <2>2, <2>3, <2>4 DEF Grown, NewPart
  <1> QED
    BY <1>2, <1>3, <1>4

FrameAgg(c, name, d) ==
  [order |-> Ordered(agg.order, c), args |-> [agg.args EXCEPT ![c] = agg.args[c] \o d],
   named |-> IF name THEN agg.named \union {c} ELSE agg.named, active |-> c]
FrameFc(c, g) == [id |-> FcId(out.idx + 1), call |-> c, custom |-> c \in Custom /\ c \in g.named]

\* What is new to ToolAgg in a frame: at most one piece.
NewTo(c, d, piece) ==
  LET new == IF style = "cumulative" /\ piece # <<>> THEN said[c] \o piece ELSE piece
  IN  new = d \/ (d # <<>> /\ new = agg.args[c] \o d)

Takes(c, piece, d) == d = piece \/ (piece \in EchoPieces(c) /\ d = <<n + 1>>)

\* A frame carries one new piece at most, whatever else it repeats.
LEMMA NewPiece ==
  ASSUME TypeInv, Heard, NEW c \in Calls,
         NEW piece \in NewPieces(c) \union EchoPieces(c)
  PROVE  \E d \in {<<>>, << 0 >>, <<n + 1>>} : NewTo(c, d, piece) /\ Takes(c, piece, d)
  <1>1. CASE piece \in NewPieces(c)
    <2>1. piece \in {<<>>, << 0 >>, <<n + 1>>}
      BY <1>1 DEF NewPieces
    <2>2. style = "cumulative" => said[c] = agg.args[c]
      BY DEF Heard, CallsWhole, Echoed
    <2>3. NewTo(c, piece, piece)
      BY <2>2 DEF NewTo
    <2> QED
      BY <2>1, <2>3 DEF Takes
  <1>2. CASE piece \in EchoPieces(c)
    <2>1. style # "cumulative" /\ piece = agg.args[c] \o <<n + 1>>
      BY <1>2 DEF EchoPieces
    <2>2. <<n + 1>> # <<>>
      OBVIOUS
    <2>3. NewTo(c, <<n + 1>>, piece)
      BY <2>1, <2>2 DEF NewTo
    <2> QED
      BY <1>2, <2>3 DEF Takes
  <1> QED
    BY <1>1, <1>2

\* What a tool-call frame does, in either style and with or without an id.
FrameDoes(c, name, d) ==
  /\ d \in Upto(n + 1) /\ agg.args[c] \o d \in Upto(n + 1)
  /\ agg' = FrameAgg(c, name, d)
  /\ out' = ToolDelta(IF Opens(out, c, name /\ c \notin agg.named)
                      THEN Open(Close(out, agg'), "fc", FrameFc(c, agg')) ELSE out, d)

\* The rest of it.
LEMMA FrameStep ==
  ASSUME TypeInv, Heard, NEW c \in Calls, NEW id \in {c, NoCall}, NEW name \in BOOLEAN,
         NEW piece \in NewPieces(c) \union EchoPieces(c), Calling(c, id, name, piece)
  PROVE  /\ n \in Nat /\ n + 1 <= MaxEvents /\ n' = n + 1 /\ pc = "open"
         /\ UNCHANGED <<transport, style, final, pc, text, think>>
         /\ said' = [said EXCEPT ![c] = said[c] \o piece]
         /\ ~IsWhole(said[c]) /\ ~IsWhole(agg.args[c])
  <1>1. /\ n' = n + 1 /\ n < MaxEvents /\ pc = "open"
        /\ UNCHANGED <<transport, style, final, pc, text, think>>
        /\ said' = [said EXCEPT ![c] = said[c] \o piece] /\ ~IsWhole(said[c])
    BY Zenon DEF Calling, Arrives
  <1>2. n \in Nat /\ MaxEvents \in Nat
    BY Constants DEF TypeInv, ScalarType
  <1>3. ~IsWhole(agg.args[c])
    BY <1>1 DEF Heard
  <1> QED
    BY <1>1, <1>2, <1>3

\* Both styles come to the same.
LEMMA FrameIs ==
  ASSUME TypeInv, Heard, NEW c \in Calls, NEW id \in {c, NoCall}, NEW name \in BOOLEAN,
         NEW piece \in NewPieces(c) \union EchoPieces(c), Calling(c, id, name, piece)
  PROVE  \E d \in {<<>>, << 0 >>, <<n + 1>>} :
           FrameDoes(c, name, d) /\ Takes(c, piece, d)
  <1> DEFINE old == agg.args[c]
             tc == [id |-> id, name |-> name,
                    new |-> IF style = "cumulative" /\ piece # <<>> THEN said[c] \o piece ELSE piece]
             g == Feed(agg, tc)
  <1>1. /\ n \in Nat /\ agg.args \in [Calls -> Upto(n)] /\ c # NoCall /\ agg \in Aggs
        /\ MaxEvents \in Nat /\ n + 1 <= MaxEvents /\ ~IsWhole(old)
    BY FrameStep, Constants DEF TypeInv, ScalarType, TextType, AggType
  <1>2. (id = NoCall => agg.active = c) /\ agg' = g /\ out' = ForCall(out, g, tc, agg)
    BY Zenon DEF Calling
  <1>3. PICK d \in {<<>>, << 0 >>, <<n + 1>>} :
          NewTo(c, d, piece) /\ Takes(c, piece, d)
    BY NewPiece
  <1>4. tc.id = id /\ tc.name = name /\ (tc.new = d \/ (d # <<>> /\ tc.new = old \o d))
    BY <1>3 DEF NewTo
  <1> HIDE DEF tc
  <1>5. old \in Upto(n)
    BY <1>1
  <1> HIDE DEF old
  <1>6. d \in Upto(n + 1) /\ old \o d \in Upto(n + 1)
    <2>1. CASE d = <<>>
      <3>1. old \in Seq(0 .. n) /\ old \in Upto(n + 1)
        BY <1>1, <1>5, UptoProperties
      <3>2. old \o d = old
        BY <2>1, <3>1
      <3>3. <<>> \in Upto(n + 1)
        BY <1>1 DEF Upto
      <3> QED
        BY <2>1, <3>1, <3>2, <3>3
    <2>2. CASE d # <<>>
      <3>1. \A p \in {0, n + 1} : old \o <<p>> \in Upto(n + 1) /\ <<p>> \in Upto(n + 1)
        BY <1>1, <1>5, UptoProperties
      <3> QED
        BY <2>2, <3>1
    <2> QED
      BY <2>1, <2>2
  <1>7. Grown(old, tc.new) = old \o d /\ NewPart(old, tc.new) = d
    BY <1>1, <1>4, <1>5, Grows
  <1>8. CallOf(agg, tc) = c
    BY <1>1, <1>2, <1>4 DEF CallOf
  <1>9. g = FrameAgg(c, name, d)
    <2>1. g = [order |-> Ordered(agg.order, c), args |-> [agg.args EXCEPT ![c] = Grown(@, tc.new)],
               named |-> IF name THEN agg.named \union {c} ELSE agg.named, active |-> c]
      BY <1>4, <1>8, Zenon DEF Feed
    <2>2. [agg.args EXCEPT ![c] = Grown(@, tc.new)] = [agg.args EXCEPT ![c] = agg.args[c] \o d]
      BY <1>1, <1>7 DEF old
    <2> QED
      BY <2>1, <2>2, Zenon DEF FrameAgg
  <1>10. g.active = c
    BY <1>9 DEF FrameAgg
  <1> HIDE DEF g
  <1>11. CallOf(g, tc) = c
    BY <1>4, <1>10 DEF CallOf
  <1>12. ForCall(out, g, tc, agg) =
           ToolDelta(IF Opens(out, c, name /\ c \notin agg.named)
                     THEN Open(Close(out, g), "fc", FrameFc(c, g)) ELSE out, d)
    BY <1>4, <1>7, <1>11, Zenon DEF ForCall, FrameFc, old
  <1>13. FrameDoes(c, name, d)
    BY <1>2, <1>6, <1>9, <1>12, Zenon DEF FrameDoes, old
  <1> QED
    BY <1>3, <1>13

\* The two texts of a call after a frame, where neither was at its end.
LEMMA EndsTogether ==
  ASSUME NEW S, 0 \in S, NEW heard \in Seq(S), NEW x \in Seq(S), NEW d \in Seq(S), NEW piece \in Seq(S),
         d = <<>> <=> piece = <<>>, d # <<>> => Last(d) = Last(piece),
         ~IsWhole(heard), ~IsWhole(x)
  PROVE  IsWhole(heard \o d) <=> IsWhole(x \o piece)
  <1>1. CASE d = <<>>
    <2>1. heard \o d = heard /\ x \o piece = x
      BY <1>1
    <2> QED
      BY <2>1
  <1>2. CASE d # <<>>
    <2>1. Last(heard \o d) = Last(d) /\ heard \o d # <<>>
      BY <1>2 DEF Last
    <2>2. Last(x \o piece) = Last(piece) /\ x \o piece # <<>>
      BY <1>2 DEF Last
    <2> QED
      BY <1>2, <2>1, <2>2 DEF IsWhole
  <1> QED
    BY <1>1, <1>2

\* A text that is continued with all of itself has something twice.
LEMMA EchoRepeats ==
  ASSUME NEW S, NEW x \in Seq(S), NEW p \in S, IsInjective(x \o (x \o <<p>>))
  PROVE  x = <<>>
  <1> SUFFICES ASSUME x # <<>> PROVE FALSE
    OBVIOUS
  <1> DEFINE y == x \o (x \o <<p>>)
  <1>1. Len(x) \in Nat /\ Len(x) >= 1
    BY EmptySeq
  <1>2. 1 \in DOMAIN y /\ Len(x) + 1 \in DOMAIN y /\ y[1] = x[1] /\ y[Len(x) + 1] = x[1]
    BY <1>1
  <1>3. 1 # Len(x) + 1
    BY <1>1
  <1> QED
    BY <1>2, <1>3 DEF IsInjective

\* A text that says nothing twice did not when it was shorter.
LEMMA InjectivePrefix ==
  ASSUME NEW S, NEW x \in Seq(S), NEW y \in Seq(S), IsInjective(x \o y)
  PROVE  IsInjective(x)
  <1>1. \A i \in DOMAIN x : i \in DOMAIN (x \o y) /\ (x \o y)[i] = x[i]
    OBVIOUS
  <1> QED
    BY <1>1 DEF IsInjective

\* A sequence over a set is one over a larger set.
LEMMA SeqOver ==
  ASSUME NEW S, NEW T, S \subseteq T, NEW t \in Seq(S)
  PROVE  t \in Seq(T)
  <1>1. Len(t) \in Nat /\ DOMAIN t = 1 .. Len(t) /\ t = [i \in 1 .. Len(t) |-> t[i]]
    OBVIOUS
  <1>2. \A i \in 1 .. Len(t) : t[i] \in T
    OBVIOUS
  <1> QED
    BY <1>1, <1>2

\* ToolAgg keeps hearing right what it can hear right.
LEMMA FrameHeard ==
  ASSUME TypeInv, Heard, NEW c \in Calls, NEW name \in BOOLEAN, NEW id \in {c, NoCall},
         NEW piece \in NewPieces(c) \union EchoPieces(c), Calling(c, id, name, piece)
  PROVE  Heard'
  <1>1. PICK d \in {<<>>, << 0 >>, <<n + 1>>} :
          FrameDoes(c, name, d) /\ Takes(c, piece, d)
    BY FrameIs
  <1>2. /\ said' = [said EXCEPT ![c] = said[c] \o piece] /\ style' = style
        /\ n \in Nat /\ n + 1 <= MaxEvents /\ MaxEvents \in Nat
        /\ ~IsWhole(said[c]) /\ ~IsWhole(agg.args[c])
    BY FrameStep, Constants
  <1>3. /\ agg.args \in [Calls -> Upto(n)] /\ said \in [Calls -> Seq(Pieces)]
        /\ 0 \in Pieces /\ n + 1 \in Pieces
    BY <1>2 DEF TypeInv, TextType, Heard, Pieces
  <1>4. agg'.args = [agg.args EXCEPT ![c] = agg.args[c] \o d]
    BY <1>1 DEF FrameDoes, FrameAgg
  <1>5. /\ agg'.args[c] = agg.args[c] \o d /\ said'[c] = said[c] \o piece
        /\ \A u \in Calls \ {c} : agg'.args[u] = agg.args[u] /\ said'[u] = said[u]
    BY <1>2, <1>3, <1>4
  <1> DEFINE heard == agg.args[c]
             x == said[c]
  <1>6. heard \in Seq(Pieces) /\ x \in Seq(Pieces) /\ d \in Seq(Pieces)
    <2>1. heard \in Seq(0 .. n) /\ 0 .. n \subseteq Pieces
      BY <1>2, <1>3 DEF Upto, Pieces
    <2>2. <<>> \in Seq(Pieces) /\ << 0 >> \in Seq(Pieces) /\ <<n + 1>> \in Seq(Pieces)
      BY <1>3
    <2>3. heard \in Seq(Pieces)
      <3> DEFINE S == 0 .. n
      <3>1. heard \in Seq(S) /\ S \subseteq Pieces
        BY <2>1
      <3> HIDE DEF S, heard
      <3> QED
        BY <3>1, SeqOver
    <2>4. x \in Seq(Pieces)
      BY <1>3
    <2>5. d \in Seq(Pieces)
      BY <2>2, Zenon
    <2> QED
      BY <2>1, <2>3, <2>4, <2>5, Zenon
  <1>7. \/ piece = d
        \/ piece = heard \o d /\ d = <<n + 1>> /\ style = "incremental"
    BY <1>1 DEF Takes, EchoPieces
  <1>8. piece \in Seq(Pieces)
    <2> HIDE DEF heard
    <2>1. heard \o d \in Seq(Pieces)
      BY <1>6, ConcatProperties
    <2> QED
      BY <1>6, <1>7, <2>1, Zenon
  <1>9. IsWhole(agg'.args[c]) <=> IsWhole(said'[c])
    <2>1. (d = <<>> <=> piece = <<>>) /\ (d # <<>> => Last(d) = Last(piece))
      <3>1. CASE piece = d
        BY <3>1
      <3>2. CASE piece = heard \o d /\ d = <<n + 1>>
        <4> DEFINE p == n + 1
        <4>1. p \in Pieces /\ d = <<p>> /\ piece = heard \o d
          BY <1>3, <3>2
        <4> HIDE DEF p, heard
        <4> QED
          BY <1>6, <4>1 DEF Last
      <3> QED
        BY <1>7, <3>1, <3>2
    <2>2. IsWhole(heard \o d) <=> IsWhole(x \o piece)
      BY <1>2, <1>3, <1>6, <1>8, <2>1, EndsTogether
    <2> QED
      BY <1>5, <2>2
  <1>10. ~Echoed(c)' => agg'.args[c] = said'[c]
    <2> SUFFICES ASSUME style # "incremental" \/ IsInjective(x \o piece)
                 PROVE  heard \o d = x \o piece
      BY <1>2, <1>5 DEF Echoed
    <2>1. heard = x
      <3>1. style # "incremental" \/ IsInjective(x)
        BY <1>6, <1>8, InjectivePrefix
      <3> QED
        BY <3>1 DEF Heard, CallsWhole, Echoed
    <2>2. CASE piece = d
      BY <2>1, <2>2
    <2>3. CASE piece = heard \o d /\ d = <<n + 1>> /\ style = "incremental"
      <3>1. IsInjective(x \o (x \o <<n + 1>>))
        BY <2>1, <2>3
      <3>2. x = <<>>
        BY <1>3, <1>6, <3>1, EchoRepeats
      <3>3. heard \o d = d
        BY <1>6, <2>1, <3>2
      <3> QED
        BY <2>1, <2>3, <3>3
    <2> QED
      BY <1>7, <2>2, <2>3
  <1> HIDE DEF heard, x
  <1>11. said' \in [Calls -> Seq(Pieces)]
    BY <1>2, <1>3, <1>6, <1>8 DEF x
  <1>12. \A u \in Calls : ~Echoed(u)' => agg'.args[u] = said'[u]
    <2>1. ASSUME NEW u \in Calls \ {c}, ~Echoed(u)' PROVE agg'.args[u] = said'[u]
      BY <1>2, <1>5, <2>1 DEF Echoed, Heard, CallsWhole
    <2> QED
      BY <1>10, <2>1
  <1>13. \A u \in Calls : IsWhole(agg'.args[u]) <=> IsWhole(said'[u])
    BY <1>5, <1>9 DEF Heard
  <1> QED
    BY <1>11, <1>12, <1>13 DEF Heard, CallsWhole

\* A call keeps its place, or takes the next one.
LEMMA OrderedIs ==
  ASSUME NEW s \in Seq(Calls), IsInjective(s), NEW c \in Calls
  PROVE  /\ Ordered(s, c) \in Seq(Calls) /\ IsInjective(Ordered(s, c))
         /\ ToSet(Ordered(s, c)) = ToSet(s) \union {c}
         /\ Contains(s, c) <=> c \in ToSet(s)
  <1>1. DOMAIN s = 1 .. Len(s) /\ Len(s) \in Nat
    OBVIOUS
  <1>2. Contains(s, c) <=> c \in ToSet(s)
    BY <1>1 DEF Contains, ToSet
  <1>3. CASE Contains(s, c)
    BY <1>2, <1>3 DEF Ordered
  <1>4. CASE ~Contains(s, c)
    <2> DEFINE t == Append(s, c)
    <2>1. /\ t \in Seq(Calls) /\ DOMAIN t = 1 .. Len(s) + 1 /\ t[Len(s) + 1] = c
          /\ \A i \in 1 .. Len(s) : t[i] = s[i]
      OBVIOUS
    <2> HIDE DEF t
    <2>2. Ordered(s, c) = t
      BY <1>4 DEF Ordered, t
    <2>3. \A i \in 1 .. Len(s) : s[i] # c
      BY <1>4 DEF Contains
    <2>4. \A i, j \in 1 .. Len(s) : s[i] = s[j] => i = j
      BY <1>1 DEF IsInjective
    <2>5. ASSUME NEW i \in 1 .. Len(s) + 1, NEW j \in 1 .. Len(s) + 1, t[i] = t[j]
          PROVE  i = j
      <3>1. i \in 1 .. Len(s) \/ i = Len(s) + 1
        BY <1>1
      <3>2. j \in 1 .. Len(s) \/ j = Len(s) + 1
        BY <1>1
      <3> QED
        BY <2>1, <2>3, <2>4, <2>5, <3>1, <3>2
    <2>6. IsInjective(t)
      BY <2>1, <2>5 DEF IsInjective
    <2>7. ToSet(t) = ToSet(s) \union {c}
      <3>1. \A x \in ToSet(t) : x \in ToSet(s) \union {c}
        BY <1>1, <2>1 DEF ToSet
      <3>2. \A x \in ToSet(s) \union {c} : x \in ToSet(t)
        BY <1>1, <2>1 DEF ToSet
      <3> QED
        BY <3>1, <3>2
    <2> QED
      BY <1>2, <2>1, <2>2, <2>6, <2>7
  <1> QED
    BY <1>3, <1>4

-----------------------------------------------------------------------------
(* The answer, item by item *)

Lead == IF think = <<>> THEN 0 ELSE 1
Trail(g) == IF text = <<>> /\ g.order # <<>> THEN 0 ELSE 1
AnswerCall(g, k) ==
  Item("call", Fresh, g.order[k],
       CallBody(g.args[g.order[k]], g.order[k] \in Custom /\ g.order[k] \in g.named))
Reasoning(id) == Item("reasoning", id, NoCall, Plain(think))
Message(id) == Item("message", id, NoCall, Plain(text))

\* What output_items gives, from the reasoning to the message.
LEMMA AnswerShape ==
  ASSUME NEW g \in Aggs
  PROVE  LET items == OutputItems(g)
             k == Len(g.order)
         IN  /\ k \in Nat /\ DOMAIN items = 1 .. Lead + k + Trail(g) /\ 1 \in DOMAIN items
             /\ Lead = 1 => items[1] = Reasoning(Fresh)
             /\ \A i \in 1 .. k : items[Lead + i] = AnswerCall(g, i)
             /\ Trail(g) = 1 => items[Lead + k + 1] = Message(Fresh)
  <1> DEFINE k == Len(g.order)
             A == IF think = <<>> THEN <<>> ELSE <<Reasoning(Fresh)>>
             B == [i \in DOMAIN g.order |-> AnswerCall(g, i)]
             C == IF text = <<>> /\ g.order # <<>> THEN <<>> ELSE <<Message(Fresh)>>
             S == {Reasoning(Fresh), Message(Fresh)} \union {AnswerCall(g, i) : i \in 1 .. k}
  <1>1. g.order \in Seq(Calls)
    BY DEF Aggs
  <1>2. k \in Nat /\ DOMAIN g.order = 1 .. k /\ (k = 0 <=> g.order = <<>>)
    BY <1>1
  <1>3. OutputItems(g) = A \o B \o C
    BY Zenon DEF OutputItems, AnswerCall, Reasoning, Message
  <1>0. Reasoning(Fresh) \in S /\ Message(Fresh) \in S /\ \A i \in 1 .. k : AnswerCall(g, i) \in S
    OBVIOUS
  <1> HIDE DEF S, k
  <1>4. A \in Seq(S) /\ Len(A) = Lead /\ (Lead = 1 => A[1] = Reasoning(Fresh)) /\ Lead \in {0, 1}
    BY <1>0 DEF Lead
  <1>5. B \in Seq(S) /\ Len(B) = k /\ \A i \in 1 .. k : B[i] = AnswerCall(g, i)
    <2>1. B = [i \in 1 .. k |-> AnswerCall(g, i)]
      BY <1>2
    <2>2. B \in [1 .. k -> S]
      BY <1>0, <2>1
    <2>3. B \in Seq(S)
      BY <1>2, <2>2
    <2>4. Len(B) = k
      BY <1>2, <2>1
    <2> QED
      BY <2>1, <2>3, <2>4
  <1>6. C \in Seq(S) /\ Len(C) = Trail(g) /\ (Trail(g) = 1 => C[1] = Message(Fresh))
        /\ Trail(g) \in {0, 1}
    <2>1. CASE text = <<>> /\ g.order # <<>>
      BY <2>1 DEF Trail
    <2>2. CASE ~(text = <<>> /\ g.order # <<>>)
      <3>1. C = <<Message(Fresh)>> /\ Trail(g) = 1
        BY <2>2, Zenon DEF Trail
      <3> QED
        BY <1>0, <3>1
    <2> QED
      BY <2>1, <2>2
  <1>7. Lead + k + Trail(g) >= 1
    BY <1>2, <1>4, <1>6 DEF Trail
  <1> HIDE DEF A, B, C
  <1> DEFINE D == A \o B
  <1>8. D \in Seq(S) /\ Len(D) = Lead + k
        /\ (Lead = 1 => D[1] = Reasoning(Fresh))
        /\ \A i \in 1 .. k : D[Lead + i] = AnswerCall(g, i)
    BY <1>2, <1>4, <1>5
  <1> HIDE DEF D
  <1>9. D \o C \in Seq(S) /\ Len(D \o C) = Lead + k + Trail(g)
        /\ (Lead = 1 => (D \o C)[1] = Reasoning(Fresh))
        /\ (Trail(g) = 1 => (D \o C)[Lead + k + 1] = Message(Fresh))
    BY <1>2, <1>4, <1>6, <1>8
  <1>10. ASSUME NEW i \in 1 .. k PROVE (D \o C)[Lead + i] = AnswerCall(g, i)
    <2>1. Lead + i \in 1 .. Len(D)
      BY <1>2, <1>4, <1>8
    <2>2. (D \o C)[Lead + i] = D[Lead + i]
      BY <1>6, <1>8, <2>1
    <2> QED
      BY <1>8, <2>2
  <1>11. DOMAIN (D \o C) = 1 .. Lead + k + Trail(g) /\ 1 \in DOMAIN (D \o C)
    BY <1>2, <1>4, <1>6, <1>7, <1>9
  <1>12. OutputItems(g) = D \o C
    BY <1>3 DEF D
  <1> QED
    BY <1>2, <1>9, <1>10, <1>11, <1>12, Zenon DEF k

\* What the stream sends in its place.
LEMMA StreamedShape ==
  ASSUME NEW g \in Aggs, NEW items, items = OutputItems(g), NEW fs,
         NEW new, new = WithStreamedIds(items, fs)
  PROVE  LET k == Len(g.order)
         IN  /\ DOMAIN new = 1 .. Lead + k + Trail(g)
             /\ Lead = 1 => new[1] = Reasoning(RsId)
             /\ \A i \in 1 .. k : new[Lead + i] = IF i <= Len(fs) THEN fs[i] ELSE AnswerCall(g, i)
             /\ Trail(g) = 1 => new[Lead + k + 1] = Message(MsgId)
  <1> DEFINE k == Len(g.order)
  <1>1. /\ k \in Nat /\ DOMAIN items = 1 .. Lead + k + Trail(g) /\ 1 \in DOMAIN items
        /\ Lead = 1 => items[1] = Reasoning(Fresh)
        /\ \A i \in 1 .. k : items[Lead + i] = AnswerCall(g, i)
        /\ Trail(g) = 1 => items[Lead + k + 1] = Message(Fresh)
    BY AnswerShape
  <1>2. Lead \in {0, 1} /\ Trail(g) \in {0, 1}
    BY DEF Lead, Trail
  <1>3. (IF items[1].type = "reasoning" THEN 1 ELSE 0) = Lead
    <2>1. Lead = 1 => items[1].type = "reasoning"
      BY <1>1 DEF Reasoning, Item
    <2>2. ASSUME Lead = 0 PROVE items[1].type # "reasoning"
      <3>1. CASE k = 0
        <4>1. Trail(g) = 1
          BY <1>1, <1>2, <2>2, <3>1
        <4>2. items[1] = Message(Fresh)
          BY <1>1, <2>2, <3>1, <4>1
        <4> QED
          BY <4>2 DEF Message, Item
      <3>2. CASE k # 0
        <4>1. 1 \in 1 .. k
          BY <1>1, <3>2
        <4>2. items[Lead + 1] = AnswerCall(g, 1)
          BY <1>1, <4>1
        <4>3. items[1] = AnswerCall(g, 1)
          BY <2>2, <4>2
        <4> QED
          BY <4>3 DEF AnswerCall, Item
      <3> QED
        BY <3>1, <3>2
    <2> QED
      BY <1>2, <2>1, <2>2
  <1> DEFINE at(i) == CASE items[i].type = "reasoning" -> [items[i] EXCEPT !.id = RsId]
                        [] items[i].type = "message"   -> [items[i] EXCEPT !.id = MsgId]
                        [] OTHER -> IF i - Lead <= Len(fs) THEN fs[i - Lead] ELSE items[i]
  <1>4. new = [i \in DOMAIN items |-> at(i)]
    BY <1>3, Zenon DEF WithStreamedIds
  <1>5. DOMAIN new = DOMAIN items /\ \A i \in DOMAIN items : new[i] = at(i)
    BY <1>4, Zenon
  <1>6. ASSUME Lead = 1 PROVE new[1] = Reasoning(RsId)
    <2>1. items[1] = Reasoning(Fresh) /\ new[1] = at(1)
      BY <1>1, <1>5, <1>6
    <2>2. items[1].type = "reasoning"
      BY <2>1 DEF Reasoning, Item
    <2>3. at(1) = [items[1] EXCEPT !.id = RsId]
      BY <2>2
    <2> HIDE DEF at
    <2> QED
      BY <2>1, <2>3 DEF Reasoning, Item
  <1>7. ASSUME Trail(g) = 1 PROVE new[Lead + k + 1] = Message(MsgId)
    <2> DEFINE j == Lead + k + 1
    <2>1. j \in DOMAIN items
      BY <1>1, <1>2, <1>7
    <2>2. items[j] = Message(Fresh) /\ new[j] = at(j)
      BY <1>1, <1>5, <1>7, <2>1
    <2>3. items[j].type = "message"
      BY <2>2 DEF Message, Item
    <2> HIDE DEF j
    <2>4. at(j) = [items[j] EXCEPT !.id = MsgId]
      BY <2>3
    <2> HIDE DEF at
    <2> QED
      BY <2>2, <2>4 DEF Message, Item, j
  <1>8. ASSUME NEW i \in 1 .. k
        PROVE  new[Lead + i] = IF i <= Len(fs) THEN fs[i] ELSE AnswerCall(g, i)
    <2> DEFINE j == Lead + i
    <2>1. j \in DOMAIN items /\ j - Lead = i
      BY <1>1, <1>2
    <2>2. items[j] = AnswerCall(g, i) /\ new[j] = at(j)
      BY <1>1, <1>5, <2>1
    <2>3. items[j].type = "call"
      BY <2>2 DEF AnswerCall, Item
    <2> HIDE DEF j
    <2>4. at(j) = IF j - Lead <= Len(fs) THEN fs[j - Lead] ELSE items[j]
      BY <2>3
    <2> HIDE DEF at
    <2> QED
      BY <2>1, <2>2, <2>4 DEF j
  <1> QED
    BY <1>1, <1>5, <1>6, <1>7, <1>8, Zenon DEF k

-----------------------------------------------------------------------------
(* The type invariant *)

\* The type invariant, spelled out.
LEMMA TypedParts ==
  ASSUME TypeInv
  PROVE  /\ n \in Nat /\ n \in 0 .. MaxEvents /\ OutType(out, n) /\ agg \in Aggs
         /\ think \in Texts /\ text \in Texts /\ think \in Upto(n) /\ text \in Upto(n)
         /\ agg.args \in [Calls -> Upto(n)] /\ agg.args \in [Calls -> Texts]
  <1>1. n \in Nat /\ n \in 0 .. MaxEvents /\ n <= MaxEvents
    BY Constants DEF TypeInv, ScalarType
  <1>2. OutType(out, n) /\ agg \in Aggs
    BY DEF TypeInv, AggType
  <1>3. think \in Upto(n) /\ text \in Upto(n) /\ agg.args \in [Calls -> Upto(n)]
    BY DEF TypeInv, TextType
  <1>4. \A t \in Upto(n) : t \in Texts
    BY <1>1, UptoProperties
  <1> QED
    BY <1>1, <1>2, <1>3, <1>4

\* Init.
LEMMA InitTypes == Init => TypeInv /\ Heard
  <1> SUFFICES ASSUME Init PROVE TypeInv /\ Heard
    OBVIOUS
  <1>1. <<>> \in Upto(0) /\ <<>> \in Texts
    BY Constants DEF Upto
  <1>2. ScalarType
    BY Constants DEF Init, ScalarType
  <1>4. agg = [order |-> <<>>, args |-> said, named |-> {}, active |-> NoCall]
    BY DEF Init
  <1>3. TextType
    BY <1>1, <1>4 DEF Init, TextType
  <1>5. AggType(agg)
    <2>1. said \in [Calls -> Texts]
      BY <1>1 DEF Init
    <2>2. agg \in Aggs
      BY <1>4, <2>1 DEF Aggs
    <2>3. IsInjective(agg.order)
      BY <1>4 DEF IsInjective
    <2> QED
      BY <2>2, <2>3 DEF AggType
  <1>6. OutType(out, n)
    <2>1. out = [kind |-> "none", idx |-> 0, fc |-> NoFc, fcItems |-> <<>>, wire |-> <<>>] /\ n = 0
      BY DEF Init
    <2>2. NoFc \in Fcs
      BY DEF NoFc, Fcs
    <2>3. out \in Outs(n)
      BY <2>1, <2>2 DEF Outs
    <2> QED
      BY <2>1, <2>3 DEF OutType
  <1>7. final = <<>> /\ agg.args = said
    BY <1>4 DEF Init
  <1>8. Heard
    <2>1. said \in [Calls -> Seq(Pieces)]
      BY DEF Init
    <2> QED
      BY <1>7, <2>1 DEF Heard, CallsWhole
  <1> QED
    BY <1>2, <1>3, <1>5, <1>6, <1>7, <1>8 DEF TypeInv

\* A piece fits into the texts of the next state.
LEMMA TextsGrow ==
  ASSUME TypeInv, n' = n + 1, n + 1 <= MaxEvents
  PROVE  /\ n' \in 0 .. MaxEvents /\ think \in Upto(n') /\ text \in Upto(n')
         /\ agg.args \in [Calls -> Upto(n')]
         /\ <<n'>> \in Texts /\ Append(think, n') \in Upto(n') /\ Append(text, n') \in Upto(n')
         /\ Append(think, n') = think \o <<n'>> /\ Append(text, n') = text \o <<n'>>
  <1>1. n \in Nat /\ n' \in Nat /\ MaxEvents \in Nat /\ n' <= MaxEvents
    BY TypedParts, Constants
  <1>2. \A t \in Upto(n) : t \in Upto(n + 1) /\ Append(t, n + 1) \in Upto(n + 1) /\ <<n + 1>> \in Upto(n + 1)
                           /\ Append(t, n + 1) = t \o <<n + 1>>
    BY <1>1, UptoProperties
  <1>3. think \in Upto(n) /\ text \in Upto(n) /\ agg.args \in [Calls -> Upto(n)]
    BY TypedParts
  <1>4. <<n + 1>> \in Upto(n + 1)
    BY <1>2, <1>3
  <1>5. <<n + 1>> \in Texts
    BY <1>1, <1>4, UptoProperties
  <1> QED
    BY <1>1, <1>2, <1>3, <1>5

\* A thinking delta.
LEMMA ThinksType == ASSUME TypeInv, Heard, Thinks PROVE TypeInv' /\ Heard'
  <1> DEFINE o == SwitchTo(out, "reasoning")
  <1>1. /\ n' = n + 1 /\ n < MaxEvents /\ think' = Append(think, n')
        /\ UNCHANGED <<transport, style, final, pc, said, agg, text>>
        /\ out' = Sent(o, Event("delta", RsId, o, Plain(<<n'>>)))
    BY Zenon DEF Thinks, Arrives
  <1>2. n \in Nat /\ n + 1 <= MaxEvents
    BY <1>1, TypedParts, Constants
  <1>3. OutType(o, n + 1)
    BY <1>2, TypedParts, SwitchType
  <1> HIDE DEF o
  <1>4. n + 1 \in 0 .. MaxEvents /\ <<n'>> \in Texts
    BY <1>1, <1>2, TextsGrow
  <1>5. OutType(out', n')
    BY <1>1, <1>3, <1>4, DeltaType, Constants
  <1>6. TextType'
    BY <1>1, <1>2, TextsGrow DEF TextType
  <1>7. ScalarType'
    BY <1>1, <1>2, TextsGrow DEF TypeInv, ScalarType
  <1>8. AggType(agg') /\ (\A i \in DOMAIN final' : final'[i].body \in Bodies)
    BY <1>1 DEF TypeInv
  <1>9. Heard'
    BY <1>1 DEF Heard, CallsWhole, Echoed
  <1> QED
    BY <1>1, <1>5, <1>6, <1>7, <1>8, <1>9 DEF TypeInv

\* A text delta.
LEMMA SaysType == ASSUME TypeInv, Heard, Says PROVE TypeInv' /\ Heard'
  <1> DEFINE o == SwitchTo(out, "message")
  <1>1. /\ n' = n + 1 /\ n < MaxEvents /\ text' = Append(text, n')
        /\ UNCHANGED <<transport, style, final, pc, said, agg, think>>
        /\ out' = Sent(o, Event("delta", MsgId, o, Plain(<<n'>>)))
    BY Zenon DEF Says, Arrives
  <1>2. n \in Nat /\ n + 1 <= MaxEvents
    BY <1>1, TypedParts, Constants
  <1>3. OutType(o, n + 1)
    BY <1>2, TypedParts, SwitchType
  <1> HIDE DEF o
  <1>4. n + 1 \in 0 .. MaxEvents /\ <<n'>> \in Texts
    BY <1>1, <1>2, TextsGrow
  <1>5. OutType(out', n')
    BY <1>1, <1>3, <1>4, DeltaType, Constants
  <1>6. TextType'
    BY <1>1, <1>2, TextsGrow DEF TextType
  <1>7. ScalarType'
    BY <1>1, <1>2, TextsGrow DEF TypeInv, ScalarType
  <1>8. AggType(agg') /\ (\A i \in DOMAIN final' : final'[i].body \in Bodies)
    BY <1>1 DEF TypeInv
  <1>9. Heard'
    BY <1>1 DEF Heard, CallsWhole, Echoed
  <1> QED
    BY <1>1, <1>5, <1>6, <1>7, <1>8, <1>9 DEF TypeInv

\* ToolAgg after a frame.
LEMMA FrameAggType ==
  ASSUME TypeInv, NEW c \in Calls, NEW name \in BOOLEAN, NEW d, agg.args[c] \o d \in Texts
  PROVE  AggType(FrameAgg(c, name, d))
  <1> DEFINE g == FrameAgg(c, name, d)
             x == [agg.args EXCEPT ![c] = agg.args[c] \o d]
             s == Ordered(agg.order, c)
             N == IF name THEN agg.named \union {c} ELSE agg.named
  <1>1. agg.order \in Seq(Calls) /\ IsInjective(agg.order) /\ agg.named \subseteq Calls
    BY DEF TypeInv, AggType, Aggs
  <1>2. s \in Seq(Calls) /\ IsInjective(s)
    BY <1>1, OrderedIs
  <1>3. N \subseteq Calls
    BY <1>1
  <1>4. g = [order |-> s, args |-> x, named |-> N, active |-> c]
    BY Zenon DEF FrameAgg
  <1>0. x \in [Calls -> Texts]
    BY TypedParts
  <1> HIDE DEF g, s, N, x
  <1>5. g \in Aggs
    BY <1>0, <1>2, <1>3, <1>4 DEF Aggs
  <1> QED
    BY <1>2, <1>4, <1>5 DEF AggType, g

\* The stream after a frame.
LEMMA FrameOutType ==
  ASSUME TypeInv, n + 1 <= MaxEvents, NEW c \in Calls, NEW g \in Aggs, NEW b,
         NEW p \in Texts
  PROVE  OutType(ToolDelta(IF b THEN Open(Close(out, g), "fc", FrameFc(c, g)) ELSE out, p), n + 1)
  <1> DEFINE q == Close(out, g)
             fc == FrameFc(c, g)
             o == IF b THEN Open(q, "fc", fc) ELSE out
  <1>1. /\ n \in Nat /\ n \in 0 .. MaxEvents /\ n + 1 \in 0 .. MaxEvents
        /\ OutType(out, n) /\ think \in Texts /\ text \in Texts
    BY TypedParts, Constants
  <1>2. OutType(q, n)
    BY <1>1, CloseType
  <1>3. fc \in Fcs /\ fc # NoFc /\ fc.id \in Ids /\ fc.call \in Calls
    <2>0. out.idx \in 0 .. n
      BY <1>1 DEF OutType, Outs
    <2>1. out.idx + 1 \in 1 .. MaxEvents
      BY <1>1, <2>0, Constants
    <2>2. FcId(out.idx + 1) \in Ids
      BY <2>1, Constants
    <2> DEFINE k == c \in Custom /\ c \in g.named
               i == FcId(out.idx + 1)
    <2>3. k \in BOOLEAN
      OBVIOUS
    <2>4. fc = [id |-> i, call |-> c, custom |-> k]
      BY Zenon DEF FrameFc
    <2> HIDE DEF k, fc, i
    <2>5. fc.id = i /\ fc.call = c /\ fc \in Fcs
      BY <2>2, <2>3, <2>4 DEF Fcs, i
    <2>6. fc # NoFc
      BY <2>5, Constants DEF NoFc
    <2> QED
      BY <2>2, <2>5, <2>6 DEF i
  <1> HIDE DEF q, fc
  <1>4. OutType(o, n + 1)
    <2>1. OutType(Open(q, "fc", fc), n + 1)
      BY <1>1, <1>2, <1>3, OpenType
    <2>2. OutType(out, n + 1)
      BY <1>1, OutTypeUp
    <2> QED
      BY <2>1, <2>2
  <1> HIDE DEF o
  <1>5. OutType(ToolDelta(o, p), n + 1)
    <2>1. CASE p = <<>> \/ o.fc = NoFc
      BY <1>4, <2>1 DEF ToolDelta
    <2>2. CASE ~(p = <<>> \/ o.fc = NoFc)
      <3>1. o.fc.id \in Ids
        BY <1>4, <2>2 DEF OutType
      <3>2. ToolDelta(o, p) = Sent(o, Event("delta", o.fc.id, o, Plain(p)))
        BY <2>2, Zenon DEF ToolDelta
      <3> QED
        BY <1>1, <1>4, <3>1, <3>2, DeltaType
    <2> QED
      BY <2>1, <2>2
  <1> QED
    BY <1>5, Zenon DEF o, q, fc

\* A tool-call frame.
LEMMA FrameType ==
  ASSUME TypeInv, Heard, NEW c \in Calls, NEW id \in {c, NoCall}, NEW name \in BOOLEAN,
         NEW piece \in NewPieces(c) \union EchoPieces(c), Calling(c, id, name, piece)
  PROVE  TypeInv' /\ Heard'
  <1>0. PICK d \in {<<>>, << 0 >>, <<n + 1>>} : FrameDoes(c, name, d)
    BY FrameIs
  <1>1. /\ n \in Nat /\ n + 1 <= MaxEvents /\ n' = n + 1
        /\ UNCHANGED <<transport, style, final, pc, text, think>>
    BY FrameStep
  <1>2. /\ d \in Upto(n + 1) /\ agg.args[c] \o d \in Upto(n + 1)
        /\ agg' = FrameAgg(c, name, d)
    BY <1>0 DEF FrameDoes
  <1>3. out' = ToolDelta(IF Opens(out, c, name /\ c \notin agg.named)
                         THEN Open(Close(out, agg'), "fc", FrameFc(c, agg')) ELSE out, d)
    BY <1>0 DEF FrameDoes
  <1>4. /\ agg.args \in [Calls -> Upto(n')] /\ think' \in Upto(n') /\ text' \in Upto(n')
        /\ n' \in 0 .. MaxEvents
    BY <1>1, TextsGrow
  <1>5. agg.args[c] \o d \in Texts /\ d \in Texts
    <2>1. n + 1 \in Nat
      BY <1>1
    <2>2. \A t \in Upto(n + 1) : t \in Texts
      BY <1>1, <2>1, UptoProperties
    <2> QED
      BY <1>2, <2>2
  <1>6. AggType(agg')
    BY <1>2, <1>5, FrameAggType
  <1>7. OutType(out', n')
    <2>1. agg' \in Aggs
      BY <1>6 DEF AggType
    <2> DEFINE b == Opens(out, c, name /\ c \notin agg.named)
               h == agg'
    <2>2. out' = ToolDelta(IF b THEN Open(Close(out, h), "fc", FrameFc(c, h)) ELSE out, d)
      BY <1>3
    <2> HIDE DEF b, h
    <2>3. OutType(ToolDelta(IF b THEN Open(Close(out, h), "fc", FrameFc(c, h)) ELSE out, d), n + 1)
      BY <1>1, <1>5, <2>1, FrameOutType DEF h
    <2> QED
      BY <1>1, <2>2, <2>3, Zenon
  <1>8. ScalarType'
    BY <1>1, <1>4 DEF TypeInv, ScalarType
  <1>9. TextType'
    <2> DEFINE x == [agg.args EXCEPT ![c] = agg.args[c] \o d]
    <2>1. agg'.args = x
      BY <1>2 DEF FrameAgg
    <2>2. x \in [Calls -> Upto(n')]
      BY <1>1, <1>2, <1>4
    <2> HIDE DEF x
    <2> QED
      BY <1>4, <2>1, <2>2 DEF TextType
  <1>10. \A i \in DOMAIN final' : final'[i].body \in Bodies
    BY <1>1 DEF TypeInv
  <1>11. Heard'
    BY FrameHeard
  <1> QED
    BY <1>6, <1>7, <1>8, <1>9, <1>10, <1>11 DEF TypeInv

\* The end of the answer.
LEMMA CompletesType == ASSUME TypeInv, Heard, Completes PROVE TypeInv' /\ Heard'
  <1> DEFINE o == Close(out, agg)
  <1>1. /\ out' = o /\ final' = WithStreamedIds(OutputItems(agg), o.fcItems) /\ pc' = "completed"
        /\ UNCHANGED <<transport, style, said, agg, text, think, n>>
    BY Zenon DEF Completes
  <1>2. OutType(o, n)
    BY TypedParts, CloseType
  <1> HIDE DEF o
  <1>3. ASSUME NEW i \in DOMAIN final' PROVE final'[i].body \in Bodies
    <2> DEFINE k == Len(agg.order)
               fs == o.fcItems
               items == OutputItems(agg)
               new == WithStreamedIds(items, fs)
    <2>0. agg \in Aggs /\ think \in Texts /\ text \in Texts
      BY TypedParts
    <2>1. k \in Nat
      BY <2>0, AnswerShape
    <2>2. /\ DOMAIN new = 1 .. Lead + k + Trail(agg)
          /\ Lead = 1 => new[1] = Reasoning(RsId)
          /\ \A j \in 1 .. k : new[Lead + j] = IF j <= Len(fs) THEN fs[j] ELSE AnswerCall(agg, j)
          /\ Trail(agg) = 1 => new[Lead + k + 1] = Message(MsgId)
      BY <2>0, StreamedShape
    <2>3. Lead \in {0, 1} /\ Trail(agg) \in {0, 1}
      BY DEF Lead, Trail
    <2>4. new = final' /\ i \in DOMAIN new
      BY <1>1
    <2>5. Reasoning(RsId).body \in Bodies /\ Message(MsgId).body \in Bodies
      BY <2>0, BodyType DEF Reasoning, Message, Item
    <2>6. \A j \in 1 .. k : AnswerCall(agg, j).body \in Bodies
      <3>1. \A j \in 1 .. k : agg.args[agg.order[j]] \in Texts
        BY <2>0 DEF Aggs
      <3> QED
        BY <3>1, BodyType DEF AnswerCall, Item
    <2>7. fs \in Seq(FcItems)
      BY <1>2 DEF OutType, Outs
    <2> HIDE DEF k, fs, items, new
    <2>8. \A j \in 1 .. k : j <= Len(fs) => fs[j].body \in Bodies
      <3>1. \A x \in FcItems : x.body \in Bodies
        BY DEF FcItems
      <3>2. \A j \in 1 .. k : j <= Len(fs) => fs[j] \in FcItems
        BY <2>1, <2>7
      <3> QED
        BY <3>1, <3>2
    <2>9. (i = 1 /\ Lead = 1) \/ (i = Lead + k + 1 /\ Trail(agg) = 1) \/ i - Lead \in 1 .. k
      <3>1. i \in 1 .. Lead + k + Trail(agg)
        BY <2>2, <2>4
      <3> QED
        BY <2>1, <2>3, <3>1
    <2>10. CASE i = 1 /\ Lead = 1
      BY <2>2, <2>4, <2>5, <2>10
    <2>11. CASE i = Lead + k + 1 /\ Trail(agg) = 1
      BY <2>2, <2>4, <2>5, <2>11
    <2>12. CASE i - Lead \in 1 .. k
      <3>1. Lead + (i - Lead) = i
        BY <2>2, <2>3, <2>4
      <3>2. new[i] = IF i - Lead <= Len(fs) THEN fs[i - Lead] ELSE AnswerCall(agg, i - Lead)
        BY <2>2, <2>12, <3>1
      <3> QED
        BY <2>4, <2>6, <2>8, <2>12, <3>2
    <2> QED
      BY <2>9, <2>10, <2>11, <2>12
  <1>4. ScalarType'
    BY <1>1 DEF TypeInv, ScalarType
  <1>5. TextType' /\ AggType(agg') /\ OutType(out', n')
    BY <1>1, <1>2 DEF TypeInv, TextType
  <1>6. Heard'
    BY <1>1 DEF Heard, CallsWhole, Echoed
  <1> QED
    BY <1>3, <1>4, <1>5, <1>6 DEF TypeInv

\* The other ends of a response.
LEMMA EndsType ==
  ASSUME TypeInv, Heard, Fails \/ Raises \/ ClientLeaves
  PROVE  TypeInv' /\ Heard'
  <1>1. /\ UNCHANGED <<transport, style, said, agg, text, think, final, n>>
        /\ pc' \in {"failed", "broken", "left"} /\ (out' = out \/ out' = Close(out, agg))
    BY DEF Fails, Raises, ClientLeaves
  <1>2. OutType(out', n)
    BY <1>1, TypedParts, CloseType
  <1>3. ScalarType'
    BY <1>1 DEF TypeInv, ScalarType
  <1>4. TextType' /\ AggType(agg') /\ OutType(out', n')
    BY <1>1, <1>2 DEF TypeInv, TextType
  <1>5. \A i \in DOMAIN final' : final'[i].body \in Bodies
    BY <1>1 DEF TypeInv
  <1>6. Heard'
    BY <1>1 DEF Heard, CallsWhole, Echoed
  <1> QED
    BY <1>3, <1>4, <1>5, <1>6 DEF TypeInv

\* Every step.
LEMMA NextTypes == TypeInv /\ Heard /\ [Next]_vars => TypeInv' /\ Heard'
  <1> SUFFICES ASSUME TypeInv, Heard, [Next]_vars PROVE TypeInv' /\ Heard'
    OBVIOUS
  <1>1. CASE Thinks
    BY <1>1, ThinksType
  <1>2. CASE Says
    BY <1>2, SaysType
  <1>3. CASE ToolFrame
    <2>1. PICK c \in Calls, name \in BOOLEAN :
            \E id \in {c, NoCall} :
              \E piece \in NewPieces(c) \union EchoPieces(c) :
                Calling(c, id, name, piece)
      BY <1>3, Zenon DEF ToolFrame
    <2>2. PICK id \in {c, NoCall} :
            \E piece \in NewPieces(c) \union EchoPieces(c) :
              Calling(c, id, name, piece)
      BY <2>1, Zenon
    <2>3. PICK piece \in NewPieces(c) \union EchoPieces(c) :
            Calling(c, id, name, piece)
      BY <2>2, Zenon
    <2> QED
      BY <2>3, FrameType
  <1>4. CASE Completes
    BY <1>4, CompletesType
  <1>5. CASE Fails \/ Raises \/ ClientLeaves
    BY <1>5, EndsType
  <1>6. CASE UNCHANGED vars
    <2>1. UNCHANGED <<transport, style, said, agg, text, think, out, final, pc, n>>
      BY <1>6 DEF vars
    <2>2. ScalarType' /\ TextType' /\ Heard'
      BY <2>1 DEF TypeInv, ScalarType, TextType, Heard, CallsWhole, Echoed
    <2> QED
      BY <2>1, <2>2 DEF TypeInv
  <1> QED
    BY <1>1, <1>2, <1>3, <1>4, <1>5, <1>6 DEF Next

\* The invariant gives the type invariant of the model.
LEMMA TypeInvImplies == TypeInv /\ Heard => TypeOK
  <1> SUFFICES ASSUME TypeInv, Heard PROVE TypeOK
    OBVIOUS
  <1>1. /\ transport \in {"sse", "ws"} /\ style \in {"cumulative", "incremental"}
        /\ pc \in {"open", "completed", "failed", "broken", "left"} /\ n \in 0 .. MaxEvents
    BY DEF TypeInv, ScalarType
  <1>2. said \in [Calls -> Seq(Pieces)] /\ text \in Texts /\ think \in Texts
    BY TypedParts DEF Heard
  <1>3. agg.args \in [Calls -> Texts] /\ agg.named \subseteq Calls /\ agg.active \in Calls \union {NoCall}
        /\ IsInjective(agg.order) /\ agg.order \in Seq(Calls)
    BY DEF TypeInv, AggType, Aggs
  <1>4. ToSet(agg.order) \subseteq Calls
    BY <1>3 DEF ToSet
  <1>5. out.kind \in {"none", "reasoning", "message", "fc"} /\ out.wire \in Seq(Events)
        /\ out.idx \in 0 .. n
    BY DEF TypeInv, OutType, Outs
  <1>6. out.idx \in 0 .. MaxEvents
    BY <1>1, <1>5, Constants
  <1>7. \A i \in DOMAIN out.wire : out.wire[i] \in Events
    BY <1>5
  <1>8. \A i \in DOMAIN out.wire :
          /\ out.wire[i].type \in {"added", "delta", "done"}
          /\ out.wire[i].id \in Ids /\ out.wire[i].body \in Bodies
    BY <1>7 DEF Events
  <1>9. \A i \in DOMAIN final : final[i].body \in Bodies
    BY DEF TypeInv
  <1> QED
    BY <1>1, <1>2, <1>3, <1>4, <1>5, <1>6, <1>8, <1>9 DEF TypeOK

\* Every variable keeps its type, whatever the upstream interleaves.
THEOREM ItemsTypeOK == Spec => []TypeOK
  <1>1. Init => TypeInv /\ Heard
    BY InitTypes
  <1>2. TypeInv /\ Heard /\ [Next]_vars => TypeInv' /\ Heard'
    BY NextTypes
  <1>3. TypeInv /\ Heard => TypeOK
    BY TypeInvImplies
  <1> QED
    BY <1>1, <1>2, <1>3, PTL DEF Spec

\* ToolAgg puts together what the upstream said of a call, for both styles of
\* frames, any order of calls and late names, unless the upstream continued the
\* call with what it had said already: then the guess of ToolAgg.feed is wrong.
THEOREM ItemsCallsWhole == Spec => []CallsWhole
  <1>1. Init => TypeInv /\ Heard
    BY InitTypes
  <1>2. TypeInv /\ Heard /\ [Next]_vars => TypeInv' /\ Heard'
    BY NextTypes
  <1>3. Heard => CallsWhole
    BY DEF Heard
  <1> QED
    BY <1>1, <1>2, <1>3, PTL DEF Spec

-----------------------------------------------------------------------------
(* What one more event does to the wire *)

\* One more event.
LEMMA WireAppend ==
  ASSUME NEW w \in Seq(Events), NEW e \in Events
  PROVE  /\ Append(w, e) \in Seq(Events) /\ DOMAIN Append(w, e) = 1 .. Len(w) + 1
         /\ DOMAIN w = 1 .. Len(w) /\ Len(w) \in Nat /\ Len(Append(w, e)) = Len(w) + 1
         /\ Append(w, e)[Len(w) + 1] = e /\ Last(Append(w, e)) = e
         /\ \A i \in 1 .. Len(w) : Append(w, e)[i] = w[i]
         /\ Append(w, e) # <<>> /\ (w = <<>> <=> Len(w) = 0)
  BY AppendProperties DEF Last

\* An event that is no delta of the item leaves its stream alone.
LEMMA QuietAppend ==
  ASSUME NEW w \in Seq(Events), NEW e \in Events, NEW id, e.type # "delta" \/ e.id # id
  PROVE  Whole(Append(w, e), id) = Whole(w, id)
  <1>1. Whole(w, id) \in Seq(Pieces)
    BY WholeType
  <1>2. Part(e, id) = <<>>
    BY DEF Part
  <1>3. Whole(Append(w, e), id) = Whole(w, id) \o Part(e, id)
    BY WholeAppend
  <1> QED
    BY <1>1, <1>2, <1>3

\* A done event that reports the stream of its item.
LEMMA DonesAppend ==
  ASSUME NEW w \in Seq(Events), NEW e \in Events, DonesStreamed(w),
         e.type = "done" => e.body.pieces = Whole(w, e.id)
  PROVE  DonesStreamed(Append(w, e))
  <1> DEFINE v == Append(w, e)
             l == Len(w)
  <1>1. /\ v \in Seq(Events) /\ DOMAIN v = 1 .. l + 1 /\ DOMAIN w = 1 .. l /\ l \in Nat
        /\ Len(v) = l + 1 /\ v[l + 1] = e /\ \A i \in 1 .. l : v[i] = w[i]
    BY WireAppend
  <1>2. ASSUME NEW k \in 1 .. l, NEW id PROVE Joined(v, id, k) = Joined(w, id, k)
    <2>1. k \in 0 .. Len(w)
      BY <1>1
    <2> QED
      BY <2>1, JoinedPrefix
  <1>3. ASSUME e.type = "done" PROVE e.body.pieces = Joined(v, e.id, l + 1)
    <2>1. Whole(v, e.id) = Whole(w, e.id)
      BY <1>3, QuietAppend
    <2> QED
      BY <1>1, <1>3, <2>1 DEF Whole
  <1> HIDE DEF v, l
  <1>4. ASSUME NEW k \in DOMAIN v, v[k].type = "done"
        PROVE  v[k].body.pieces = Joined(v, v[k].id, k)
    <2>1. CASE k \in 1 .. l
      <3>1. v[k] = w[k] /\ k \in DOMAIN w
        BY <1>1, <2>1
      <3>2. w[k].body.pieces = Joined(w, w[k].id, k)
        BY <1>4, <3>1 DEF DonesStreamed
      <3> QED
        BY <1>2, <2>1, <3>1, <3>2
    <2>2. CASE k = l + 1
      BY <1>1, <1>3, <1>4, <2>2
    <2> QED
      BY <1>1, <2>1, <2>2
  <1> QED
    BY <1>4, Zenon DEF DonesStreamed, v

\* An event in its place.
LEMMA BracketAppend ==
  ASSUME NEW w \in Seq(Events), NEW e \in Events, Bracketed(w),
         IF e.type = "added" THEN w = <<>> \/ Last(w).type = "done"
         ELSE w # <<>> /\ Last(w).type # "done" /\ Last(w).id = e.id /\ Last(w).idx = e.idx
  PROVE  Bracketed(Append(w, e))
  <1> DEFINE v == Append(w, e)
             l == Len(w)
  <1>1. /\ v \in Seq(Events) /\ DOMAIN v = 1 .. l + 1 /\ DOMAIN w = 1 .. l /\ l \in Nat
        /\ v[l + 1] = e /\ (\A i \in 1 .. l : v[i] = w[i]) /\ (w = <<>> <=> l = 0)
        /\ Last(w) = w[l]
    BY WireAppend DEF Last
  <1> HIDE DEF v, l
  <1> DEFINE ok(x, i) == LET closed == i = 1 \/ x[i - 1].type = "done"
                         IN  IF x[i].type = "added" THEN closed
                             ELSE ~closed /\ x[i - 1].id = x[i].id /\ x[i - 1].idx = x[i].idx
  <1>2. ASSUME NEW i \in DOMAIN v PROVE ok(v, i)
    <2>1. CASE i \in 1 .. l
      <3>1. ok(w, i)
        BY <1>1, <2>1 DEF Bracketed
      <3>2. v[i] = w[i] /\ (i # 1 => v[i - 1] = w[i - 1])
        BY <1>1, <2>1
      <3> QED
        BY <3>1, <3>2
    <2>2. CASE i = l + 1
      <3>1. v[i] = e
        BY <1>1, <2>2
      <3>2. CASE l = 0
        BY <1>1, <2>2, <3>1, <3>2
      <3>3. CASE l # 0
        <4>1. v[i - 1] = Last(w) /\ i # 1 /\ w # <<>>
          BY <1>1, <2>2, <3>3
        <4> QED
          BY <3>1, <4>1
      <3> QED
        BY <3>2, <3>3
    <2> QED
      BY <1>1, <2>1, <2>2
  <1> QED
    BY <1>2, Zenon DEF Bracketed, v

\* The last done of an item stays until another one.
LEMMA LastDoneKept ==
  ASSUME NEW w \in Seq(Events), NEW e \in Events, NEW id, NEW body, LastDone(w, id, body),
         e.type # "done" \/ e.id # id
  PROVE  LastDone(Append(w, e), id, body)
  <1> DEFINE v == Append(w, e)
             l == Len(w)
  <1>1. /\ DOMAIN v = 1 .. l + 1 /\ DOMAIN w = 1 .. l /\ l \in Nat
        /\ v[l + 1] = e /\ (\A i \in 1 .. l : v[i] = w[i])
    BY WireAppend
  <1> HIDE DEF v, l
  <1>2. PICK k \in DOMAIN w :
          /\ w[k].type = "done" /\ w[k].id = id /\ w[k].body = body
          /\ \A m \in DOMAIN w : w[m].type = "done" /\ w[m].id = id => m <= k
    BY Zenon DEF LastDone
  <1>3. k \in DOMAIN v /\ v[k] = w[k]
    BY <1>1, <1>2
  <1>4. ASSUME NEW m \in DOMAIN v, v[m].type = "done", v[m].id = id PROVE m <= k
    BY <1>1, <1>2, <1>4
  <1> QED
    BY <1>2, <1>3, <1>4, Zenon DEF LastDone, v

\* A done event is the last of its item.
LEMMA LastDoneNew ==
  ASSUME NEW w \in Seq(Events), NEW e \in Events, e.type = "done"
  PROVE  LastDone(Append(w, e), e.id, e.body)
  <1> DEFINE v == Append(w, e)
             l == Len(w)
  <1>1. DOMAIN v = 1 .. l + 1 /\ l \in Nat /\ v[l + 1] = e
    BY WireAppend
  <1> HIDE DEF v, l
  <1>2. l + 1 \in DOMAIN v /\ \A m \in DOMAIN v : m <= l + 1
    BY <1>1
  <1> QED
    BY <1>1, <1>2, Zenon DEF LastDone, v

-----------------------------------------------------------------------------
(* Closing the open item *)

\* The parts of a typed stream.
LEMMA OutParts ==
  ASSUME NEW m \in 0 .. MaxEvents, NEW o, OutType(o, m)
  PROVE  /\ o \in Outs(m) /\ o.wire \in Seq(Events) /\ o.fcItems \in Seq(FcItems)
         /\ o.idx \in Nat /\ o.idx <= m /\ o.idx <= MaxEvents /\ m \in Nat
         /\ o.kind \in {"none", "reasoning", "message", "fc"}
         /\ DOMAIN o.fcItems = 1 .. Len(o.fcItems) /\ Len(o.fcItems) \in Nat
         /\ \A k \in DOMAIN o.fcItems : o.fcItems[k] \in FcItems
         /\ \A k \in DOMAIN o.wire : o.wire[k] \in Events
  <1>1. MaxEvents \in Nat
    BY Constants
  <1>2. o \in Outs(m)
    BY DEF OutType
  <1> QED
    BY <1>1, <1>2 DEF Outs

\* The id of the open item, by its kind.
LEMMA OpenIdIs ==
  ASSUME NEW o
  PROVE  /\ o.kind = "reasoning" => OpenId(o) = RsId
         /\ o.kind = "message" => OpenId(o) = MsgId
         /\ o.kind = "fc" => OpenId(o) = o.fc.id
  BY DEF OpenId

\* The body of the open item, by its kind.
LEMMA OpenBodyIs ==
  ASSUME NEW o, NEW g
  PROVE  /\ o.kind = "reasoning" => OpenBody(o, g) = Plain(think)
         /\ o.kind = "message" => OpenBody(o, g) = Plain(text)
         /\ o.kind = "fc" => OpenBody(o, g) = CallBody(g.args[o.fc.call], o.fc.custom)
         /\ \A t, custom : Plain(t).pieces = t /\ CallBody(t, custom).pieces = t
  BY DEF OpenBody, Plain, CallBody

\* Every event so far stays named, and so is one more.
LEMMA NamedAppend ==
  ASSUME NEW o, o.wire \in Seq(Events), NEW th, NEW tx, AllNamed(o, th, tx),
         NEW e \in Events, NEW q, q.wire = Append(o.wire, e), NEW th2, NEW tx2,
         \A id : Named(o, th, tx, id) => Named(q, th2, tx2, id),
         Named(q, th2, tx2, e.id)
  PROVE  AllNamed(q, th2, tx2)
  <1> DEFINE w == o.wire
             v == Append(w, e)
             l == Len(w)
  <1>1. /\ DOMAIN v = 1 .. l + 1 /\ DOMAIN w = 1 .. l /\ l \in Nat
        /\ v[l + 1] = e /\ (\A i \in 1 .. l : v[i] = w[i])
    BY WireAppend
  <1>2. \A k \in DOMAIN w : Named(o, th, tx, w[k].id)
    BY Zenon DEF AllNamed
  <1>3. q.wire = v
    OBVIOUS
  <1> HIDE DEF v, w, l
  <1>4. \A k \in DOMAIN v : k \in DOMAIN w \/ k = l + 1
    BY <1>1
  <1>5. ASSUME NEW k \in DOMAIN v PROVE Named(q, th2, tx2, v[k].id)
    <2>1. CASE k \in DOMAIN w
      BY <1>1, <1>2, <2>1, Zenon
    <2>2. CASE k = l + 1
      BY <1>1, <2>2, Zenon
    <2> QED
      BY <1>4, <2>1, <2>2
  <1> QED
    BY <1>3, <1>5, Zenon DEF AllNamed

\* close_open: the done event reports what was streamed, a call finds its item.
LEMMA CloseStreaming ==
  ASSUME NEW m \in 0 .. MaxEvents, NEW o, OutType(o, m), NEW g, AggType(g),
         think \in Texts, text \in Texts,
         Streaming(o, g, think, text), Begun(o, think, text)
  PROVE  Streaming(Close(o, g), g, think, text)
  <1> DEFINE q == Close(o, g)
             e == DoneEvent(o, g)
             i == ClosedItem(o, g)
             fs == o.fcItems
             gs == ClosedItems(o, g)
             w == o.wire
             v == Append(w, e)
  <1>1. /\ o \in Outs(m) /\ w \in Seq(Events) /\ fs \in Seq(FcItems) /\ o.idx \in Nat
        /\ o.idx <= MaxEvents /\ g \in Aggs /\ DOMAIN fs = 1 .. Len(fs) /\ Len(fs) \in Nat
        /\ o.kind \in {"none", "reasoning", "message", "fc"}
    BY OutParts DEF AggType
  <1>2. CASE o.kind = "none"
    BY <1>1, <1>2, CloseIs
  <1>3. CASE o.kind # "none"
    <2>1. q = OutRec("none", o.idx, o.fc, gs, v)
      BY <1>1, <1>3, CloseIs
    <2>2. /\ q.kind = "none" /\ q.idx = o.idx /\ q.fc = o.fc /\ q.fcItems = gs /\ q.wire = v
      BY <2>1 DEF OutRec
    <2>3. /\ e \in Events /\ e.type = "done" /\ e.id = OpenId(o) /\ e.idx = o.idx
          /\ e.body = OpenBody(o, g)
      <3>1. OpenId(o) \in Ids /\ OpenBody(o, g) \in Bodies
        BY <1>1, <1>3, OpenIdType, OpenBodyType
      <3>2. e \in Events
        BY <1>1, <3>1, EventType DEF DoneEvent
      <3> QED
        BY <3>2 DEF DoneEvent, Event
    <2>4. i.call = o.fc.call /\ i.id = OpenId(o) /\ i.body = OpenBody(o, g)
      BY DEF ClosedItem, Item
    <2>5. /\ o.kind # "fc" => gs = fs
          /\ o.kind = "fc" => /\ Len(gs) = Len(fs) + 1 /\ DOMAIN gs = 1 .. Len(fs) + 1
                              /\ gs[Len(fs) + 1] = i
          /\ \A k \in 1 .. Len(fs) : gs[k] = fs[k]
      BY <1>1 DEF ClosedItems
    <2>6. \A k \in DOMAIN gs : k \in 1 .. Len(fs) \/ (o.kind = "fc" /\ k = Len(fs) + 1)
      BY <1>1, <2>5
    <2> HIDE DEF q, e, i, gs, v
    <2>7. \A id : Whole(v, id) = Whole(w, id)
      BY <1>1, <2>3, QuietAppend DEF v
    <2>8. e.body.pieces = Whole(w, e.id)
      <3>1. AllStreamed(o, g, think, text)
        BY DEF Streaming
      <3>2. CASE o.kind = "reasoning"
        BY <2>3, <3>1, <3>2, OpenIdIs, OpenBodyIs DEF AllStreamed
      <3>3. CASE o.kind = "message"
        BY <2>3, <3>1, <3>3, OpenIdIs, OpenBodyIs DEF AllStreamed
      <3>4. CASE o.kind = "fc"
        BY <2>3, <3>1, <3>4, OpenIdIs, OpenBodyIs DEF AllStreamed
      <3> QED
        BY <1>1, <1>3, <3>2, <3>3, <3>4
    <2>9. CallsInTurn(q, g)
      BY <2>2 DEF Streaming, CallsInTurn
    <2>10. ItemsMatch(q, g)
      <3>1. /\ Len(g.order) = Len(fs) + (IF o.kind = "fc" THEN 1 ELSE 0)
            /\ \A k \in DOMAIN fs : /\ fs[k].call = g.order[k]
                                    /\ fs[k].body = CallBody(g.args[g.order[k]], g.order[k] \in Custom)
        BY DEF Streaming, ItemsMatch
      <3>2. Len(g.order) = Len(gs)
        <4>1. CASE o.kind = "fc"
          BY <2>5, <3>1, <4>1
        <4>2. CASE o.kind # "fc"
          BY <1>1, <2>5, <3>1, <4>2
        <4> QED
          BY <4>1, <4>2
      <3>3. ASSUME o.kind = "fc"
            PROVE  /\ i.call = g.order[Len(fs) + 1]
                   /\ i.body = CallBody(g.args[g.order[Len(fs) + 1]], g.order[Len(fs) + 1] \in Custom)
        <4>1. Len(g.order) = Len(fs) + 1 /\ g.order # <<>>
          BY <1>1, <3>1, <3>3 DEF Aggs
        <4>2. o.fc.call = Last(g.order) /\ o.fc.custom = (o.fc.call \in Custom)
          BY <4>1 DEF Streaming, CallsInTurn
        <4>3. o.fc.call = g.order[Len(fs) + 1]
          BY <4>1, <4>2 DEF Last
        <4>4. i.body = CallBody(g.args[o.fc.call], o.fc.custom)
          BY <2>4, <3>3, OpenBodyIs, Zenon
        <4>5. i.body = CallBody(g.args[o.fc.call], o.fc.call \in Custom)
          BY <4>2, <4>4 DEF CallBody
        <4> QED
          BY <2>4, <4>3, <4>5, Zenon
      <3>4. ASSUME NEW k \in DOMAIN gs
            PROVE  /\ gs[k].call = g.order[k]
                   /\ gs[k].body = CallBody(g.args[g.order[k]], g.order[k] \in Custom)
        <4>1. CASE k \in 1 .. Len(fs)
          <5>1. k \in DOMAIN fs /\ gs[k] = fs[k]
            BY <1>1, <2>5, <4>1
          <5> QED
            BY <3>1, <5>1, Zenon
        <4>2. CASE o.kind = "fc" /\ k = Len(fs) + 1
          BY <2>5, <3>3, <4>2, Zenon
        <4> QED
          BY <2>6, <4>1, <4>2
      <3>5. Len(g.order) = Len(q.fcItems) + (IF q.kind = "fc" THEN 1 ELSE 0)
        <4>1. Len(g.order) \in Nat
          BY <1>1 DEF Aggs
        <4>2. q.fcItems = gs /\ q.kind # "fc"
          BY <2>2
        <4> QED
          BY <3>2, <4>1, <4>2
      <3> QED
        BY <2>2, <3>4, <3>5, Zenon DEF ItemsMatch
    <2>11. IdsFresh(q)
      <3>1. /\ o.kind = "fc" => o.fc.id = FcId(o.idx)
            /\ \A k \in DOMAIN fs :
                 \E j \in 1 .. o.idx : fs[k].id = FcId(j) /\ (o.kind = "fc" => j < o.idx)
            /\ \A j, k \in DOMAIN fs : fs[j].id = fs[k].id => j = k
        BY DEF Streaming, IdsFresh
      <3>2. ASSUME o.kind = "fc" PROVE i.id = FcId(o.idx) /\ o.idx >= 1
        <4>1. OpenId(o) = FcId(o.idx) /\ OpenId(o) \in Ids
          BY <1>3, <3>1, <3>2, OpenIdIs, OpenIdType
        <4>2. FcId(0) \notin Ids
          BY Constants DEF Ids, FcId, RsId, MsgId
        <4> QED
          BY <1>1, <2>4, <4>1, <4>2
      <3>3. ASSUME NEW k \in DOMAIN gs PROVE \E j \in 1 .. o.idx : gs[k].id = FcId(j)
        <4>1. CASE k \in 1 .. Len(fs)
          BY <1>1, <2>5, <3>1, <4>1
        <4>2. CASE o.kind = "fc" /\ k = Len(fs) + 1
          <5>1. o.idx \in 1 .. o.idx /\ gs[k].id = FcId(o.idx)
            BY <1>1, <2>5, <3>2, <4>2
          <5> QED
            BY <5>1
        <4> QED
          BY <2>6, <4>1, <4>2
      <3>4. ASSUME o.kind = "fc", NEW k \in 1 .. Len(fs) PROVE gs[k].id # i.id
        <4>1. PICK j \in 1 .. o.idx : fs[k].id = FcId(j) /\ j < o.idx
          BY <1>1, <3>1, <3>4
        <4>2. j # o.idx
          BY <1>1, <4>1
        <4>3. FcId(j) # FcId(o.idx)
          BY <4>2, Constants, Zenon
        <4> QED
          BY <2>5, <3>2, <3>4, <4>1, <4>3, Zenon
      <3>5. ASSUME NEW j \in DOMAIN gs, NEW k \in DOMAIN gs, gs[j].id = gs[k].id PROVE j = k
        <4>1. CASE j \in 1 .. Len(fs) /\ k \in 1 .. Len(fs)
          BY <1>1, <2>5, <3>1, <3>5, <4>1
        <4>2. CASE ~(j \in 1 .. Len(fs) /\ k \in 1 .. Len(fs))
          BY <2>5, <2>6, <3>4, <3>5, <4>2
        <4> QED
          BY <4>1, <4>2
      <3> QED
        BY <2>2, <3>3, <3>5 DEF IdsFresh
    <2>12. AllStreamed(q, g, think, text)
      <3>1. /\ Whole(w, RsId) = think /\ Whole(w, MsgId) = text
            /\ \A k \in DOMAIN fs : Whole(w, fs[k].id) = g.args[fs[k].call]
            /\ o.kind = "fc" => Whole(w, o.fc.id) = g.args[o.fc.call]
            /\ \A j \in (o.idx + 1) .. MaxEvents : Whole(w, FcId(j)) = <<>>
        BY DEF Streaming, AllStreamed
      <3>2. ASSUME NEW k \in DOMAIN gs PROVE Whole(w, gs[k].id) = g.args[gs[k].call]
        <4>1. CASE k \in 1 .. Len(fs)
          <5>1. k \in DOMAIN fs /\ gs[k] = fs[k]
            BY <1>1, <2>5, <4>1
          <5> QED
            BY <3>1, <5>1, Zenon
        <4>2. CASE o.kind = "fc" /\ k = Len(fs) + 1
          <5>1. gs[k] = i /\ i.id = o.fc.id /\ i.call = o.fc.call
            BY <2>4, <2>5, <4>2, OpenIdIs
          <5> QED
            BY <3>1, <4>2, <5>1, Zenon
        <4> QED
          BY <2>6, <4>1, <4>2
      <3> QED
        BY <2>2, <2>7, <3>1, <3>2, Zenon DEF AllStreamed
    <2>13. DonesStreamed(q.wire)
      <3>1. DonesStreamed(w)
        BY DEF Streaming
      <3>2. DonesStreamed(Append(w, e))
        BY <1>1, <2>3, <2>8, <3>1, DonesAppend
      <3> QED
        BY <2>2, <3>2 DEF v
    <2>14. Reported(q, think, text)
      <3>1. /\ think # <<>> /\ o.kind # "reasoning" => LastDone(w, RsId, Plain(think))
            /\ text # <<>> /\ o.kind # "message" => LastDone(w, MsgId, Plain(text))
            /\ \A k \in DOMAIN fs : LastDone(w, fs[k].id, fs[k].body)
        BY DEF Streaming, Reported
      <3>2. LastDone(v, e.id, e.body)
        BY <1>1, <2>3, LastDoneNew DEF v
      <3>3. ASSUME NEW id, NEW body, LastDone(w, id, body), e.id # id
            PROVE  LastDone(v, id, body)
        BY <1>1, <2>3, <3>3, LastDoneKept DEF v
      <3>4. o.kind = "fc" => e.id = FcId(o.idx)
        BY <2>3, OpenIdIs DEF Streaming, IdsFresh
      <3>5. ASSUME think # <<>> PROVE LastDone(v, RsId, Plain(think))
        <4>1. CASE o.kind = "reasoning"
          <5>1. e.id = RsId
            BY <2>3, <4>1, OpenIdIs
          <5>2. e.body = Plain(think)
            BY <2>3, <4>1, OpenBodyIs
          <5> QED
            BY <3>2, <5>1, <5>2
        <4>2. CASE o.kind # "reasoning"
          <5>1. e.id # RsId
            BY <1>1, <1>3, <2>3, <3>4, <4>2, OpenIdIs, Constants
          <5> QED
            BY <3>1, <3>3, <3>5, <4>2, <5>1
        <4> QED
          BY <4>1, <4>2
      <3>6. ASSUME text # <<>> PROVE LastDone(v, MsgId, Plain(text))
        <4>1. CASE o.kind = "message"
          <5>1. e.id = MsgId
            BY <2>3, <4>1, OpenIdIs
          <5>2. e.body = Plain(text)
            BY <2>3, <4>1, OpenBodyIs
          <5> QED
            BY <3>2, <5>1, <5>2
        <4>2. CASE o.kind # "message"
          <5>1. e.id # MsgId
            BY <1>1, <1>3, <2>3, <3>4, <4>2, OpenIdIs, Constants
          <5> QED
            BY <3>1, <3>3, <3>6, <4>2, <5>1
        <4> QED
          BY <4>1, <4>2
      <3>7. ASSUME NEW k \in DOMAIN gs PROVE LastDone(v, gs[k].id, gs[k].body)
        <4>1. CASE k \in 1 .. Len(fs)
          <5>1. PICK j \in 1 .. o.idx : fs[k].id = FcId(j) /\ (o.kind = "fc" => j < o.idx)
            BY <1>1, <4>1 DEF Streaming, IdsFresh
          <5>2. e.id # fs[k].id
            BY <1>1, <1>3, <2>3, <3>4, <5>1, OpenIdIs, Constants
          <5>3. LastDone(w, fs[k].id, fs[k].body) /\ gs[k] = fs[k]
            BY <1>1, <2>5, <3>1, <4>1
          <5> QED
            BY <3>3, <5>2, <5>3
        <4>2. CASE o.kind = "fc" /\ k = Len(fs) + 1
          BY <2>3, <2>4, <2>5, <3>2, <4>2
        <4> QED
          BY <2>6, <4>1, <4>2
      <3> QED
        BY <2>2, <3>5, <3>6, <3>7 DEF Reported
    <2>15. AllNamed(q, think, text)
      <3>1. Named(q, think, text, e.id)
        <4>1. CASE o.kind = "reasoning"
          BY <2>3, <4>1, OpenIdIs DEF Begun, Named
        <4>2. CASE o.kind = "message"
          BY <2>3, <4>2, OpenIdIs DEF Begun, Named
        <4>3. CASE o.kind = "fc"
          <5>1. Len(fs) + 1 \in DOMAIN gs /\ e.id = gs[Len(fs) + 1].id
            BY <1>1, <2>3, <2>4, <2>5, <4>3
          <5> QED
            BY <2>2, <5>1 DEF Named
        <4> QED
          BY <1>1, <1>3, <4>1, <4>2, <4>3
      <3>2. ASSUME NEW id, Named(o, think, text, id) PROVE Named(q, think, text, id)
        <4>1. CASE o.kind # "none" /\ id = OpenId(o)
          BY <2>3, <3>1, <4>1
        <4>2. CASE \E j \in DOMAIN fs : id = fs[j].id
          <5>1. PICK j \in DOMAIN fs : id = fs[j].id
            BY <4>2
          <5>2. j \in DOMAIN gs /\ gs[j] = fs[j]
            BY <1>1, <2>5, <5>1
          <5> QED
            BY <2>2, <5>1, <5>2 DEF Named
        <4>3. CASE (id = RsId /\ think # <<>>) \/ (id = MsgId /\ text # <<>>)
          BY <4>3 DEF Named
        <4> QED
          BY <3>2, <4>1, <4>2, <4>3 DEF Named
      <3>3. AllNamed(o, think, text)
        BY DEF Streaming
      <3> QED
        BY <1>1, <2>2, <2>3, <3>1, <3>2, <3>3, NamedAppend DEF v
    <2>16. Bracketed(q.wire) /\ LastEvent(q)
      <3>1. Bracketed(w) /\ w # <<>> /\ Last(w).type # "done" /\ Last(w).id = OpenId(o)
            /\ Last(w).idx = o.idx
        BY <1>3 DEF Streaming, LastEvent
      <3>2. Bracketed(Append(w, e))
        BY <1>1, <2>3, <3>1, BracketAppend
      <3>3. Last(v) = e /\ v # <<>>
        BY <1>1, <2>3, WireAppend DEF v
      <3> QED
        BY <2>2, <2>3, <3>2, <3>3 DEF LastEvent, v
    <2> QED
      BY <2>9, <2>10, <2>11, <2>12, <2>13, <2>14, <2>15, <2>16 DEF Streaming, q
  <1> QED
    BY <1>2, <1>3

-----------------------------------------------------------------------------
(* Opening an item *)

CanOpen(m, o, kind, fc) ==
  /\ m \in Nat /\ m + 1 <= MaxEvents /\ OutType(o, m) /\ o.kind = "none"
  /\ kind \in {"reasoning", "message", "fc"} /\ fc \in Fcs
  /\ fc # NoFc => fc.id \in Ids /\ fc.call \in Calls
  /\ kind = "fc" => fc # NoFc

Opened(o, q, kind, fc, th, tx) ==
  /\ q.kind = kind /\ q.idx = o.idx + 1 /\ q.fc = fc /\ q.fcItems = o.fcItems
  /\ \A id : Whole(q.wire, id) = Whole(o.wire, id)
  /\ DonesStreamed(q.wire) /\ Bracketed(q.wire) /\ LastEvent(q)
  /\ Reported(q, th, tx) /\ AllNamed(q, th, tx)

\* Opening adds an event without content.
LEMMA OpenKeeps ==
  ASSUME NEW m, NEW o, NEW kind, NEW fc, CanOpen(m, o, kind, fc),
         NEW g, NEW th, NEW tx, Streaming(o, g, th, tx)
  PROVE  Opened(o, Open(o, kind, fc), kind, fc, th, tx)
  <1> DEFINE q == Open(o, kind, fc)
             p == Opening(o, kind, fc)
             e == AddedEvent(p)
             w == o.wire
             v == Append(w, e)
             fs == o.fcItems
  <1>0. /\ m \in Nat /\ m + 1 <= MaxEvents /\ OutType(o, m) /\ o.kind = "none"
        /\ kind \in {"reasoning", "message", "fc"} /\ fc \in Fcs
        /\ fc # NoFc => fc.id \in Ids /\ fc.call \in Calls
        /\ kind = "fc" => fc # NoFc
    BY DEF CanOpen
  <1>1. /\ o \in Outs(m) /\ w \in Seq(Events)
    BY <1>0 DEF OutType, Outs
  <1>2. q = OutRec(kind, o.idx + 1, fc, fs, v)
    BY <1>1, OpenIs
  <1>3. q.kind = kind /\ q.idx = o.idx + 1 /\ q.fc = fc /\ q.fcItems = fs /\ q.wire = v
    BY <1>2 DEF OutRec
  <1>4. e \in Events /\ e.type = "added" /\ e.id = OpenId(q) /\ e.idx = o.idx + 1
    <2>1. e \in Events
      BY <1>0, OpenType
    <2>2. p = OutRec(kind, o.idx + 1, fc, fs, w)
      BY <1>1, OpeningIs
    <2>3. p.kind = q.kind /\ p.fc = q.fc /\ p.idx = o.idx + 1
      BY <1>3, <2>2 DEF OutRec
    <2>4. OpenId(p) = OpenId(q)
      BY <2>3, Zenon DEF OpenId
    <2>5. e.type = "added" /\ e.id = OpenId(p) /\ e.idx = p.idx
      BY DEF AddedEvent, Event
    <2> QED
      BY <2>1, <2>3, <2>4, <2>5
  <1> HIDE DEF p, e, v, q
  <1>5. v \in Seq(Events) /\ Last(v) = e /\ v # <<>>
    BY <1>1, <1>4, WireAppend DEF v
  <1>6. \A id : Whole(v, id) = Whole(w, id)
    BY <1>1, <1>4, QuietAppend DEF v
  <1>7. DonesStreamed(v)
    BY <1>1, <1>4, DonesAppend DEF v, Streaming
  <1>8. Bracketed(v)
    <2>1. Bracketed(w) /\ (w = <<>> \/ Last(w).type = "done")
      BY <1>0 DEF Streaming, LastEvent
    <2> QED
      BY <1>1, <1>4, <2>1, BracketAppend DEF v
  <1>9. LastEvent(q)
    BY <1>0, <1>3, <1>4, <1>5 DEF LastEvent
  <1>10. Reported(q, th, tx)
    <2>1. ASSUME NEW id, NEW body, LastDone(w, id, body) PROVE LastDone(v, id, body)
      BY <1>1, <1>4, <2>1, LastDoneKept DEF v
    <2>2. /\ th # <<>> => LastDone(w, RsId, Plain(th))
          /\ tx # <<>> => LastDone(w, MsgId, Plain(tx))
          /\ \A k \in DOMAIN fs : LastDone(w, fs[k].id, fs[k].body)
      BY <1>0 DEF Streaming, Reported
    <2> QED
      BY <1>3, <2>1, <2>2, Zenon DEF Reported
  <1>11. AllNamed(q, th, tx)
    <2>1. Named(q, th, tx, e.id)
      BY <1>0, <1>3, <1>4 DEF Named
    <2>2. ASSUME NEW id, Named(o, th, tx, id) PROVE Named(q, th, tx, id)
      BY <1>0, <1>3, <2>2 DEF Named
    <2>3. AllNamed(o, th, tx)
      BY DEF Streaming
    <2> QED
      BY <1>1, <1>3, <1>4, <2>1, <2>2, <2>3, NamedAppend DEF v
  <1> QED
    BY <1>3, <1>6, <1>7, <1>8, <1>9, <1>10, <1>11 DEF Opened, q

\* A reasoning or message item: what is open changes, no call does.
LEMMA OpenTextStreaming ==
  ASSUME NEW m \in Nat, m + 1 <= MaxEvents, NEW o, OutType(o, m), o.kind = "none",
         NEW kind \in {"reasoning", "message"},
         NEW g, NEW th, NEW tx, Streaming(o, g, th, tx)
  PROVE  Streaming(Open(o, kind, o.fc), g, th, tx)
  <1> DEFINE q == Open(o, kind, o.fc)
             fs == o.fcItems
             fc == o.fc
  <1>1. /\ o.idx \in Nat /\ o.fc \in Fcs /\ (o.fc # NoFc => o.fc.id \in Ids /\ o.fc.call \in Calls)
        /\ MaxEvents \in Nat
    BY Constants DEF OutType, Outs
  <1>0. q = Open(o, kind, fc) /\ CanOpen(m, o, kind, fc) /\ kind # "fc"
    BY <1>1 DEF CanOpen
  <1> HIDE DEF q, fc
  <1>2. /\ q.kind = kind /\ q.idx = o.idx + 1 /\ q.fc = fc /\ q.fcItems = fs
        /\ \A id : Whole(q.wire, id) = Whole(o.wire, id)
        /\ DonesStreamed(q.wire) /\ Bracketed(q.wire) /\ LastEvent(q)
        /\ Reported(q, th, tx) /\ AllNamed(q, th, tx)
    BY <1>0, OpenKeeps DEF Opened
  <1>3. CallsInTurn(q, g)
    BY <1>2 DEF Streaming, CallsInTurn, fc
  <1>4. ItemsMatch(q, g)
    <2>1. /\ Len(g.order) = Len(fs) + 0
          /\ \A k \in DOMAIN fs : /\ fs[k].call = g.order[k]
                                  /\ fs[k].body = CallBody(g.args[g.order[k]], g.order[k] \in Custom)
      BY DEF Streaming, ItemsMatch
    <2>2. Len(g.order) = Len(q.fcItems) + (IF q.kind = "fc" THEN 1 ELSE 0)
      BY <1>2, <2>1
    <2> QED
      BY <1>2, <2>1, <2>2, Zenon DEF ItemsMatch
  <1>5. IdsFresh(q)
    <2>1. /\ \A k \in DOMAIN fs : \E j \in 1 .. o.idx : fs[k].id = FcId(j)
          /\ \A j, k \in DOMAIN fs : fs[j].id = fs[k].id => j = k
      BY DEF Streaming, IdsFresh
    <2>2. \A j \in 1 .. o.idx : j \in 1 .. o.idx + 1
      BY <1>1
    <2>3. \A k \in DOMAIN fs : \E j \in 1 .. o.idx + 1 : fs[k].id = FcId(j)
      BY <2>1, <2>2, Zenon
    <2> QED
      BY <1>2, <2>1, <2>3 DEF IdsFresh
  <1>6. AllStreamed(q, g, th, tx)
    <2>1. /\ Whole(o.wire, RsId) = th /\ Whole(o.wire, MsgId) = tx
          /\ \A k \in DOMAIN fs : Whole(o.wire, fs[k].id) = g.args[fs[k].call]
          /\ \A j \in (o.idx + 1) .. MaxEvents : Whole(o.wire, FcId(j)) = <<>>
      BY DEF Streaming, AllStreamed
    <2>2. \A j \in (q.idx + 1) .. MaxEvents : j \in (o.idx + 1) .. MaxEvents
      BY <1>1, <1>2
    <2>3. q.kind # "fc"
      BY <1>2
    <2> QED
      BY <1>2, <2>1, <2>2, <2>3, Zenon DEF AllStreamed
  <1> QED
    BY <1>2, <1>3, <1>4, <1>5, <1>6 DEF Streaming, q, fc

\* ToolAgg and the id for the first frame of a call, before its arguments.
Begins(g, c) ==
  [order |-> Append(g.order, c), args |-> g.args, named |-> g.named \union {c}, active |-> c]
BeginFc(o, c) == [id |-> FcId(o.idx + 1), call |-> c, custom |-> c \in Custom]

\* A call that is new: nothing was streamed of its item or said of it.
LEMMA OpenCallStreaming ==
  ASSUME NEW m \in Nat, m + 1 <= MaxEvents, NEW o, OutType(o, m), o.kind = "none",
         NEW g, AggType(g), NEW th, NEW tx, Streaming(o, g, th, tx),
         NEW c \in Calls, c \notin ToSet(g.order)
  PROVE  /\ Streaming(Open(o, "fc", BeginFc(o, c)), Begins(g, c), th, tx)
         /\ Open(o, "fc", BeginFc(o, c)).kind = "fc"
         /\ Open(o, "fc", BeginFc(o, c)).fc = BeginFc(o, c)
  <1> DEFINE fc == BeginFc(o, c)
             q == Open(o, "fc", fc)
             h == Begins(g, c)
             fs == o.fcItems
             l == Len(fs)
             b == c \in Custom
  <1>1. /\ o.idx \in Nat /\ o.idx + 1 \in 1 .. MaxEvents /\ MaxEvents \in Nat
        /\ fs \in Seq(FcItems) /\ DOMAIN fs = 1 .. l /\ l \in Nat
    BY Constants DEF OutType, Outs
  <1>2. fc.id = FcId(o.idx + 1) /\ fc.call = c /\ fc.custom = b /\ fc \in Fcs /\ fc.id \in Ids
    <2>1. FcId(o.idx + 1) \in Ids
      BY <1>1, Constants
    <2> HIDE DEF b
    <2>2. fc = [id |-> FcId(o.idx + 1), call |-> c, custom |-> b]
      BY Zenon DEF BeginFc, b
    <2>3. b \in BOOLEAN
      BY DEF b
    <2> HIDE DEF fc
    <2> QED
      BY <2>1, <2>2, <2>3 DEF Fcs
  <1>3. fc # NoFc
    BY <1>2, Constants DEF NoFc
  <1>4. /\ h.order = Append(g.order, c) /\ h.args = g.args /\ h.named = g.named \union {c}
        /\ h.active = c
    BY DEF Begins
  <1>5. g.order \in Seq(Calls)
    BY DEF AggType, Aggs
  <1> DEFINE kind == "fc"
  <1>0. q = Open(o, kind, fc) /\ CanOpen(m, o, kind, fc)
    BY <1>2, <1>3 DEF CanOpen
  <1> HIDE DEF fc, h, b, q, kind
  <1>6a. /\ q.kind = kind /\ q.idx = o.idx + 1 /\ q.fc = fc /\ q.fcItems = fs
         /\ \A id : Whole(q.wire, id) = Whole(o.wire, id)
         /\ DonesStreamed(q.wire) /\ Bracketed(q.wire) /\ LastEvent(q)
         /\ Reported(q, th, tx) /\ AllNamed(q, th, tx)
    BY <1>0, OpenKeeps DEF Opened
  <1>6. /\ q.kind = "fc" /\ q.idx = o.idx + 1 /\ q.fc = fc /\ q.fcItems = fs
        /\ \A id : Whole(q.wire, id) = Whole(o.wire, id)
        /\ DonesStreamed(q.wire) /\ Bracketed(q.wire) /\ LastEvent(q)
        /\ Reported(q, th, tx) /\ AllNamed(q, th, tx)
    BY <1>6a DEF kind
  <1>7. CallsInTurn(q, h)
    <2>1. h.order # <<>> /\ Last(h.order) = c /\ ToSet(h.order) = ToSet(g.order) \union {c}
      <3>1. /\ DOMAIN g.order = 1 .. Len(g.order) /\ Len(g.order) \in Nat
            /\ DOMAIN h.order = 1 .. Len(g.order) + 1 /\ Len(h.order) = Len(g.order) + 1
            /\ h.order[Len(g.order) + 1] = c /\ \A k \in 1 .. Len(g.order) : h.order[k] = g.order[k]
        BY <1>4, <1>5
      <3>2. h.order # <<>> /\ Last(h.order) = c
        BY <3>1 DEF Last
      <3>3. \A x \in ToSet(h.order) : x \in ToSet(g.order) \union {c}
        BY <3>1 DEF ToSet
      <3>4. \A x \in ToSet(g.order) \union {c} : x \in ToSet(h.order)
        BY <3>1 DEF ToSet
      <3> QED
        BY <3>2, <3>3, <3>4
    <2>2. g.named = ToSet(g.order) /\ \A d \in Calls \ ToSet(g.order) : g.args[d] = <<>>
      BY DEF Streaming, CallsInTurn
    <2>3. q.fc.custom = (q.fc.call \in Custom)
      BY <1>2, <1>6 DEF b
    <2> QED
      BY <1>2, <1>4, <1>6, <2>1, <2>2, <2>3 DEF CallsInTurn
  <1>8. ItemsMatch(q, h)
    <2>1. /\ Len(g.order) = l + 0
          /\ \A k \in DOMAIN fs : /\ fs[k].call = g.order[k]
                                  /\ fs[k].body = CallBody(g.args[g.order[k]], g.order[k] \in Custom)
      BY DEF Streaming, ItemsMatch
    <2>2. Len(h.order) = l + 1 /\ \A k \in DOMAIN fs : h.order[k] = g.order[k]
      BY <1>1, <1>4, <1>5, <2>1
    <2>3. \A k \in DOMAIN fs : /\ fs[k].call = h.order[k]
                               /\ fs[k].body = CallBody(h.args[h.order[k]], h.order[k] \in Custom)
      BY <1>4, <2>1, <2>2, Zenon
    <2>4. Len(h.order) = Len(q.fcItems) + (IF q.kind = "fc" THEN 1 ELSE 0)
      BY <1>6, <2>2
    <2> QED
      BY <1>6, <2>3, <2>4, Zenon DEF ItemsMatch
  <1>9. IdsFresh(q)
    <2>1. /\ \A k \in DOMAIN fs : \E j \in 1 .. o.idx : fs[k].id = FcId(j)
          /\ \A j, k \in DOMAIN fs : fs[j].id = fs[k].id => j = k
      BY DEF Streaming, IdsFresh
    <2>2. \A j \in 1 .. o.idx : j \in 1 .. o.idx + 1 /\ j < o.idx + 1
      BY <1>1
    <2>3. \A k \in DOMAIN fs : \E j \in 1 .. o.idx + 1 : fs[k].id = FcId(j) /\ j < o.idx + 1
      BY <2>1, <2>2, Zenon
    <2> QED
      BY <1>2, <1>6, <2>1, <2>3 DEF IdsFresh
  <1>10. AllStreamed(q, h, th, tx)
    <2>1. /\ Whole(o.wire, RsId) = th /\ Whole(o.wire, MsgId) = tx
          /\ \A k \in DOMAIN fs : Whole(o.wire, fs[k].id) = g.args[fs[k].call]
          /\ \A j \in (o.idx + 1) .. MaxEvents : Whole(o.wire, FcId(j)) = <<>>
      BY DEF Streaming, AllStreamed
    <2>2. \A j \in (q.idx + 1) .. MaxEvents : j \in (o.idx + 1) .. MaxEvents
      BY <1>1, <1>6
    <2>3. Whole(o.wire, q.fc.id) = <<>>
      <3>1. o.idx + 1 \in (o.idx + 1) .. MaxEvents
        BY <1>1
      <3> QED
        BY <1>2, <1>6, <2>1, <3>1
    <2>4. h.args[q.fc.call] = <<>>
      BY <1>2, <1>4, <1>6 DEF Streaming, CallsInTurn
    <2> QED
      BY <1>4, <1>6, <2>1, <2>2, <2>3, <2>4, Zenon DEF AllStreamed
  <1> QED
    BY <1>6, <1>7, <1>8, <1>9, <1>10 DEF Streaming, q, h, fc

-----------------------------------------------------------------------------
(* A delta of the open item *)

DeltaOf(o, p) == Event("delta", OpenId(o), o, Plain(p))

CanSend(m, o, p) == /\ m \in 0 .. MaxEvents /\ OutType(o, m) /\ o.kind # "none"
                    /\ p \in Texts

SentOf(o, q, p) ==
  /\ q.kind = o.kind /\ q.idx = o.idx /\ q.fc = o.fc /\ q.fcItems = o.fcItems
  /\ \A id : id # OpenId(o) => Whole(q.wire, id) = Whole(o.wire, id)
  /\ Whole(q.wire, OpenId(o)) = Whole(o.wire, OpenId(o)) \o p
  /\ DonesStreamed(q.wire) /\ Bracketed(q.wire) /\ LastEvent(q)
  /\ \A id, body : LastDone(o.wire, id, body) => LastDone(q.wire, id, body)

\* A delta adds its piece to the stream of the open item and to no other.
LEMMA SendKeeps ==
  ASSUME NEW m, NEW o, NEW p, CanSend(m, o, p),
         NEW g, NEW th, NEW tx, Streaming(o, g, th, tx)
  PROVE  /\ SentOf(o, Sent(o, DeltaOf(o, p)), p)
         /\ \A th2, tx2 :
              (\A id : Named(o, th, tx, id) =>
                       Named(Sent(o, DeltaOf(o, p)), th2, tx2, id))
              => AllNamed(Sent(o, DeltaOf(o, p)), th2, tx2)
  <1> DEFINE e == DeltaOf(o, p)
             q == Sent(o, e)
             w == o.wire
             v == Append(w, e)
  <1>1. /\ m \in 0 .. MaxEvents /\ OutType(o, m) /\ o.kind # "none" /\ p \in Texts
        /\ o \in Outs(m) /\ w \in Seq(Events)
    BY DEF CanSend, OutType, Outs
  <1>2. e \in Events
    BY <1>1, OpenIdType, DeltaType DEF DeltaOf
  <1>3. e.type = "delta" /\ e.id = OpenId(o) /\ e.idx = o.idx /\ Part(e, OpenId(o)) = p
    BY DEF DeltaOf, Event, Part, Plain
  <1>4. q = OutRec(o.kind, o.idx, o.fc, o.fcItems, v) /\ OpenId(q) = OpenId(o)
    BY <1>1, SentIs
  <1>5. /\ q.kind = o.kind /\ q.idx = o.idx /\ q.fc = o.fc /\ q.fcItems = o.fcItems
        /\ q.wire = v
    BY <1>4 DEF OutRec
  <1>6. Bracketed(w) /\ w # <<>> /\ Last(w).type # "done" /\ Last(w).id = OpenId(o)
        /\ Last(w).idx = o.idx
    BY <1>1 DEF Streaming, LastEvent
  <1>7. DonesStreamed(w) /\ AllNamed(o, th, tx)
    BY DEF Streaming
  <1> HIDE DEF e, q, v
  <1>8. \A id : id # OpenId(o) => Whole(v, id) = Whole(w, id)
    BY <1>1, <1>2, <1>3, QuietAppend DEF v
  <1>9. Whole(v, OpenId(o)) = Whole(w, OpenId(o)) \o p
    BY <1>1, <1>2, <1>3, WholeAppend DEF v
  <1>10. DonesStreamed(v)
    BY <1>1, <1>2, <1>3, <1>7, DonesAppend DEF v
  <1>11. Bracketed(v)
    BY <1>1, <1>2, <1>3, <1>6, BracketAppend DEF v
  <1>12. LastEvent(q)
    <2>1. Last(v) = e /\ v # <<>>
      BY <1>1, <1>2, WireAppend DEF v
    <2> QED
      BY <1>1, <1>3, <1>4, <1>5, <2>1 DEF LastEvent
  <1>13. \A id, body : LastDone(w, id, body) => LastDone(v, id, body)
    BY <1>1, <1>2, <1>3, LastDoneKept DEF v
  <1>14. SentOf(o, q, p)
    BY <1>5, <1>8, <1>9, <1>10, <1>11, <1>12, <1>13 DEF SentOf
  <1>15. ASSUME NEW th2, NEW tx2, \A id : Named(o, th, tx, id) => Named(q, th2, tx2, id)
         PROVE  AllNamed(q, th2, tx2)
    <2>1. Named(o, th, tx, e.id)
      BY <1>1, <1>3 DEF Named
    <2> QED
      BY <1>1, <1>2, <1>5, <1>7, <1>15, <2>1, NamedAppend DEF v
  <1> QED
    BY <1>14, <1>15, Zenon DEF q, e

\* Thinking or text, while its item is open.
LEMMA DeltaTextStreaming ==
  ASSUME NEW m, NEW o, NEW p, CanSend(m, o, p), p # <<>>,
         NEW g, NEW th, NEW tx, Streaming(o, g, th, tx), th \in Seq(Nat), tx \in Seq(Nat),
         NEW kind \in {"reasoning", "message"}, o.kind = kind,
         NEW th2, th2 = (IF kind = "reasoning" THEN th \o p ELSE th),
         NEW tx2, tx2 = (IF kind = "message" THEN tx \o p ELSE tx)
  PROVE  /\ Streaming(Sent(o, DeltaOf(o, p)), g, th2, tx2)
         /\ Begun(Sent(o, DeltaOf(o, p)), th2, tx2)
  <1> DEFINE q == Sent(o, DeltaOf(o, p))
             fs == o.fcItems
  <1>1. /\ o.idx \in Nat /\ p \in Seq(Nat) /\ Len(p) > 0
    <2>1. p \in Seq(Pieces) /\ \A x \in Pieces : x \in Nat
      BY Constants DEF CanSend
    <2>2. p \in Seq(Nat)
      BY <2>1
    <2> QED
      BY <2>2 DEF CanSend, OutType, Outs
  <1>2. /\ SentOf(o, q, p)
        /\ (\A id : Named(o, th, tx, id) => Named(q, th2, tx2, id)) => AllNamed(q, th2, tx2)
    BY SendKeeps
  <1> HIDE DEF q
  <1>3. /\ q.kind = o.kind /\ q.idx = o.idx /\ q.fc = o.fc /\ q.fcItems = fs
        /\ \A id : id # OpenId(o) => Whole(q.wire, id) = Whole(o.wire, id)
        /\ Whole(q.wire, OpenId(o)) = Whole(o.wire, OpenId(o)) \o p
        /\ DonesStreamed(q.wire) /\ Bracketed(q.wire) /\ LastEvent(q)
        /\ \A id, body : LastDone(o.wire, id, body) => LastDone(q.wire, id, body)
    BY <1>2 DEF SentOf
  <1>4. /\ (th # <<>> => th2 # <<>>) /\ (tx # <<>> => tx2 # <<>>)
        /\ (kind = "reasoning" => th2 # <<>> /\ th2 = th \o p /\ tx2 = tx)
        /\ (kind = "message" => tx2 # <<>> /\ tx2 = tx \o p /\ th2 = th)
    <2>1. \A t \in Seq(Nat) : t \o p # <<>>
      BY <1>1
    <2> QED
      BY <2>1
  <1>5. CallsInTurn(q, g)
    BY <1>3 DEF Streaming, CallsInTurn
  <1>6. ItemsMatch(q, g)
    BY <1>3 DEF Streaming, ItemsMatch
  <1>7. IdsFresh(q)
    BY <1>3 DEF Streaming, IdsFresh
  <1>8. AllStreamed(q, g, th2, tx2)
    <2>1. /\ Whole(o.wire, RsId) = th /\ Whole(o.wire, MsgId) = tx
          /\ \A k \in DOMAIN fs : Whole(o.wire, fs[k].id) = g.args[fs[k].call]
          /\ \A j \in (o.idx + 1) .. MaxEvents : Whole(o.wire, FcId(j)) = <<>>
      BY DEF Streaming, AllStreamed
    <2>2. OpenId(o) = IF kind = "reasoning" THEN RsId ELSE MsgId
      BY OpenIdIs
    <2>3. Whole(q.wire, RsId) = th2 /\ Whole(q.wire, MsgId) = tx2
      <3>1. CASE kind = "reasoning"
        <4>1. OpenId(o) = RsId /\ MsgId # RsId
          BY <2>2, <3>1, Constants
        <4> QED
          BY <1>3, <1>4, <2>1, <3>1, <4>1, Zenon
      <3>2. CASE kind = "message"
        <4>1. OpenId(o) = MsgId /\ MsgId # RsId
          BY <2>2, <3>2, Constants
        <4> QED
          BY <1>3, <1>4, <2>1, <3>2, <4>1, Zenon
      <3> QED
        BY <3>1, <3>2
    <2>4. \A j : FcId(j) # OpenId(o)
      BY <2>2, Constants
    <2>5. ASSUME NEW k \in DOMAIN fs PROVE Whole(q.wire, fs[k].id) = g.args[fs[k].call]
      <3>1. PICK j \in 1 .. o.idx : fs[k].id = FcId(j)
        BY DEF Streaming, IdsFresh
      <3> QED
        BY <1>3, <2>1, <2>4, <3>1
    <2>6. \A j \in (o.idx + 1) .. MaxEvents : Whole(q.wire, FcId(j)) = <<>>
      BY <1>3, <2>1, <2>4
    <2>7. q.kind # "fc"
      BY <1>3
    <2> QED
      BY <1>3, <2>3, <2>5, <2>6, <2>7 DEF AllStreamed
  <1>9. Reported(q, th2, tx2)
    <2>1. /\ th # <<>> /\ o.kind # "reasoning" => LastDone(o.wire, RsId, Plain(th))
          /\ tx # <<>> /\ o.kind # "message" => LastDone(o.wire, MsgId, Plain(tx))
          /\ \A k \in DOMAIN fs : LastDone(o.wire, fs[k].id, fs[k].body)
      BY DEF Streaming, Reported
    <2>2. /\ th2 # <<>> /\ o.kind # "reasoning" => LastDone(q.wire, RsId, Plain(th2))
          /\ tx2 # <<>> /\ o.kind # "message" => LastDone(q.wire, MsgId, Plain(tx2))
      BY <1>3, <1>4, <2>1
    <2>3. \A k \in DOMAIN fs : LastDone(q.wire, fs[k].id, fs[k].body)
      BY <1>3, <2>1
    <2> QED
      BY <1>3, <2>2, <2>3 DEF Reported
  <1>10. AllNamed(q, th2, tx2)
    <2>1. OpenId(q) = OpenId(o)
      BY <1>3, Zenon DEF OpenId
    <2>2. ASSUME NEW id, Named(o, th, tx, id) PROVE Named(q, th2, tx2, id)
      BY <1>3, <1>4, <2>1, <2>2 DEF Named
    <2> QED
      BY <1>2, <2>2
  <1>11. Begun(q, th2, tx2)
    BY <1>3, <1>4 DEF Begun
  <1> QED
    BY <1>3, <1>5, <1>6, <1>7, <1>8, <1>9, <1>10, <1>11 DEF Streaming, q

\* ToolAgg with one more piece of a call.
Extends(g, c, p) == [g EXCEPT !.args = [g.args EXCEPT ![c] = g.args[c] \o p]]

\* Arguments, while the item of their call is open.
LEMMA DeltaCallStreaming ==
  ASSUME NEW m, NEW o, NEW p, CanSend(m, o, p), o.kind = "fc",
         NEW g, AggType(g), NEW th, NEW tx, Streaming(o, g, th, tx)
  PROVE  Streaming(Sent(o, DeltaOf(o, p)), Extends(g, o.fc.call, p), th, tx)
  <1> DEFINE q == Sent(o, DeltaOf(o, p))
             fs == o.fcItems
             l == Len(fs)
             c == o.fc.call
             h == Extends(g, c, p)
             args == [g.args EXCEPT ![c] = g.args[c] \o p]
  <1>1. /\ m \in 0 .. MaxEvents /\ OutType(o, m) /\ fs \in Seq(FcItems) /\ DOMAIN fs = 1 .. l
        /\ l \in Nat /\ o.idx \in Nat /\ MaxEvents \in Nat /\ c \in Calls
    BY Constants DEF CanSend, OutType, Outs
  <1>2. g.order \in Seq(Calls) /\ IsInjective(g.order) /\ g.args \in [Calls -> Texts]
    BY DEF AggType, Aggs
  <1>3. h.order = g.order /\ h.args = args /\ h.named = g.named /\ h.active = g.active
    <2> HIDE DEF args
    <2>1. h = [g EXCEPT !.args = args]
      BY Zenon DEF Extends, args
    <2> QED
      BY <2>1 DEF AggType, Aggs
  <1>4. SentOf(o, q, p) /\
        ((\A id : Named(o, th, tx, id) => Named(q, th, tx, id)) => AllNamed(q, th, tx))
    BY SendKeeps
  <1> HIDE DEF q, h
  <1>5. /\ q.kind = o.kind /\ q.idx = o.idx /\ q.fc = o.fc /\ q.fcItems = fs
        /\ \A id : id # OpenId(o) => Whole(q.wire, id) = Whole(o.wire, id)
        /\ Whole(q.wire, OpenId(o)) = Whole(o.wire, OpenId(o)) \o p
        /\ DonesStreamed(q.wire) /\ Bracketed(q.wire) /\ LastEvent(q)
        /\ \A id, body : LastDone(o.wire, id, body) => LastDone(q.wire, id, body)
    BY <1>4 DEF SentOf
  <1>6. /\ Len(g.order) = l + 1
        /\ \A k \in DOMAIN fs : /\ fs[k].call = g.order[k]
                                /\ fs[k].body = CallBody(g.args[g.order[k]], g.order[k] \in Custom)
    BY DEF Streaming, ItemsMatch
  <1>7. g.order[l + 1] = c /\ g.order # <<>> /\ c \in ToSet(g.order)
    <2>1. g.order # <<>> /\ DOMAIN g.order = 1 .. l + 1 /\ l + 1 \in DOMAIN g.order
      BY <1>1, <1>2, <1>6
    <2>2. c = Last(g.order)
      BY <2>1 DEF Streaming, CallsInTurn
    <2> QED
      BY <1>6, <2>1, <2>2 DEF Last, ToSet
  <1>8. \A k \in DOMAIN fs : g.order[k] \in Calls /\ g.order[k] # c
    <2>1. DOMAIN g.order = 1 .. l + 1
      BY <1>1, <1>2, <1>6
    <2>2. \A j, k \in DOMAIN g.order : g.order[j] = g.order[k] => j = k
      BY <1>2, Zenon DEF IsInjective
    <2> QED
      BY <1>1, <1>2, <1>7, <2>1, <2>2
  <1>9. args[c] = g.args[c] \o p /\ \A d \in Calls : d # c => args[d] = g.args[d]
    BY <1>1, <1>2
  <1> HIDE DEF args
  <1>10. CallsInTurn(q, h)
    BY <1>3, <1>5, <1>7, <1>9 DEF Streaming, CallsInTurn
  <1>11. ItemsMatch(q, h)
    <2>1. \A k \in DOMAIN fs : args[g.order[k]] = g.args[g.order[k]]
      BY <1>8, <1>9
    <2>2. \A k \in DOMAIN fs : /\ fs[k].call = h.order[k]
                               /\ fs[k].body = CallBody(h.args[h.order[k]], h.order[k] \in Custom)
      BY <1>3, <1>6, <2>1, Zenon
    <2>3. Len(h.order) = Len(q.fcItems) + (IF q.kind = "fc" THEN 1 ELSE 0)
      BY <1>3, <1>5, <1>6
    <2> QED
      BY <1>5, <2>2, <2>3, Zenon DEF ItemsMatch
  <1>12. IdsFresh(q)
    BY <1>5 DEF Streaming, IdsFresh
  <1>13. OpenId(o) = o.fc.id /\ o.fc.id = FcId(o.idx)
    BY OpenIdIs DEF Streaming, IdsFresh
  <1>14. AllStreamed(q, h, th, tx)
    <2>1. /\ Whole(o.wire, RsId) = th /\ Whole(o.wire, MsgId) = tx
          /\ \A k \in DOMAIN fs : Whole(o.wire, fs[k].id) = g.args[fs[k].call]
          /\ Whole(o.wire, o.fc.id) = g.args[c]
          /\ \A j \in (o.idx + 1) .. MaxEvents : Whole(o.wire, FcId(j)) = <<>>
      BY DEF Streaming, AllStreamed
    <2>2. \A j : FcId(j) = OpenId(o) => j = o.idx
      BY <1>13, Constants
    <2>3. OpenId(o) # RsId /\ OpenId(o) # MsgId
      BY <1>13, Constants
    <2>4. ASSUME NEW k \in DOMAIN fs PROVE Whole(q.wire, fs[k].id) = args[fs[k].call]
      <3>1. PICK j \in 1 .. o.idx : fs[k].id = FcId(j) /\ j < o.idx
        BY DEF Streaming, IdsFresh
      <3>2. j # o.idx
        BY <1>1, <3>1
      <3>3. fs[k].id # OpenId(o)
        BY <2>2, <3>1, <3>2
      <3>4. args[fs[k].call] = g.args[fs[k].call]
        BY <1>6, <1>8, <1>9
      <3> QED
        BY <1>5, <2>1, <3>3, <3>4
    <2>5. \A j \in (o.idx + 1) .. MaxEvents : j # o.idx
      BY <1>1
    <2>6. \A j \in (o.idx + 1) .. MaxEvents : Whole(q.wire, FcId(j)) = <<>>
      BY <1>5, <2>1, <2>2, <2>5
    <2>7. Whole(q.wire, o.fc.id) = args[c]
      BY <1>5, <1>9, <1>13, <2>1
    <2>8. Whole(q.wire, RsId) = th /\ Whole(q.wire, MsgId) = tx
      BY <1>5, <2>1, <2>3
    <2> QED
      BY <1>3, <1>5, <2>4, <2>6, <2>7, <2>8, Zenon DEF AllStreamed
  <1>15. Reported(q, th, tx)
    BY <1>5 DEF Streaming, Reported
  <1>16. AllNamed(q, th, tx)
    <2>1. OpenId(q) = OpenId(o)
      BY <1>5, Zenon DEF OpenId
    <2>2. ASSUME NEW id, Named(o, th, tx, id) PROVE Named(q, th, tx, id)
      BY <1>5, <2>1, <2>2, Zenon DEF Named
    <2> QED
      BY <1>4, <2>2
  <1> QED
    BY <1>5, <1>10, <1>11, <1>12, <1>14, <1>15, <1>16 DEF Streaming, q, h

-----------------------------------------------------------------------------
(* Every step keeps the stream *)

\* Closing what is open and opening another kind.
LEMMA SwitchStreaming ==
  ASSUME NEW m \in Nat, m + 1 <= MaxEvents, NEW o, OutType(o, m), AggType(agg),
         think \in Texts, text \in Texts, NEW kind \in {"reasoning", "message"},
         Streaming(o, agg, think, text), Begun(o, think, text)
  PROVE  Streaming(SwitchTo(o, kind), agg, think, text)
  <1>1. CASE o.kind = kind
    BY <1>1 DEF SwitchTo
  <1>2. CASE o.kind # kind
    <2> DEFINE q == Close(o, agg)
    <2>1. m \in 0 .. MaxEvents /\ agg \in Aggs
      BY Constants DEF AggType
    <2>2. OutType(q, m) /\ q.kind = "none" /\ q.fc = o.fc
      BY <2>1, CloseType
    <2>3. Streaming(q, agg, think, text)
      BY <2>1, CloseStreaming
    <2>4. SwitchTo(o, kind) = Open(q, kind, q.fc)
      BY <1>2, <2>2 DEF SwitchTo
    <2> HIDE DEF q
    <2>5. Streaming(Open(q, kind, q.fc), agg, think, text)
      BY <2>2, <2>3, OpenTextStreaming
    <2> QED
      BY <2>4, <2>5
  <1> QED
    BY <1>1, <1>2

\* A thinking delta.
LEMMA ThinksStreaming ==
  ASSUME ItemsInv, Thinks
  PROVE  Streaming(out', agg', think', text') /\ Begun(out', think', text')
  <1> DEFINE o == SwitchTo(out, "reasoning")
             p == <<n'>>
             m == n + 1
  <1>1. /\ n' = n + 1 /\ n < MaxEvents /\ think' = Append(think, n')
        /\ UNCHANGED <<agg, text>>
        /\ out' = Sent(o, Event("delta", RsId, o, Plain(p)))
    BY Zenon DEF Thinks, Arrives
  <1>2. /\ TypeInv /\ Streaming(out, agg, think, text) /\ Begun(out, think, text)
    BY DEF ItemsInv
  <1>3. n \in Nat /\ n + 1 <= MaxEvents /\ OutType(out, n) /\ AggType(agg) /\ agg \in Aggs
        /\ think \in Texts /\ text \in Texts
    BY <1>1, <1>2, TypedParts, Constants DEF TypeInv
  <1>4. OutType(o, m) /\ o.kind = "reasoning"
    BY <1>3, SwitchType
  <1>5. Streaming(o, agg, think, text)
    BY <1>2, <1>3, SwitchStreaming
  <1>6. p \in Texts /\ think' = think \o p /\ p # <<>>
    BY <1>1, <1>2, <1>3, TextsGrow
  <1> HIDE DEF o, p
  <1>7. out' = Sent(o, DeltaOf(o, p))
    BY <1>1, <1>4, OpenIdIs DEF DeltaOf
  <1>8. CanSend(m, o, p)
    BY <1>3, <1>4, <1>6, Constants DEF CanSend
  <1>9. think \in Seq(Nat) /\ text \in Seq(Nat)
    BY <1>3, Constants DEF Pieces
  <1> DEFINE kind == "reasoning"
             tx2 == text
             th2 == think \o p
  <1>10. /\ kind \in {"reasoning", "message"} /\ o.kind = kind
         /\ th2 = (IF kind = "reasoning" THEN think \o p ELSE think)
         /\ tx2 = (IF kind = "message" THEN text \o p ELSE text)
    BY <1>4
  <1> HIDE DEF kind, th2, tx2, m
  <1>11. /\ Streaming(Sent(o, DeltaOf(o, p)), agg, th2, tx2)
         /\ Begun(Sent(o, DeltaOf(o, p)), th2, tx2)
    BY <1>5, <1>6, <1>8, <1>9, <1>10, DeltaTextStreaming
  <1> QED
    BY <1>1, <1>6, <1>7, <1>11 DEF th2, tx2

\* A text delta.
LEMMA SaysStreaming ==
  ASSUME ItemsInv, Says
  PROVE  Streaming(out', agg', think', text') /\ Begun(out', think', text')
  <1> DEFINE o == SwitchTo(out, "message")
             p == <<n'>>
             m == n + 1
  <1>1. /\ n' = n + 1 /\ n < MaxEvents /\ text' = Append(text, n')
        /\ UNCHANGED <<agg, think>>
        /\ out' = Sent(o, Event("delta", MsgId, o, Plain(p)))
    BY Zenon DEF Says, Arrives
  <1>2. /\ TypeInv /\ Streaming(out, agg, think, text) /\ Begun(out, think, text)
    BY DEF ItemsInv
  <1>3. n \in Nat /\ n + 1 <= MaxEvents /\ OutType(out, n) /\ AggType(agg) /\ agg \in Aggs
        /\ think \in Texts /\ text \in Texts
    BY <1>1, <1>2, TypedParts, Constants DEF TypeInv
  <1>4. OutType(o, m) /\ o.kind = "message"
    BY <1>3, SwitchType
  <1>5. Streaming(o, agg, think, text)
    BY <1>2, <1>3, SwitchStreaming
  <1>6. p \in Texts /\ text' = text \o p /\ p # <<>>
    BY <1>1, <1>2, <1>3, TextsGrow
  <1> HIDE DEF o, p
  <1>7. out' = Sent(o, DeltaOf(o, p))
    BY <1>1, <1>4, OpenIdIs DEF DeltaOf
  <1>8. CanSend(m, o, p)
    BY <1>3, <1>4, <1>6, Constants DEF CanSend
  <1>9. think \in Seq(Nat) /\ text \in Seq(Nat)
    BY <1>3, Constants DEF Pieces
  <1> DEFINE kind == "message"
             th2 == think
             tx2 == text \o p
  <1>10. /\ kind \in {"reasoning", "message"} /\ o.kind = kind
         /\ th2 = (IF kind = "reasoning" THEN think \o p ELSE think)
         /\ tx2 = (IF kind = "message" THEN text \o p ELSE text)
    BY <1>4
  <1> HIDE DEF kind, th2, tx2, m
  <1>11. /\ Streaming(Sent(o, DeltaOf(o, p)), agg, th2, tx2)
         /\ Begun(Sent(o, DeltaOf(o, p)), th2, tx2)
    BY <1>5, <1>6, <1>8, <1>9, <1>10, DeltaTextStreaming
  <1> QED
    BY <1>1, <1>6, <1>7, <1>11 DEF th2, tx2

\* The arguments of a frame, which may be none.
LEMMA ToolDeltaStreaming ==
  ASSUME NEW m \in 0 .. MaxEvents, NEW o, OutType(o, m), o.kind = "fc", NEW p \in Texts,
         NEW g, AggType(g), NEW th, NEW tx, Streaming(o, g, th, tx)
  PROVE  Streaming(ToolDelta(o, p), Extends(g, o.fc.call, p), th, tx) /\ ToolDelta(o, p).kind = "fc"
  <1> DEFINE c == o.fc.call
             args == [g.args EXCEPT ![c] = g.args[c] \o p]
  <1>1. o.fc # NoFc /\ c \in Calls /\ o \in Outs(m)
    BY DEF OutType
  <1>2. g.args \in [Calls -> Texts] /\ g \in Aggs
    BY DEF AggType, Aggs
  <1>3. CASE p = <<>>
    <2>1. ToolDelta(o, p) = o
      BY <1>3 DEF ToolDelta
    <2>2. g.args[c] \o p = g.args[c]
      <3>1. g.args[c] \in Seq(Pieces)
        BY <1>1, <1>2, Constants
      <3> QED
        BY <1>3, <3>1
    <2>3. args = g.args
      BY <1>2, <2>2
    <2>4. Extends(g, c, p) = [g EXCEPT !.args = g.args]
      BY <2>3, Zenon DEF Extends
    <2>5. [g EXCEPT !.args = g.args] = g
      BY <1>2 DEF Aggs
    <2> QED
      BY <2>1, <2>4, <2>5
  <1>4. CASE p # <<>>
    <2>1. ToolDelta(o, p) = Sent(o, DeltaOf(o, p))
      BY <1>1, <1>4, OpenIdIs DEF ToolDelta, DeltaOf
    <2>2. CanSend(m, o, p)
      BY DEF CanSend
    <2>3. Streaming(Sent(o, DeltaOf(o, p)), Extends(g, o.fc.call, p), th, tx)
      BY <2>2, DeltaCallStreaming
    <2>4. Sent(o, DeltaOf(o, p)).kind = "fc"
      BY <1>1, SentIs DEF OutRec
    <2> QED
      BY <2>1, <2>3, <2>4
  <1> QED
    BY <1>3, <1>4

\* The first frame of a call: the open item is closed, an item is opened.
LEMMA FirstFrameStreaming ==
  ASSUME TypeInv, n + 1 <= MaxEvents, NEW c \in Calls, c \notin ToSet(agg.order),
         Streaming(out, agg, think, text), Begun(out, think, text),
         NEW piece \in Texts, agg.args[c] \o piece \in Texts
  PROVE  LET g == FrameAgg(c, TRUE, piece)
             s == Open(Close(out, g), "fc", FrameFc(c, g))
         IN  /\ Opens(out, c, TRUE)
             /\ Streaming(ToolDelta(s, piece), g, think, text)
             /\ ToolDelta(s, piece).kind = "fc"
  <1> DEFINE g == FrameAgg(c, TRUE, piece)
             r == Close(out, agg)
             h == Begins(agg, c)
             s == Open(r, "fc", BeginFc(r, c))
  <1>1. /\ n \in Nat /\ n \in 0 .. MaxEvents /\ n + 1 \in 0 .. MaxEvents /\ OutType(out, n)
        /\ AggType(agg) /\ agg \in Aggs /\ think \in Texts /\ text \in Texts
    BY TypedParts, Constants DEF TypeInv
  <1>2. agg.order \in Seq(Calls) /\ IsInjective(agg.order) /\ agg.named \subseteq Calls
        /\ agg.args \in [Calls -> Texts]
    BY <1>1 DEF AggType, Aggs
  <1>3. out.fc.call # c
    <2>1. CASE agg.order = <<>>
      <3>1. out.fc = NoFc
        BY <2>1 DEF Streaming, CallsInTurn
      <3> QED
        BY <3>1, Constants DEF NoFc
    <2>2. CASE agg.order # <<>>
      <3>1. out.fc.call = Last(agg.order)
        BY <2>2 DEF Streaming, CallsInTurn
      <3>2. Last(agg.order) \in ToSet(agg.order)
        BY <1>2, <2>2 DEF Last, ToSet
      <3> QED
        BY <3>1, <3>2
    <2> QED
      BY <2>1, <2>2
  <1>4. Opens(out, c, TRUE)
    BY <1>3 DEF Opens
  <1>5. Ordered(agg.order, c) = Append(agg.order, c) /\ AggType(h)
    <2>1. Ordered(agg.order, c) = Append(agg.order, c)
      BY <1>2, OrderedIs DEF Ordered
    <2>2. Append(agg.order, c) \in Seq(Calls) /\ IsInjective(Append(agg.order, c))
      BY <1>2, <2>1, OrderedIs
    <2> DEFINE a == Append(agg.order, c)
    <2> HIDE DEF a
    <2>3. h = [order |-> a, args |-> agg.args, named |-> agg.named \union {c}, active |-> c]
      BY Zenon DEF Begins, a
    <2>4. a \in Seq(Calls) /\ IsInjective(a)
      BY <2>2 DEF a
    <2> HIDE DEF h
    <2>5. h \in Aggs
      BY <1>2, <2>3, <2>4 DEF Aggs
    <2> QED
      BY <2>1, <2>3, <2>4, <2>5 DEF AggType
  <1>6. g = [order |-> Append(agg.order, c),
             args |-> [agg.args EXCEPT ![c] = agg.args[c] \o piece],
             named |-> agg.named \union {c}, active |-> c]
    BY <1>5, Zenon DEF FrameAgg
  <1> HIDE DEF g
  <1>7. g = Extends(h, c, piece)
    <2> DEFINE a == Append(agg.order, c)
               x == [agg.args EXCEPT ![c] = agg.args[c] \o piece]
               N == agg.named \union {c}
    <2>1. x = [agg.args EXCEPT ![c] = agg.args[c] \o piece]
      OBVIOUS
    <2>2. h = [order |-> a, args |-> agg.args, named |-> N, active |-> c]
      BY Zenon DEF Begins
    <2>3. h.args = agg.args
      BY <2>2
    <2> HIDE DEF h, x, a, N
    <2>4. Extends(h, c, piece) = [h EXCEPT !.args = x]
      BY <2>1, <2>3, Zenon DEF Extends
    <2>5. [h EXCEPT !.args = x] = [order |-> a, args |-> x, named |-> N, active |-> c]
      BY <2>2
    <2> QED
      BY <1>6, <2>4, <2>5, Zenon DEF a, x, N
  <1>8. Close(out, g) = r
    <2>1. CASE out.kind = "fc"
      <3>1. g.args = [agg.args EXCEPT ![c] = agg.args[c] \o piece] /\ out.fc.call \in Calls
        <4>1. out.fc.call \in Calls
          BY <1>1, <2>1 DEF OutType
        <4> QED
          BY <1>6, <4>1
      <3>2. g.args[out.fc.call] = agg.args[out.fc.call]
        BY <1>2, <1>3, <3>1
      <3>3. OpenBody(out, g) = OpenBody(out, agg)
        BY <2>1, <3>2, OpenBodyIs
      <3> QED
        BY <3>3, Zenon DEF Close
    <2>2. CASE out.kind # "fc"
      <3>1. out.kind \in {"none", "reasoning", "message"}
        BY <1>1, <2>2 DEF OutType, Outs
      <3>2. out.kind # "none" => OpenBody(out, g) = OpenBody(out, agg)
        BY <3>1, OpenBodyIs
      <3> QED
        BY <3>2, Zenon DEF Close
    <2> QED
      BY <2>1, <2>2
  <1>9. OutType(r, n) /\ r.kind = "none" /\ r.idx = out.idx
    BY <1>1, CloseType
  <1>10. Streaming(r, agg, think, text)
    BY <1>1, CloseStreaming
  <1>11. FrameFc(c, g) = BeginFc(r, c)
    <2>1. c \in g.named
      BY <1>6
    <2> HIDE DEF r
    <2>2. (c \in Custom /\ c \in g.named) = (c \in Custom)
      BY <2>1
    <2> QED
      BY <1>9, <2>2, Zenon DEF FrameFc, BeginFc
  <1> HIDE DEF r, h
  <1>12. /\ Streaming(s, h, think, text) /\ s.kind = "fc" /\ s.fc = BeginFc(r, c)
    BY <1>1, <1>9, <1>10, OpenCallStreaming DEF h
  <1>13. OutType(s, n + 1) /\ s.fc.call = c
    <2> DEFINE f == BeginFc(r, c)
               b == c \in Custom
    <2>1. FcId(r.idx + 1) \in Ids
      <3>1. r.idx \in 0 .. n
        BY <1>9 DEF OutType, Outs
      <3>2. r.idx + 1 \in 1 .. MaxEvents
        BY <1>1, <3>1, Constants
      <3> QED
        BY <3>2, Constants
    <2>2. b \in BOOLEAN
      OBVIOUS
    <2> HIDE DEF b
    <2>3. f = [id |-> FcId(r.idx + 1), call |-> c, custom |-> b]
      BY Zenon DEF BeginFc, b
    <2> HIDE DEF f
    <2>4. f \in Fcs /\ f.id \in Ids /\ f.call = c
      BY <2>1, <2>2, <2>3 DEF Fcs
    <2>5. f # NoFc
      BY <2>4, Constants DEF NoFc
    <2>6. OutType(Open(r, "fc", f), n + 1)
      BY <1>1, <1>9, <2>4, <2>5, OpenType
    <2> QED
      BY <1>12, <2>4, <2>6 DEF f
  <1> HIDE DEF s
  <1>14. /\ Streaming(ToolDelta(s, piece), Extends(h, s.fc.call, piece), think, text)
         /\ ToolDelta(s, piece).kind = "fc"
    BY <1>1, <1>5, <1>12, <1>13, ToolDeltaStreaming
  <1> QED
    BY <1>4, <1>7, <1>8, <1>11, <1>13, <1>14, Zenon DEF s, g

\* A later frame of the call goes to its open item.
LEMMA NextFrameStreaming ==
  ASSUME TypeInv, NEW c \in Calls, c \in ToSet(agg.order),
         agg.active = c, out.kind = "fc", Streaming(out, agg, think, text),
         NEW piece \in Texts, agg.args[c] \o piece \in Texts
  PROVE  /\ ~Opens(out, c, FALSE)
         /\ Streaming(ToolDelta(out, piece), FrameAgg(c, FALSE, piece), think, text)
         /\ ToolDelta(out, piece).kind = "fc"
  <1>1. /\ n \in 0 .. MaxEvents /\ OutType(out, n) /\ AggType(agg) /\ agg \in Aggs
        /\ agg.order \in Seq(Calls) /\ IsInjective(agg.order)
    BY TypedParts DEF TypeInv, AggType, Aggs
  <1>2. out.fc # NoFc
    BY <1>1 DEF OutType
  <1>3. ~Opens(out, c, FALSE)
    BY <1>2 DEF Opens
  <1>4. agg.order # <<>>
    BY <1>1 DEF ToSet
  <1>5. out.fc.call = c
    BY <1>4 DEF Streaming, CallsInTurn
  <1>6. FrameAgg(c, FALSE, piece) = Extends(agg, c, piece)
    <2> DEFINE x == [agg.args EXCEPT ![c] = agg.args[c] \o piece]
    <2>1. Ordered(agg.order, c) = agg.order
      BY <1>1, OrderedIs DEF Ordered
    <2>2. x = [agg.args EXCEPT ![c] = agg.args[c] \o piece]
      OBVIOUS
    <2> HIDE DEF x
    <2>3. FrameAgg(c, FALSE, piece) = [order |-> agg.order, args |-> x, named |-> agg.named, active |-> c]
      BY <2>1, Zenon DEF FrameAgg, x
    <2>4. Extends(agg, c, piece) = [agg EXCEPT !.args = x]
      BY <2>2, Zenon DEF Extends
    <2>5. [agg EXCEPT !.args = x]
            = [order |-> agg.order, args |-> x, named |-> agg.named, active |-> c]
      BY <1>1 DEF Aggs
    <2> QED
      BY <2>3, <2>4, <2>5, Zenon
  <1>7. /\ Streaming(ToolDelta(out, piece), Extends(agg, out.fc.call, piece), think, text)
        /\ ToolDelta(out, piece).kind = "fc"
    BY <1>1, ToolDeltaStreaming
  <1> QED
    BY <1>3, <1>5, <1>6, <1>7, Zenon

\* A tool-call frame.
LEMMA FrameStreaming ==
  ASSUME ItemsInv, Interleaved = FALSE,
         NEW c \in Calls, NEW id \in {c, NoCall}, NEW name \in BOOLEAN,
         NEW piece \in NewPieces(c) \union EchoPieces(c), Calling(c, id, name, piece)
  PROVE  Streaming(out', agg', think', text') /\ Begun(out', think', text')
  <1>1. TypeInv /\ Heard /\ Streaming(out, agg, think, text) /\ Begun(out, think, text)
    BY DEF ItemsInv
  <1>0. PICK d \in {<<>>, << 0 >>, <<n + 1>>} : FrameDoes(c, name, d)
    BY <1>1, FrameIs
  <1>2. /\ n \in Nat /\ n + 1 <= MaxEvents /\ UNCHANGED <<text, think>>
        /\ d \in Upto(n + 1) /\ agg.args[c] \o d \in Upto(n + 1)
        /\ agg' = FrameAgg(c, name, d)
    BY <1>0, <1>1, FrameStep DEF FrameDoes
  <1>3. out' = ToolDelta(IF Opens(out, c, name /\ c \notin agg.named)
                         THEN Open(Close(out, agg'), "fc", FrameFc(c, agg')) ELSE out, d)
    BY <1>0 DEF FrameDoes
  <1>4. d \in Texts /\ agg.args[c] \o d \in Texts
    <2>1. n + 1 \in Nat
      BY <1>2
    <2> QED
      BY <1>2, <2>1, UptoProperties
  <1>5. InTurn(c, name)
    BY DEF Calling
  <1>6. /\ name <=> c \notin ToSet(agg.order)
        /\ c \in ToSet(agg.order) => agg.active = c /\ out.kind = "fc"
    <2>1. Contains(agg.order, c) <=> c \in ToSet(agg.order)
      BY <1>1, OrderedIs DEF TypeInv, AggType, Aggs
    <2> QED
      BY <1>5, <2>1 DEF InTurn
  <1>7. agg.named = ToSet(agg.order)
    BY <1>1 DEF Streaming, CallsInTurn
  <1>8. CASE c \notin ToSet(agg.order)
    <2> DEFINE g == FrameAgg(c, TRUE, d)
               s == Open(Close(out, g), "fc", FrameFc(c, g))
    <2>1. /\ Opens(out, c, TRUE) /\ Streaming(ToolDelta(s, d), g, think, text)
          /\ ToolDelta(s, d).kind = "fc"
      BY <1>1, <1>2, <1>4, <1>8, FirstFrameStreaming
    <2>2. name = TRUE /\ (name /\ c \notin agg.named) = TRUE
      BY <1>6, <1>7, <1>8
    <2>3. agg' = g
      BY <1>2, <2>2
    <2> HIDE DEF g
    <2>4. out' = ToolDelta(s, d)
      BY <1>3, <2>1, <2>2, <2>3, Zenon
    <2> HIDE DEF s
    <2> QED
      BY <1>2, <2>1, <2>3, <2>4 DEF Begun
  <1>9. CASE c \in ToSet(agg.order)
    <2> DEFINE g == FrameAgg(c, FALSE, d)
               s == ToolDelta(out, d)
    <2>1. /\ ~Opens(out, c, FALSE) /\ Streaming(s, g, think, text) /\ s.kind = "fc"
      BY <1>1, <1>2, <1>4, <1>6, <1>9, NextFrameStreaming
    <2>2. name = FALSE /\ (name /\ c \notin agg.named) = FALSE
      BY <1>6, <1>9
    <2>3. agg' = g
      BY <1>2, <2>2
    <2> HIDE DEF g
    <2>4. out' = s
      BY <1>3, <2>1, <2>2, Zenon
    <2> HIDE DEF s
    <2> QED
      BY <1>2, <2>1, <2>3, <2>4 DEF Begun
  <1> QED
    BY <1>8, <1>9

-----------------------------------------------------------------------------
(* The invariant *)

\* Init.
LEMMA InitItems == Init => ItemsInv
  <1> SUFFICES ASSUME Init PROVE ItemsInv
    OBVIOUS
  <1>1. TypeInv /\ Heard
    BY InitTypes
  <1>2. /\ out = [kind |-> "none", idx |-> 0, fc |-> NoFc, fcItems |-> <<>>, wire |-> <<>>]
        /\ agg = [order |-> <<>>, args |-> said, named |-> {}, active |-> NoCall]
        /\ said = [c \in Calls |-> <<>>] /\ text = <<>> /\ think = <<>> /\ pc = "open"
    BY DEF Init
  <1>3. out.kind = "none" /\ out.fc = NoFc /\ out.fcItems = <<>> /\ out.wire = <<>>
    BY <1>2
  <1>4. agg.order = <<>> /\ agg.named = {} /\ \A c \in Calls : agg.args[c] = <<>>
    BY <1>2
  <1>5. \A id : Whole(out.wire, id) = <<>>
    BY <1>3, JoinedZero DEF Whole
  <1>6. CallsInTurn(out, agg) /\ ItemsMatch(out, agg) /\ IdsFresh(out)
    BY <1>3, <1>4 DEF CallsInTurn, ItemsMatch, IdsFresh, ToSet
  <1>7. AllStreamed(out, agg, think, text) /\ Reported(out, think, text)
        /\ AllNamed(out, think, text)
    BY <1>2, <1>3, <1>5 DEF AllStreamed, Reported, AllNamed
  <1>8. DonesStreamed(out.wire) /\ Bracketed(out.wire) /\ LastEvent(out)
    BY <1>3 DEF DonesStreamed, Bracketed, LastEvent
  <1>9. Ended /\ Begun(out, think, text)
    BY <1>2, <1>3 DEF Ended, Begun
  <1> QED
    BY <1>1, <1>6, <1>7, <1>8, <1>9 DEF ItemsInv, Streaming

\* Closing in any state.
LEMMA ClosedStreaming ==
  ASSUME ItemsInv
  PROVE  /\ Streaming(Close(out, agg), agg, think, text) /\ Close(out, agg).kind = "none"
         /\ Begun(Close(out, agg), think, text)
  <1>1. /\ n \in 0 .. MaxEvents /\ OutType(out, n) /\ AggType(agg) /\ agg \in Aggs
        /\ think \in Texts /\ text \in Texts
        /\ Streaming(out, agg, think, text) /\ Begun(out, think, text)
    BY TypedParts DEF ItemsInv, TypeInv
  <1>2. Close(out, agg).kind = "none"
    BY <1>1, CloseType
  <1>3. Streaming(Close(out, agg), agg, think, text)
    BY <1>1, CloseStreaming
  <1> QED
    BY <1>2, <1>3 DEF Begun

\* Every step of an upstream that finishes a call before the next item.
LEMMA NextItems ==
  ASSUME Interleaved = FALSE, ItemsInv, [Next]_vars
  PROVE  ItemsInv'
  <1>1. TypeInv' /\ Heard'
    BY NextTypes DEF ItemsInv
  <1>2. CASE Thinks
    <2>1. Ended'
      BY <1>2 DEF Thinks, Arrives, Ended
    <2> QED
      BY <1>1, <1>2, <2>1, ThinksStreaming DEF ItemsInv
  <1>3. CASE Says
    <2>1. Ended'
      BY <1>3 DEF Says, Arrives, Ended
    <2> QED
      BY <1>1, <1>3, <2>1, SaysStreaming DEF ItemsInv
  <1>4. CASE ToolFrame
    <2>1. PICK c \in Calls, name \in BOOLEAN :
            \E id \in {c, NoCall} :
              \E piece \in NewPieces(c) \union EchoPieces(c) :
                Calling(c, id, name, piece)
      BY <1>4, Zenon DEF ToolFrame
    <2>2. PICK id \in {c, NoCall} :
            \E piece \in NewPieces(c) \union EchoPieces(c) :
              Calling(c, id, name, piece)
      BY <2>1, Zenon
    <2>3. PICK piece \in NewPieces(c) \union EchoPieces(c) :
            Calling(c, id, name, piece)
      BY <2>2, Zenon
    <2>4. pc = "open" /\ pc' = pc
      BY <2>3, Zenon DEF Calling, Arrives
    <2>5. Ended'
      BY <2>4 DEF Ended
    <2>6. Streaming(out', agg', think', text') /\ Begun(out', think', text')
      BY <2>3, FrameStreaming
    <2> QED
      BY <1>1, <2>5, <2>6 DEF ItemsInv
  <1>5. CASE Completes
    <2>1. /\ out' = Close(out, agg) /\ UNCHANGED <<agg, think, text>>
          /\ final' = WithStreamedIds(OutputItems(agg), out'.fcItems)
      BY <1>5, Zenon DEF Completes
    <2>2. Streaming(out', agg', think', text') /\ Begun(out', think', text') /\ out'.kind = "none"
      BY <2>1, ClosedStreaming
    <2>3. OutputItems(agg)' = OutputItems(agg)
      BY <2>1, Zenon DEF OutputItems
    <2>4. Ended'
      BY <2>1, <2>2, <2>3, Zenon DEF Ended
    <2> QED
      BY <1>1, <2>2, <2>4 DEF ItemsInv
  <1>6. CASE Fails \/ Raises \/ ClientLeaves
    <2>1. /\ UNCHANGED <<agg, think, text>> /\ pc' \in {"failed", "broken", "left"}
          /\ \/ out' = Close(out, agg)
             \/ out' = out /\ pc' # "failed"
      BY <1>6 DEF Fails, Raises, ClientLeaves
    <2>2. Streaming(out', agg', think', text') /\ Begun(out', think', text')
      BY <2>1, ClosedStreaming DEF ItemsInv
    <2>3. pc' = "failed" => out'.kind = "none"
      BY <2>1, ClosedStreaming
    <2>4. Ended'
      BY <2>1, <2>3 DEF Ended
    <2> QED
      BY <1>1, <2>2, <2>4 DEF ItemsInv
  <1>7. CASE UNCHANGED vars
    <2>1. UNCHANGED <<agg, text, think, out, final, pc>>
      BY <1>7 DEF vars
    <2>2. OutputItems(agg)' = OutputItems(agg)
      BY <2>1, Zenon DEF OutputItems
    <2>3. Ended'
      BY <2>1, <2>2, Zenon DEF Ended, ItemsInv
    <2>4. Streaming(out', agg', think', text') /\ Begun(out', think', text')
      BY <2>1 DEF ItemsInv
    <2> QED
      BY <1>1, <2>3, <2>4 DEF ItemsInv
  <1> QED
    BY <1>2, <1>3, <1>4, <1>5, <1>6, <1>7 DEF Next

-----------------------------------------------------------------------------
(* What it says of a response *)

\* A response that completed: every call has its item.
LEMMA CompletedShape ==
  ASSUME ItemsInv, pc = "completed"
  PROVE  LET k == Len(agg.order)
             fs == out.fcItems
         IN  /\ k \in Nat /\ Lead \in {0, 1} /\ Trail(agg) \in {0, 1}
             /\ out.kind = "none" /\ DOMAIN fs = 1 .. k /\ fs \in Seq(FcItems)
             /\ DOMAIN final = 1 .. Lead + k + Trail(agg)
             /\ Lead = 1 => final[1] = Reasoning(RsId)
             /\ \A i \in 1 .. k : final[Lead + i] = fs[i]
             /\ Trail(agg) = 1 => final[Lead + k + 1] = Message(MsgId)
             /\ \A i \in 1 .. Lead + k + Trail(agg) :
                  (i = 1 /\ Lead = 1) \/ (i = Lead + k + 1 /\ Trail(agg) = 1) \/ i - Lead \in 1 .. k
  <1> DEFINE k == Len(agg.order)
             fs == out.fcItems
  <1>1. /\ agg \in Aggs /\ fs \in Seq(FcItems) /\ out.kind = "none" /\ k \in Nat
    BY TypedParts DEF ItemsInv, OutType, Outs, Ended, Aggs
  <1>2. Lead \in {0, 1} /\ Trail(agg) \in {0, 1}
    BY DEF Lead, Trail
  <1>3. k = Len(fs) /\ DOMAIN fs = 1 .. k
    BY <1>1 DEF ItemsInv, Streaming, ItemsMatch
  <1>4. final = WithStreamedIds(OutputItems(agg), fs)
    BY DEF ItemsInv, Ended
  <1>5. /\ DOMAIN final = 1 .. Lead + k + Trail(agg)
        /\ Lead = 1 => final[1] = Reasoning(RsId)
        /\ \A i \in 1 .. k : final[Lead + i] = IF i <= Len(fs) THEN fs[i] ELSE AnswerCall(agg, i)
        /\ Trail(agg) = 1 => final[Lead + k + 1] = Message(MsgId)
    BY <1>1, <1>4, StreamedShape
  <1>6. \A i \in 1 .. k : final[Lead + i] = fs[i]
    BY <1>1, <1>3, <1>5
  <1>7. \A i \in 1 .. Lead + k + Trail(agg) :
          (i = 1 /\ Lead = 1) \/ (i = Lead + k + 1 /\ Trail(agg) = 1) \/ i - Lead \in 1 .. k
    BY <1>1, <1>2
  <1> QED
    BY <1>1, <1>2, <1>3, <1>5, <1>6, <1>7, Zenon

\* The wire and the open item.
LEMMA InvBracketed == ItemsInv => WellBracketed
  <1> SUFFICES ASSUME ItemsInv PROVE WellBracketed
    OBVIOUS
  <1>1. Bracketed(out.wire)
    BY DEF ItemsInv, Streaming
  <1>2. pc \in {"completed", "failed"} => out.wire = <<>> \/ Last(out.wire).type = "done"
    BY DEF ItemsInv, Streaming, LastEvent, Ended
  <1> QED
    BY <1>1, <1>2, Zenon DEF WellBracketed, Bracketed

\* The wire is its own record.
LEMMA InvDone == ItemsInv => DoneIsStreamed
  <1> SUFFICES ASSUME ItemsInv PROVE DoneIsStreamed
    OBVIOUS
  <1>1. DonesStreamed(out.wire)
    BY DEF ItemsInv, Streaming
  <1>2. \A id, k : Streamed(id, k) = Joined(out.wire, id, k)
    BY Zenon DEF Streamed, Joined
  <1> QED
    BY <1>1, <1>2, Zenon DEF DoneIsStreamed, DonesStreamed

\* Item by item, the streamed answer is output_items with other ids.
LEMMA InvTransports == ItemsInv => TransportsAgree
  <1> SUFFICES ASSUME ItemsInv, pc = "completed"
               PROVE  LET Content(items) == [i \in DOMAIN items |-> [items[i] EXCEPT !.id = Fresh]]
                      IN  Content(final) = Content(OutputItems(agg))
    BY DEF TransportsAgree
  <1> DEFINE k == Len(agg.order)
             fs == out.fcItems
             items == OutputItems(agg)
             top == Lead + k + Trail(agg)
             blank(x) == [x EXCEPT !.id = Fresh]
  <1>1. /\ k \in Nat /\ Lead \in {0, 1} /\ Trail(agg) \in {0, 1}
        /\ out.kind = "none" /\ DOMAIN fs = 1 .. k /\ fs \in Seq(FcItems)
        /\ DOMAIN final = 1 .. top
        /\ Lead = 1 => final[1] = Reasoning(RsId)
        /\ \A i \in 1 .. k : final[Lead + i] = fs[i]
        /\ Trail(agg) = 1 => final[Lead + k + 1] = Message(MsgId)
        /\ \A i \in 1 .. top :
             (i = 1 /\ Lead = 1) \/ (i = Lead + k + 1 /\ Trail(agg) = 1) \/ i - Lead \in 1 .. k
    BY CompletedShape
  <1>2. agg \in Aggs
    BY TypedParts DEF ItemsInv
  <1>3. /\ DOMAIN items = 1 .. top
        /\ Lead = 1 => items[1] = Reasoning(Fresh)
        /\ \A i \in 1 .. k : items[Lead + i] = AnswerCall(agg, i)
        /\ Trail(agg) = 1 => items[Lead + k + 1] = Message(Fresh)
    BY <1>2, AnswerShape
  <1>4. /\ agg.named = ToSet(agg.order)
        /\ \A i \in DOMAIN fs : /\ fs[i].call = agg.order[i]
                                /\ fs[i].body = CallBody(agg.args[agg.order[i]], agg.order[i] \in Custom)
    BY DEF ItemsInv, Streaming, CallsInTurn, ItemsMatch
  <1>5. ASSUME NEW i \in 1 .. k PROVE blank(fs[i]) = blank(AnswerCall(agg, i))
    <2> DEFINE c == agg.order[i]
               b == CallBody(agg.args[c], c \in Custom)
    <2>1. c \in agg.named
      BY <1>1, <1>2, <1>4 DEF Aggs, ToSet
    <2>2. AnswerCall(agg, i) = Item("call", Fresh, c, b)
      <3>1. (c \in Custom /\ c \in agg.named) = (c \in Custom)
        BY <2>1
      <3> QED
        BY <3>1, Zenon DEF AnswerCall
    <2>3. fs[i].call = c /\ fs[i].body = b /\ fs[i] \in FcItems
      BY <1>1, <1>4
    <2> HIDE DEF b, c
    <2>4. blank(fs[i]) = Item("call", Fresh, c, b)
      <3> DEFINE x == fs[i]
      <3>1. x.call = c /\ x.body = b /\ x \in FcItems
        BY <2>3
      <3> HIDE DEF x
      <3>2. [x EXCEPT !.id = Fresh] = [type |-> "call", id |-> Fresh, call |-> c, body |-> b]
        BY <3>1 DEF FcItems
      <3> QED
        BY <3>2, Zenon DEF Item, x
    <2>5. blank(Item("call", Fresh, c, b)) = Item("call", Fresh, c, b)
      BY DEF Item
    <2> QED
      BY <2>2, <2>4, <2>5, Zenon
  <1>6. blank(Reasoning(RsId)) = blank(Reasoning(Fresh)) /\ blank(Message(MsgId)) = blank(Message(Fresh))
    BY DEF Reasoning, Message, Item
  <1>7. ASSUME NEW i \in 1 .. top PROVE blank(final[i]) = blank(items[i])
    <2> HIDE DEF items, fs, k, blank
    <2>1. CASE i = 1 /\ Lead = 1
      BY <1>1, <1>3, <1>6, <2>1, Zenon
    <2>2. CASE i = Lead + k + 1 /\ Trail(agg) = 1
      BY <1>1, <1>3, <1>6, <2>2, Zenon
    <2>3. CASE i - Lead \in 1 .. k
      <3> DEFINE j == i - Lead
      <3>1. Lead + j = i
        BY <1>1
      <3> HIDE DEF j
      <3>2. j \in 1 .. k
        BY <2>3 DEF j
      <3>3. final[i] = fs[j] /\ items[i] = AnswerCall(agg, j)
        BY <1>1, <1>3, <3>1, <3>2, Zenon
      <3> QED
        BY <1>5, <3>2, <3>3, Zenon
    <2> QED
      BY <1>1, <2>1, <2>2, <2>3, Zenon
  <1> HIDE DEF items, top
  <1>8. [i \in DOMAIN final |-> blank(final[i])] = [i \in DOMAIN items |-> blank(items[i])]
    <2> HIDE DEF blank
    <2> QED
      BY <1>1, <1>3, <1>7
  <1> QED
    BY <1>8, Zenon DEF items

\* What is not open was reported as it is, and nothing is open.
LEMMA InvFinal == ItemsInv => FinalIsStreamed
  <1> DEFINE Done(id) == {k \in DOMAIN out.wire :
                            out.wire[k].type = "done" /\ out.wire[k].id = id}
             reported(i) == \E k \in Done(final[i].id) :
                              /\ \A m \in Done(final[i].id) : m <= k
                              /\ out.wire[k].body = final[i].body
  <1> SUFFICES ASSUME ItemsInv, pc = "completed"
               PROVE  /\ \A i \in DOMAIN final :
                           final[i].body.pieces # <<>> \/ final[i].type = "call" => reported(i)
                      /\ \A k \in DOMAIN out.wire : \E i \in DOMAIN final : final[i].id = out.wire[k].id
    BY Zenon DEF FinalIsStreamed
  <1> DEFINE k == Len(agg.order)
             fs == out.fcItems
             top == Lead + k + Trail(agg)
  <1>1. /\ k \in Nat /\ Lead \in {0, 1} /\ Trail(agg) \in {0, 1}
        /\ out.kind = "none" /\ DOMAIN fs = 1 .. k /\ fs \in Seq(FcItems)
        /\ DOMAIN final = 1 .. top
        /\ Lead = 1 => final[1] = Reasoning(RsId)
        /\ \A i \in 1 .. k : final[Lead + i] = fs[i]
        /\ Trail(agg) = 1 => final[Lead + k + 1] = Message(MsgId)
        /\ \A i \in 1 .. top :
             (i = 1 /\ Lead = 1) \/ (i = Lead + k + 1 /\ Trail(agg) = 1) \/ i - Lead \in 1 .. k
    BY CompletedShape
  <1>2. /\ think # <<>> => LastDone(out.wire, RsId, Plain(think))
        /\ text # <<>> => LastDone(out.wire, MsgId, Plain(text))
        /\ \A j \in DOMAIN fs : LastDone(out.wire, fs[j].id, fs[j].body)
    BY <1>1 DEF ItemsInv, Streaming, Reported
  <1>3. /\ Reasoning(RsId).id = RsId /\ Reasoning(RsId).body = Plain(think)
        /\ Message(MsgId).id = MsgId /\ Message(MsgId).body = Plain(text)
        /\ Message(MsgId).type # "call" /\ Plain(text).pieces = text
    BY DEF Reasoning, Message, Item, Plain
  <1>4. ASSUME NEW i, LastDone(out.wire, final[i].id, final[i].body) PROVE reported(i)
    <2>1. PICK x \in DOMAIN out.wire :
            /\ out.wire[x].type = "done" /\ out.wire[x].id = final[i].id
            /\ out.wire[x].body = final[i].body
            /\ \A m \in DOMAIN out.wire :
                 out.wire[m].type = "done" /\ out.wire[m].id = final[i].id => m <= x
      BY <1>4, Zenon DEF LastDone
    <2> QED
      BY <2>1, Zenon
  <1> HIDE DEF reported
  <1>5. ASSUME NEW i \in DOMAIN final, final[i].body.pieces # <<>> \/ final[i].type = "call"
        PROVE  reported(i)
    <2>1. CASE i = 1 /\ Lead = 1
      <3>1. think # <<>>
        BY <2>1 DEF Lead
      <3> QED
        BY <1>1, <1>2, <1>3, <1>4, <2>1, <3>1
    <2>2. CASE i = Lead + k + 1 /\ Trail(agg) = 1
      <3>1. final[i] = Message(MsgId)
        BY <1>1, <2>2
      <3>2. text # <<>>
        BY <1>3, <1>5, <3>1
      <3> QED
        BY <1>2, <1>3, <1>4, <3>1, <3>2
    <2>3. CASE i - Lead \in 1 .. k
      <3>1. final[i] = fs[i - Lead]
        <4>1. Lead + (i - Lead) = i
          BY <1>1
        <4> QED
          BY <1>1, <2>3, <4>1
      <3> QED
        BY <1>1, <1>2, <1>4, <2>3, <3>1
    <2> QED
      BY <1>1, <2>1, <2>2, <2>3
  <1>6. ASSUME NEW x \in DOMAIN out.wire PROVE \E i \in DOMAIN final : final[i].id = out.wire[x].id
    <2> DEFINE id == out.wire[x].id
    <2>1. \/ id = RsId /\ think # <<>>
          \/ id = MsgId /\ text # <<>>
          \/ \E j \in DOMAIN fs : id = fs[j].id
      BY <1>1 DEF ItemsInv, Streaming, AllNamed, Named
    <2>2. CASE id = RsId /\ think # <<>>
      <3>1. Lead = 1 /\ 1 \in DOMAIN final
        BY <1>1, <2>2 DEF Lead
      <3> QED
        BY <1>1, <1>3, <2>2, <3>1
    <2>3. CASE id = MsgId /\ text # <<>>
      <3>1. Trail(agg) = 1
        BY <2>3 DEF Trail
      <3>2. Lead + k + 1 \in DOMAIN final
        BY <1>1, <3>1
      <3> QED
        BY <1>1, <1>3, <2>3, <3>1, <3>2
    <2>4. CASE \E j \in DOMAIN fs : id = fs[j].id
      <3>1. PICK j \in DOMAIN fs : id = fs[j].id
        BY <2>4
      <3>2. Lead + j \in DOMAIN final /\ final[Lead + j] = fs[j]
        BY <1>1, <3>1
      <3> QED
        BY <3>1, <3>2
    <2> QED
      BY <2>1, <2>2, <2>3, <2>4
  <1> QED
    BY <1>5, <1>6

-----------------------------------------------------------------------------
(* Theorems *)

\* The inductive invariant.
LEMMA ItemsInvariant == ASSUME Interleaved = FALSE PROVE Spec => []ItemsInv
  <1>1. Init => ItemsInv
    BY InitItems
  <1>2. ItemsInv /\ [Next]_vars => ItemsInv'
    BY NextItems
  <1> QED
    BY <1>1, <1>2, PTL DEF Spec

\* Every event the client sees is inside an item that was added before and is
\* done after it, and a response that completed or failed has ended its items.
THEOREM ItemsWellBracketed == ASSUME Interleaved = FALSE PROVE Spec => []WellBracketed
  BY ItemsInvariant, InvBracketed, PTL

\* The content a done event reports is what its deltas joined give.
THEOREM ItemsDoneIsStreamed == ASSUME Interleaved = FALSE PROVE Spec => []DoneIsStreamed
  BY ItemsInvariant, InvDone, PTL

\* Every item of response.completed has the id and the content of the last
\* done event of that id, and everything streamed is in the answer.
THEOREM ItemsFinalIsStreamed == ASSUME Interleaved = FALSE PROVE Spec => []FinalIsStreamed
  BY ItemsInvariant, InvFinal, PTL

\* A streamed response answers, and stores, what the same events give without
\* streaming.
THEOREM ItemsTransportsAgree == ASSUME Interleaved = FALSE PROVE Spec => []TransportsAgree
  BY ItemsInvariant, InvTransports, PTL
=============================================================================
