------------------------ MODULE ConnectFramesProofs ------------------------
(***************************************************************************)
(* Theorems about ConnectFrames, for any payloads, any series of frames    *)
(* and any way the network cuts it into reads.                             *)
(***************************************************************************)
EXTENDS ConnectFrames, SequenceTheorems, TLAPS

\* What ties the reader to the wire: `pending` is what has arrived behind the
\* frames taken.
Aligned == /\ offset[handled] <= arrived
           /\ pending = SubSeq(wire, offset[handled] + 1, arrived)
EndedByTrailer == ended <=> \E i \in 1..handled : IsTrailer(frames[i])
PcInv == /\ pc = "connect" => handled = 0 /\ arrived = 0 /\ out = <<>>
         /\ pc = "done" <=> verdict # "open"
ReaderInv == TypeOK /\ Laid /\ Aligned /\ EndedByTrailer /\ PcInv /\ InTime

\* The bytes between two places of the wire.
LEMMA WirePart ==
  ASSUME wire \in Seq(Byte), NEW a \in Nat, NEW c \in 0..Len(wire), a <= c
  PROVE  /\ SubSeq(wire, a + 1, c) \in Seq(Byte)
         /\ Len(SubSeq(wire, a + 1, c)) = c - a
         /\ \A i \in 1..(c - a) : SubSeq(wire, a + 1, c)[i] = wire[a + i]
  <1>1. \A i \in (a + 1)..c : wire[i] \in Byte
    BY ElementOfSeq
  <1> QED
    BY <1>1, SubSeqProperties

LEMMA WireSplit ==
  ASSUME wire \in Seq(Byte), NEW a \in Nat, NEW b \in Nat, NEW c \in 0..Len(wire), a <= b, b <= c
  PROVE  SubSeq(wire, a + 1, b) \o SubSeq(wire, b + 1, c) = SubSeq(wire, a + 1, c)
  <1> DEFINE x == SubSeq(wire, a + 1, b)
             y == SubSeq(wire, b + 1, c)
             z == SubSeq(wire, a + 1, c)
  <1>1. /\ x \in Seq(Byte) /\ Len(x) = b - a /\ \A i \in 1..(b - a) : x[i] = wire[a + i]
        /\ y \in Seq(Byte) /\ Len(y) = c - b /\ \A i \in 1..(c - b) : y[i] = wire[b + i]
        /\ z \in Seq(Byte) /\ Len(z) = c - a /\ \A i \in 1..(c - a) : z[i] = wire[a + i]
    BY WirePart
  <1> HIDE DEF x, y, z
  <1>2. x \o y \in Seq(Byte) /\ Len(x \o y) = c - a
    <2>1. x \o y \in Seq(Byte) /\ Len(x \o y) = Len(x) + Len(y)
      BY <1>1, ConcatProperties
    <2>2. (b - a) + (c - b) = c - a
      OBVIOUS
    <2> QED
      BY <1>1, <2>1, <2>2
  <1>3. \A i \in 1..(c - a) : (x \o y)[i] = z[i]
    <2> SUFFICES ASSUME NEW i \in 1..(c - a) PROVE (x \o y)[i] = z[i]
      OBVIOUS
    <2>1. (x \o y)[i] = IF i <= b - a THEN x[i] ELSE y[i - (b - a)]
      BY <1>1, ConcatProperties
    <2>2. CASE i <= b - a
      BY <1>1, <2>1, <2>2
    <2>3. CASE ~(i <= b - a)
      <3>1. i - (b - a) \in 1..(c - b) /\ b + (i - (b - a)) = a + i
        BY <2>3
      <3> QED
        BY <1>1, <2>1, <2>3, <3>1
    <2> QED
      BY <2>2, <2>3
  <1>4. x \o y = z
    BY <1>1, <1>2, <1>3, SeqEqual
  <1> QED
    BY <1>4 DEF x, y, z

\* A part of what is pending is a part of the wire.
LEMMA WireWithin ==
  ASSUME wire \in Seq(Byte), NEW a \in Nat, NEW c \in 0..Len(wire), a <= c,
         NEW m \in Nat, NEW n \in Nat, m <= n, n <= c - a
  PROVE  SubSeq(SubSeq(wire, a + 1, c), m + 1, n) = SubSeq(wire, a + m + 1, a + n)
  <1> DEFINE z == SubSeq(wire, a + 1, c)
             x == SubSeq(z, m + 1, n)
             y == SubSeq(wire, a + m + 1, a + n)
  <1>1. z \in Seq(Byte) /\ Len(z) = c - a /\ \A i \in 1..(c - a) : z[i] = wire[a + i]
    BY WirePart
  <1>2. y \in Seq(Byte) /\ Len(y) = n - m /\ \A i \in 1..(n - m) : y[i] = wire[(a + m) + i]
    BY WirePart, a + m \in Nat, a + n \in 0..Len(wire)
  <1> HIDE DEF z
  <1>3. \A i \in (m + 1)..n : z[i] \in Byte
    BY <1>1, ElementOfSeq
  <1>4. x \in Seq(Byte) /\ Len(x) = n - m /\ \A i \in 1..(n - m) : x[i] = z[m + i]
    BY <1>3, SubSeqProperties
  <1> HIDE DEF x, y
  <1>5. \A i \in 1..(n - m) : x[i] = y[i]
    <2> SUFFICES ASSUME NEW i \in 1..(n - m) PROVE x[i] = y[i]
      OBVIOUS
    <2>1. m + i \in 1..(c - a) /\ a + (m + i) = (a + m) + i
      OBVIOUS
    <2> QED
      BY <1>1, <1>2, <1>4, <2>1
  <1>6. x = y
    BY <1>2, <1>4, <1>5, SeqEqual
  <1> QED
    BY <1>6 DEF x, y, z

LEMMA Wired ==
  ASSUME Laid
  PROVE  /\ frames \in Seq([flags : Byte, payload : Payloads]) /\ Len(frames) \in Nat
         /\ wire \in Seq(Byte) /\ Len(wire) \in Nat
         /\ offset \in [0..Len(frames) -> Nat]
         /\ offset[0] = 0 /\ offset[Len(frames)] = Len(wire)
  <1>1. /\ frames \in Seq([flags : Byte, payload : Payloads])
        /\ wire \in Seq(Byte)
        /\ offset \in [0..Len(frames) -> Nat]
        /\ offset[0] = 0 /\ offset[Len(frames)] = Len(wire)
    BY Zenon DEF Laid
  <1> QED
    BY <1>1

\* The place of frame k + 1 in the bytes.
LEMMA FramePlace ==
  ASSUME Laid, NEW k \in 0..(Len(frames) - 1)
  PROVE  /\ k + 1 \in 1..Len(frames)
         /\ offset[k] \in Nat /\ offset[k + 1] \in Nat
         /\ frames[k + 1].flags \in Byte /\ frames[k + 1].payload \in Payloads
         /\ Len(frames[k + 1].payload) \in Nat
         /\ offset[k + 1] = offset[k] + HeaderSize + Len(frames[k + 1].payload)
         /\ wire[offset[k] + 1] = frames[k + 1].flags
         /\ Length(<<wire[offset[k] + 2], wire[offset[k] + 3], wire[offset[k] + 4],
                     wire[offset[k] + 5]>>) = Len(frames[k + 1].payload)
         /\ SubSeq(wire, offset[k] + HeaderSize + 1, offset[k + 1]) = frames[k + 1].payload
  <1>1. Len(frames) \in Nat /\ k + 1 \in 1..Len(frames) /\ (k + 1) - 1 = k
    BY Wired
  <1>2. offset[k] \in Nat /\ offset[k + 1] \in Nat
    BY <1>1, Wired
  <1>3. frames[k + 1] \in [flags : Byte, payload : Payloads]
    BY <1>1, Wired, ElementOfSeq
  <1>4. frames[k + 1].payload \in Seq(Byte)
    BY <1>3, FramesAssumption
  <1>5. Len(frames[k + 1].payload) \in Nat
    BY <1>4
  <1> DEFINE Lies(i, o) ==
        /\ offset[i] = o + HeaderSize + Len(frames[i].payload)
        /\ wire[o + 1] = frames[i].flags
        /\ Length(<<wire[o + 2], wire[o + 3], wire[o + 4], wire[o + 5]>>)
             = Len(frames[i].payload)
        /\ SubSeq(wire, o + HeaderSize + 1, offset[i]) = frames[i].payload
  <1>6. \A i \in 1..Len(frames) : Lies(i, offset[i - 1])
    BY Zenon DEF Laid
  <1>7. Lies(k + 1, offset[k])
    <2> HIDE DEF Lies
    <2>1. Lies(k + 1, offset[(k + 1) - 1])
      BY <1>1, <1>6
    <2> QED
      BY <1>1, <2>1
  <1> QED
    BY <1>1, <1>2, <1>3, <1>5, <1>7

LEMMA FrameSpan ==
  ASSUME Laid, NEW k \in 0..(Len(frames) - 1)
  PROVE  /\ offset[k] \in Nat /\ offset[k + 1] \in Nat
         /\ Len(frames[k + 1].payload) \in Nat
         /\ offset[k + 1] = offset[k] + 5 + Len(frames[k + 1].payload)
  BY FramePlace DEF HeaderSize

\* What is pending: the bytes that arrived and belong to no frame taken.
LEMMA PendingBytes ==
  ASSUME TypeOK, Laid, Aligned
  PROVE  /\ wire \in Seq(Byte) /\ Len(wire) \in Nat /\ arrived \in 0..Len(wire)
         /\ Len(frames) \in Nat /\ handled \in 0..Len(frames)
         /\ offset[handled] \in Nat /\ offset[handled] <= arrived
         /\ Len(pending) = arrived - offset[handled]
         /\ \A i \in 1..Len(pending) : pending[i] = wire[offset[handled] + i]
  <1>1. wire \in Seq(Byte) /\ Len(wire) \in Nat /\ Len(frames) \in Nat
    BY Wired
  <1>2. arrived \in 0..Len(wire) /\ handled \in 0..Len(frames)
    BY DEF TypeOK
  <1>3. offset[handled] \in Nat
    BY <1>2, Wired
  <1>4. /\ offset[handled] <= arrived
        /\ Len(pending) = arrived - offset[handled]
        /\ \A i \in 1..(arrived - offset[handled]) : pending[i] = wire[offset[handled] + i]
    BY <1>1, <1>2, <1>3, WirePart DEF Aligned
  <1> QED
    BY <1>1, <1>2, <1>3, <1>4

\* A header that has arrived is that of the next frame.
LEMMA HeaderHere ==
  ASSUME TypeOK, Laid, Aligned, Len(pending) >= HeaderSize
  PROVE  /\ handled \in 0..(Len(frames) - 1)
         /\ pending[1] = frames[handled + 1].flags
         /\ LengthField(pending) = Len(frames[handled + 1].payload)
  <1>1. handled # Len(frames)
    BY PendingBytes, Wired DEF HeaderSize
  <1>2. handled \in 0..(Len(frames) - 1)
    BY <1>1, PendingBytes
  <1>3. /\ pending[1] = wire[offset[handled] + 1]
        /\ <<pending[2], pending[3], pending[4], pending[5]>>
             = <<wire[offset[handled] + 2], wire[offset[handled] + 3],
                 wire[offset[handled] + 4], wire[offset[handled] + 5]>>
    BY PendingBytes DEF HeaderSize
  <1> QED
    BY <1>2, <1>3, FramePlace DEF LengthField

\* The test of the inner loop finds the frames that have arrived, all of each.
LEMMA FrameHere ==
  ASSUME TypeOK, Laid, Aligned
  PROVE  HasFrame <=> handled \in 0..(Len(frames) - 1) /\ offset[handled + 1] <= arrived
  <1> DEFINE k == handled
             n == Len(frames[k + 1].payload)
  <1>1. /\ arrived \in Nat /\ offset[k] \in Nat /\ offset[k] <= arrived
        /\ Len(pending) = arrived - offset[k]
    BY PendingBytes
  <1>2. ASSUME k \in 0..(Len(frames) - 1)
        PROVE  /\ Len(pending) >= 5 + n <=> offset[k + 1] <= arrived
               /\ ~(Len(pending) >= 5) => ~(offset[k + 1] <= arrived)
    <2>1. n \in Nat /\ offset[k + 1] = offset[k] + 5 + n
      BY <1>2, FrameSpan
    <2> DEFINE l == Len(pending)
               a == offset[k]
               b == offset[k + 1]
    <2>2. arrived \in Nat /\ a \in Nat /\ a <= arrived /\ l = arrived - a /\ b = a + 5 + n
      BY <1>1, <2>1
    <2> HIDE DEF n, l, a, b
    <2>3. (l >= 5 + n <=> b <= arrived) /\ (~(l >= 5) => ~(b <= arrived))
      BY <2>1, <2>2
    <2> QED
      BY <2>3 DEF l, a, b
  <1>3. CASE Len(pending) >= 5
    <2>1. k \in 0..(Len(frames) - 1) /\ LengthField(pending) = n
      BY <1>3, HeaderHere DEF HeaderSize
    <2>2. HasFrame <=> Len(pending) >= 5 + n
      BY <1>3, <2>1 DEF HasFrame, HeaderSize
    <2> QED
      BY <1>2, <2>1, <2>2, Zenon
  <1>4. CASE ~(Len(pending) >= 5)
    <2>1. ~HasFrame
      BY <1>4 DEF HasFrame, HeaderSize
    <2> QED
      BY <1>2, <1>4, <2>1, Zenon
  <1> QED
    BY <1>3, <1>4

LEMMA NothingMore ==
  ASSUME TypeOK, Laid, Aligned, ~HasFrame
  PROVE  handled = Len(frames) \/ arrived < offset[handled + 1]
  <1>1. handled \in 0..Len(frames) /\ Len(frames) \in Nat /\ arrived \in Nat
    BY PendingBytes
  <1>2. handled = Len(frames) \/ handled \in 0..(Len(frames) - 1)
    BY <1>1
  <1>3. CASE handled \in 0..(Len(frames) - 1)
    <2>1. offset[handled + 1] \in Nat /\ ~(offset[handled + 1] <= arrived)
      BY <1>3, FrameHere, FrameSpan
    <2> QED
      BY <1>1, <2>1
  <1> QED
    BY <1>2, <1>3

\* What the loop takes is the next frame, and what it leaves is the rest.
LEMMA FrameTaken ==
  ASSUME TypeOK, Laid, Aligned, HasFrame
  PROVE  /\ handled + 1 \in 1..Len(frames)
         /\ First = frames[handled + 1]
         /\ offset[handled + 1] <= arrived
         /\ Rest = SubSeq(wire, offset[handled + 1] + 1, arrived)
  <1> DEFINE k == handled
             n == Len(frames[k + 1].payload)
  <1>1. k \in 0..(Len(frames) - 1) /\ offset[k + 1] <= arrived
    BY FrameHere
  <1>2. LengthField(pending) = n /\ pending[1] = frames[k + 1].flags
    BY HeaderHere DEF HasFrame
  <1>3. k + 1 \in 1..Len(frames)
    BY <1>1, Wired
  <1>4. offset[k] \in Nat /\ n \in Nat /\ offset[k + 1] = offset[k] + 5 + n
    BY <1>1, FrameSpan
  <1>5. wire \in Seq(Byte) /\ arrived \in 0..Len(wire) /\ Len(wire) \in Nat
    BY PendingBytes
  <1>6. arrived \in Nat /\ offset[k] <= arrived /\ Len(pending) = arrived - offset[k]
    BY PendingBytes
  <1>7. pending = SubSeq(wire, offset[k] + 1, arrived)
    BY DEF Aligned
  <1>8. SubSeq(wire, offset[k] + 5 + 1, offset[k + 1]) = frames[k + 1].payload
    BY <1>1, FramePlace DEF HeaderSize
  <1>0. offset[k + 1] \in Nat
    BY <1>1, FrameSpan
  <1> HIDE DEF k, n
  <1> DEFINE m == 5 + n
             d == Len(pending)
  <1>9. /\ m \in Nat /\ 5 <= m /\ m <= d /\ d \in Nat
        /\ offset[k] + m = offset[k + 1] /\ offset[k] + d = arrived
    <2> DEFINE a == offset[k]
               b == offset[k + 1]
    <2>1. /\ n \in Nat /\ arrived \in Nat /\ a \in Nat /\ a <= arrived /\ d = arrived - a
          /\ b = a + 5 + n /\ b <= arrived
      BY <1>1, <1>4, <1>6
    <2> HIDE DEF a, b, d
    <2>2. /\ m \in Nat /\ 5 <= m /\ m <= d /\ d \in Nat /\ a + m = b /\ a + d = arrived
      BY <2>1
    <2> QED
      BY <2>2, Zenon DEF a, b
  <1> HIDE DEF m, d
  <1>10. /\ SubSeq(pending, 5 + 1, m) = frames[k + 1].payload
         /\ SubSeq(pending, m + 1, d) = SubSeq(wire, offset[k + 1] + 1, arrived)
    <2>1. \A u, v \in Nat : u <= v /\ v <= d =>
            SubSeq(pending, u + 1, v) = SubSeq(wire, offset[k] + u + 1, offset[k] + v)
      <3> SUFFICES ASSUME NEW u \in Nat, NEW v \in Nat, u <= v, v <= d
                   PROVE  SubSeq(pending, u + 1, v) = SubSeq(wire, offset[k] + u + 1, offset[k] + v)
        OBVIOUS
      <3>1. v <= arrived - offset[k]
        BY <1>6, Zenon DEF d
      <3> DEFINE a == offset[k]
      <3>2. a \in Nat /\ a <= arrived /\ v <= arrived - a /\ arrived \in 0..Len(wire)
        BY <1>4, <1>5, <1>6, <3>1
      <3> HIDE DEF a
      <3>3. SubSeq(SubSeq(wire, a + 1, arrived), u + 1, v) = SubSeq(wire, a + u + 1, a + v)
        BY <1>5, <3>2, WireWithin
      <3> QED
        BY <1>7, <3>3, Zenon DEF a
    <2>2. d <= d /\ 5 \in Nat
      BY <1>9
    <2>3. /\ SubSeq(pending, 5 + 1, m) = SubSeq(wire, offset[k] + 5 + 1, offset[k] + m)
          /\ SubSeq(pending, m + 1, d) = SubSeq(wire, offset[k] + m + 1, offset[k] + d)
      BY <1>9, <2>1, <2>2, Zenon
    <2> QED
      BY <1>8, <1>9, <2>3, Zenon
  <1>12. frames[k + 1] = [flags |-> pending[1], payload |-> SubSeq(pending, 5 + 1, m)]
    <2>1. frames[k + 1] \in [flags : Byte, payload : Payloads]
      BY <1>3, Wired, ElementOfSeq
    <2>2. frames[k + 1] = [flags |-> frames[k + 1].flags, payload |-> frames[k + 1].payload]
      BY <2>1
    <2> QED
      BY <1>2, <1>10, <2>2, Zenon
  <1>13. First = frames[k + 1]
    BY <1>2, <1>12, Zenon DEF First, HeaderSize, m
  <1>14. Rest = SubSeq(wire, offset[k + 1] + 1, arrived)
    BY <1>2, <1>10, Zenon DEF Rest, HeaderSize, m, d
  <1> QED
    BY <1>1, <1>3, <1>13, <1>14 DEF k

-----------------------------------------------------------------------------

LEMMA EventOfType ==
  ASSUME NEW f \in [flags : Byte, payload : Payloads]
  PROVE  /\ Raw(f) \in Payloads \cup {Corrupt}
         /\ EventOf(f) \in Seq(Events) /\ Len(EventOf(f)) <= 1
  <1>1. Raw(f) \in Payloads \cup {Corrupt}
    BY FramesAssumption DEF Raw
  <1>2. ProtocolError \in Events
    BY DEF ProtocolError, Error, Events, Scopes
  <1>3. ASSUME Raw(f) # Corrupt PROVE Message(Raw(f)) \in Events
    BY <1>1, <1>3 DEF Message, Events
  <1>4. ASSUME Raw(f) # Corrupt
        PROVE  TrailerEvent(Raw(f)) \in Seq(Events) /\ Len(TrailerEvent(Raw(f))) <= 1
    <2> DEFINE d == TrailerSays[Raw(f)]
               e == Error("upstream_error", ErrScope(d.code, d.hints), d.retryAfter)
    <2>1. d \in Details
      BY <1>1, <1>4, FramesAssumption
    <2>2. e \in Events
      BY <2>1 DEF Error, ErrScope, Events, Scopes, Details
    <2> HIDE DEF e
    <2>3. <<e>> \in Seq(Events) /\ Len(<<e>>) <= 1 /\ <<>> \in Seq(Events) /\ Len(<<>>) <= 1
      BY <2>2
    <2>4. TrailerEvent(Raw(f)) = <<e>> \/ TrailerEvent(Raw(f)) = <<>>
      BY DEF TrailerEvent, e
    <2> QED
      BY <2>3, <2>4, Zenon
  <1> QED
    BY <1>1, <1>2, <1>3, <1>4 DEF EventOf

\* The abstract reader's frames.
Said == [i \in DOMAIN frames |-> [says |-> EventOf(frames[i]), error |-> IsError(frames[i]),
                                  trailer |-> IsTrailer(frames[i])]]

LEMMA SaidFrames ==
  ASSUME Laid
  PROVE  /\ Len(Said) = Len(frames)
         /\ \A i \in 1..Len(frames) : /\ Said[i].says = EventOf(frames[i])
                                      /\ Said[i].error = IsError(frames[i])
                                      /\ Said[i].trailer = IsTrailer(frames[i])
  <1>1. DOMAIN frames = 1..Len(frames) /\ Len(frames) \in Nat
    BY Wired
  <1> QED
    BY <1>1 DEF Said

LEMMA SameFrames == UNCHANGED sending => Laid = Laid' /\ Said' = Said
  BY DEF sending, Laid, Said

\* Taking a frame, whatever it says, and handing out what it says.
LEMMA TakeOne ==
  ASSUME ReaderInv, TakeFrame, UNCHANGED <<sending, arrived>>,
         out' = out \o EventOf(First),
         ended' = (ended \/ IsTrailer(First)),
         pc' \in {"parse", "yield", "done"},
         pc' = "done" <=> IsError(First),
         verdict' = IF IsError(First) THEN "error" ELSE "open"
  PROVE  ReaderInv' /\ Reader!Take
  <1>1. TypeOK /\ Laid /\ Aligned /\ EndedByTrailer /\ PcInv /\ HasFrame
    BY DEF ReaderInv, TakeFrame
  <1>2. /\ handled + 1 \in 1..Len(frames) /\ First = frames[handled + 1]
        /\ offset[handled + 1] <= arrived
        /\ Rest = SubSeq(wire, offset[handled + 1] + 1, arrived)
    BY <1>1, FrameTaken
  <1>3. /\ handled' = handled + 1 /\ pending' = Rest /\ arrived' = arrived
        /\ frames' = frames /\ wire' = wire /\ offset' = offset
    BY DEF TakeFrame, sending
  <1>4. Len(frames) \in Nat /\ handled \in Nat /\ handled + 1 \in 0..Len(frames)
        /\ wire \in Seq(Byte) /\ arrived \in 0..Len(wire) /\ offset[handled + 1] \in Nat
    BY <1>1, <1>2, PendingBytes, Wired
  <1>5. First \in [flags : Byte, payload : Payloads]
    BY <1>1, <1>2, Wired, ElementOfSeq
  <1>6. Laid'
    BY <1>1, SameFrames
  <1>7. Aligned'
    BY <1>2, <1>3 DEF Aligned
  <1>8. EndedByTrailer'
    <2>1. \A i \in 1..(handled + 1) : i \in 1..handled \/ i = handled + 1
      BY <1>4
    <2>2. handled + 1 \in 1..(handled + 1) /\ \A i \in 1..handled : i \in 1..(handled + 1)
      BY <1>4
    <2>3. ended' <=> \E i \in 1..(handled + 1) : IsTrailer(frames[i])
      BY <1>1, <1>2, <2>1, <2>2 DEF EndedByTrailer
    <2> QED
      BY <1>3, <2>3 DEF EndedByTrailer, IsTrailer, EndStream, Raw, Compressed
  <1>9. TypeOK'
    <2>1. pending' \in Seq(Byte)
      BY <1>2, <1>3, <1>4, WirePart
    <2>2. out' \in Seq(Events)
      BY <1>1, <1>5, EventOfType, ConcatProperties DEF TypeOK
    <2>3. ended' \in BOOLEAN
      BY <1>1 DEF TypeOK, IsTrailer
    <2> QED
      BY <1>1, <1>3, <1>4, <2>1, <2>2, <2>3 DEF TypeOK
  <1>10. PcInv' /\ InTime'
    BY <1>3 DEF PcInv, InTime
  <1>11. Reader!Take
    <2>1. pc = "parse" /\ verdict = "open"
      BY <1>1 DEF TakeFrame, PcInv
    <2>2. handled < Len(frames)
      BY <1>4
    <2>3. /\ Said[handled + 1].says = EventOf(First) /\ Said[handled + 1].error = IsError(First)
          /\ Len(Said) = Len(frames) /\ Said' = Said
      BY <1>1, <1>2, SaidFrames, SameFrames
    <2> QED
      BY <1>3, <2>1, <2>2, <2>3 DEF Reader!Take, Said
  <1> QED
    BY <1>6, <1>7, <1>8, <1>9, <1>10, <1>11 DEF ReaderInv

\* The four ways a frame is taken.
LEMMA Taken ==
  ASSUME ReaderInv, BadGzip \/ Trailer \/ BadMessage \/ YieldMessage
  PROVE  ReaderInv' /\ Reader!Take
  <1>1. TypeOK /\ TakeFrame /\ UNCHANGED <<sending, arrived>>
    BY DEF ReaderInv, BadGzip, Trailer, BadMessage, YieldMessage
  <1>2. pc = "parse" /\ verdict = "open" /\ out \in Seq(Events) /\ ended \in BOOLEAN
    BY <1>1 DEF ReaderInv, PcInv, TakeFrame, TypeOK
  <1>3. /\ First \in [flags : Byte, payload : Payloads]
        /\ Raw(First) \in Payloads \cup {Corrupt}
    <2>1. handled + 1 \in 1..Len(frames) /\ First = frames[handled + 1]
      BY <1>1, FrameTaken DEF ReaderInv, TakeFrame
    <2>2. First \in [flags : Byte, payload : Payloads]
      BY <2>1, Wired, ElementOfSeq DEF ReaderInv
    <2> QED
      BY <2>2, EventOfType
  <1>4. Corrupt \notin Unparsable
    BY FramesAssumption
  <1>5. ProtocolError \in Events /\ ProtocolError.type = "error"
    BY DEF ProtocolError, Error, Events, Scopes
  <1>6. CASE BadGzip
    <2>1. EventOf(First) = <<ProtocolError>> /\ ~IsTrailer(First)
      BY <1>6 DEF BadGzip, EventOf, IsTrailer
    <2>2. IsError(First)
      BY <1>5, <2>1 DEF IsError
    <2>3. out' = out \o EventOf(First)
      BY <1>2, <1>5, <1>6, <2>1, AppendIsConcat DEF BadGzip
    <2>4. ended' = (ended \/ IsTrailer(First)) /\ pc' = "done" /\ verdict' = "error"
      BY <1>2, <1>6, <2>1 DEF BadGzip, Finish
    <2> QED
      BY <1>1, <2>2, <2>3, <2>4, TakeOne
  <1>7. CASE Trailer
    <2>1. EventOf(First) = TrailerEvent(Raw(First)) /\ IsTrailer(First)
      BY <1>7 DEF Trailer, EventOf, IsTrailer
    <2>2. IsError(First) <=> TrailerSays[Raw(First)].error
      BY <2>1 DEF IsError, TrailerEvent, Error
    <2>3. out' = out \o EventOf(First) /\ ended' = (ended \/ IsTrailer(First))
      BY <1>7, <2>1 DEF Trailer
    <2>4. /\ pc' \in {"parse", "done"} /\ (pc' = "done" <=> IsError(First))
          /\ verdict' = IF IsError(First) THEN "error" ELSE "open"
      BY <1>2, <1>7, <2>2 DEF Trailer, Finish
    <2> QED
      BY <1>1, <2>3, <2>4, TakeOne
  <1>8. CASE BadMessage
    <2>1. EventOf(First) = <<ProtocolError>> /\ ~IsTrailer(First)
      BY <1>4, <1>8 DEF BadMessage, EventOf, IsTrailer
    <2>2. IsError(First)
      BY <1>5, <2>1 DEF IsError
    <2>3. out' = out \o EventOf(First)
      BY <1>2, <1>5, <1>8, <2>1, AppendIsConcat DEF BadMessage
    <2>4. ended' = (ended \/ IsTrailer(First)) /\ pc' = "done" /\ verdict' = "error"
      BY <1>2, <1>8, <2>1 DEF BadMessage, Finish
    <2> QED
      BY <1>1, <2>2, <2>3, <2>4, TakeOne
  <1>9. CASE YieldMessage
    <2> DEFINE e == Message(Raw(First))
    <2>1. EventOf(First) = <<e>> /\ ~IsTrailer(First)
      BY <1>9 DEF YieldMessage, EventOf, IsTrailer
    <2>2. e \in Events /\ e.type = "message"
      BY <1>3, <1>9 DEF YieldMessage, Message, Events
    <2>3. ~IsError(First)
      BY <2>1, <2>2 DEF IsError
    <2> HIDE DEF e
    <2>4. out' = out \o EventOf(First)
      BY <1>2, <1>9, <2>1, <2>2, AppendIsConcat DEF YieldMessage, e
    <2>5. ended' = (ended \/ IsTrailer(First)) /\ pc' = "yield" /\ verdict' = "open"
      BY <1>2, <1>9, <2>1 DEF YieldMessage
    <2> QED
      BY <1>1, <2>3, <2>4, <2>5, TakeOne
  <1> QED
    BY <1>6, <1>7, <1>8, <1>9

\* Connecting, reading, waiting for more and resuming are invisible.
LEMMA Invisible ==
  ASSUME ReaderInv, Connect \/ Receive \/ NeedMore \/ Resume \/ UNCHANGED vars
  PROVE  ReaderInv' /\ UNCHANGED Reader!vars
  <1>1. TypeOK /\ Laid /\ Aligned /\ EndedByTrailer /\ PcInv /\ InTime
    BY DEF ReaderInv
  <1>2. UNCHANGED <<sending, ended, handled, out, verdict>>
    BY DEF Connect, Receive, NeedMore, Resume, vars
  <1>3. UNCHANGED Reader!vars
    BY <1>2, SameFrames DEF Reader!vars, Said
  <1>4. Laid' /\ EndedByTrailer'
    BY <1>1, <1>2, SameFrames DEF EndedByTrailer, sending, IsTrailer, EndStream, Raw, Compressed
  <1>5. PcInv'
    BY <1>1, <1>2 DEF PcInv, Connect, Receive, NeedMore, Resume, vars
  <1>6. CASE Receive
    <2>1. PICK n \in (arrived + 1)..Len(wire) :
             pending' = pending \o SubSeq(wire, arrived + 1, n) /\ arrived' = n
      BY <1>6 DEF Receive
    <2>2. /\ wire \in Seq(Byte) /\ arrived \in Nat /\ n \in 0..Len(wire) /\ arrived <= n
          /\ offset[handled] \in Nat /\ offset[handled] <= arrived /\ Len(wire) \in Nat
          /\ offset[handled] <= n
      <3>1. /\ wire \in Seq(Byte) /\ arrived \in Nat /\ Len(wire) \in Nat
            /\ offset[handled] \in Nat /\ offset[handled] <= arrived
        BY <1>1, PendingBytes
      <3> QED
        BY <3>1
    <2>3. pending' = SubSeq(wire, offset[handled] + 1, n)
      BY <1>1, <2>1, <2>2, WireSplit DEF Aligned
    <2>4. pending' \in Seq(Byte)
      BY <2>2, <2>3, WirePart
    <2>5. Aligned'
      BY <1>2, <2>1, <2>2, <2>3 DEF Aligned, sending
    <2>6. pc' = "parse"
      BY <1>6 DEF Receive
    <2>7. TypeOK'
      BY <1>1, <1>2, <2>1, <2>2, <2>4, <2>6 DEF TypeOK, sending
    <2> QED
      BY <1>3, <1>4, <1>5, <2>5, <2>6, <2>7 DEF ReaderInv, InTime
  <1>7. CASE ~Receive
    <2>1. UNCHANGED <<arrived, pending>> /\ (pc' \in {"read", "parse"} \/ pc' = pc)
      BY <1>7 DEF Connect, NeedMore, Resume, vars
    <2>2. TypeOK' /\ Aligned'
      BY <1>1, <1>2, <2>1 DEF TypeOK, Aligned, sending
    <2>3. InTime'
      <3>1. ASSUME pc' = "read"
            PROVE  handled = Len(frames) \/ arrived < offset[handled + 1]
        <4>1. CASE Connect
          <5>1. handled = 0 /\ arrived = 0
            BY <1>1, <4>1 DEF PcInv, Connect
          <5>2. Len(pending) = 0
            BY <1>1, <5>1, PendingBytes, Wired
          <5> QED
            BY <1>1, <5>2, NothingMore DEF HasFrame, HeaderSize
        <4>2. CASE NeedMore
          BY <1>1, <4>2, NothingMore DEF NeedMore
        <4>3. CASE UNCHANGED vars
          BY <1>1, <3>1, <4>3 DEF InTime, vars
        <4> QED
          BY <1>7, <3>1, <4>1, <4>2, <4>3 DEF Resume
      <3> QED
        BY <1>2, <2>1, <3>1 DEF InTime, sending
    <2> QED
      BY <1>3, <1>4, <1>5, <2>2, <2>3 DEF ReaderInv
  <1> QED
    BY <1>6, <1>7

\* The verdict behind the frames taken.
LEMMA Decided ==
  ASSUME ReaderInv, HttpError \/ Close \/ BodyEnds \/ Breaks
  PROVE  ReaderInv' /\ Reader!Finish
  <1>1. TypeOK /\ Laid /\ Aligned /\ EndedByTrailer /\ PcInv
    BY DEF ReaderInv
  <1>2. UNCHANGED <<sending, arrived, pending, ended, handled>> /\ pc' = "done" /\ pc # "done"
    BY DEF HttpError, Close, BodyEnds, Breaks, Finish
  <1>3. verdict = "open" /\ handled \in 0..Len(frames) /\ out \in Seq(Events)
    BY <1>1, <1>2 DEF PcInv, TypeOK
  <1>4. Said' = Said /\ Laid' /\ frames' = frames /\ handled' = handled
    BY <1>1, <1>2, SameFrames DEF sending
  <1>5. Reader!TrailerSeen <=> ended
    <2>1. Reader!TrailerSeen <=> \E i \in 1..handled : Said[i].trailer
      BY DEF Reader!TrailerSeen, Said
    <2>2. \A i \in 1..handled : i \in 1..Len(frames)
      BY <1>1, <1>3, Wired
    <2> QED
      BY <1>1, <2>1, <2>2, SaidFrames DEF EndedByTrailer
  <1>6. ASSUME NEW e \in Events, out' = Append(out, e)
        PROVE  /\ out' \in Seq(Events) /\ Len(out') = Len(out) + 1
               /\ SubSeq(out', 1, Len(out)) = out
    <2>1. /\ out' \in Seq(Events) /\ Len(out') = Len(out) + 1
          /\ \A i \in 1..Len(out) : out'[i] = out[i]
      BY <1>3, <1>6, AppendProperties
    <2>2. Len(out) \in Nat /\ \A i \in 1..Len(out) : out'[i] \in Events
      BY <1>3, <2>1, ElementOfSeq
    <2>3. /\ SubSeq(out', 1, Len(out)) \in Seq(Events)
          /\ Len(SubSeq(out', 1, Len(out))) = Len(out)
          /\ \A i \in 1..Len(out) : SubSeq(out', 1, Len(out))[i] = out'[i]
      BY <2>2, SubSeqProperties
    <2>4. SubSeq(out', 1, Len(out)) = out
      BY <1>3, <2>1, <2>3, SeqEqual
    <2> QED
      BY <2>1, <2>4
  <1>7. /\ out' \in Seq(Events) /\ verdict' \in {"clean", "error", "raised", "closed"}
        /\ Reader!Clean \/ Reader!Error \/ Reader!Leave
    <2>1. CASE HttpError
      <3>1. PICK scope \in {"account", "transient"} :
               out' = <<Error("http_error", scope, FALSE)>> /\ verdict' = "error"
        BY <2>1 DEF HttpError, Finish
      <3>2. out = <<>> /\ handled = 0
        BY <1>1, <2>1 DEF PcInv, HttpError
      <3>3. Error("http_error", scope, FALSE) \in Events
        BY DEF Error, Events, Scopes
      <3>4. out' = Append(out, Error("http_error", scope, FALSE))
        BY <3>1, <3>2
      <3>5. ~ended
        BY <1>1, <3>2 DEF EndedByTrailer
      <3> QED
        BY <1>5, <1>6, <3>1, <3>3, <3>4, <3>5 DEF Reader!Error
    <2>2. CASE BodyEnds
      <3>1. CASE ended
        BY <1>3, <1>5, <2>2, <3>1 DEF BodyEnds, Finish, Reader!Clean
      <3>2. CASE ~ended
        <4>1. Truncated \in Events
          BY DEF Truncated, Error, Events, Scopes
        <4>2. out' = Append(out, Truncated) /\ verdict' = "error"
          BY <2>2, <3>2 DEF BodyEnds, Finish
        <4> QED
          BY <1>5, <1>6, <3>2, <4>1, <4>2 DEF Reader!Error
      <3> QED
        BY <3>1, <3>2
    <2>3. CASE Close \/ Breaks
      BY <1>3, <2>3 DEF Close, Breaks, Finish, Reader!Leave
    <2> QED
      BY <2>1, <2>2, <2>3
  <1>8. Reader!Finish
    BY <1>3, <1>4, <1>7 DEF Reader!Finish, Said
  <1>9. TypeOK'
    BY <1>1, <1>2, <1>7 DEF TypeOK, sending
  <1>10. Aligned' /\ PcInv' /\ InTime'
    BY <1>1, <1>2, <1>7 DEF Aligned, PcInv, InTime, sending
  <1>11. EndedByTrailer'
    BY <1>1, <1>2, <1>4 DEF EndedByTrailer, IsTrailer, EndStream, Raw, Compressed
  <1> QED
    BY <1>4, <1>8, <1>9, <1>10, <1>11 DEF ReaderInv

LEMMA InitReader == Init => ReaderInv /\ Reader!Init
  <1> SUFFICES ASSUME Init PROVE ReaderInv /\ Reader!Init
    OBVIOUS
  <1>1. Laid /\ handled = 0 /\ arrived = 0 /\ pending = <<>> /\ ended = FALSE /\ out = <<>>
        /\ verdict = "open" /\ pc = "connect"
    BY DEF Init
  <1>2. Len(frames) \in Nat /\ Len(wire) \in Nat /\ offset[0] = 0
    BY <1>1, Wired
  <1>3. TypeOK
    <2>1. pending \in Seq(Byte) /\ out \in Seq(Events)
      BY <1>1, EmptySeq
    <2>2. arrived \in 0..Len(wire) /\ handled \in 0..Len(frames)
      BY <1>1, <1>2
    <2> QED
      BY <1>1, <2>1, <2>2 DEF TypeOK
  <1>4. Aligned
    BY <1>1, <1>2, SubSeqEmpty DEF Aligned
  <1> QED
    BY <1>1, <1>3, <1>4 DEF ReaderInv, EndedByTrailer, PcInv, InTime, Reader!Init

LEMMA NextReader ==
  ReaderInv /\ [Next]_vars => ReaderInv' /\ [Reader!Next]_(Reader!vars)
  BY Taken, Invisible, Decided DEF Next, Step, Over, Reader!Next

-----------------------------------------------------------------------------
(* The reader winds down *)

\* What the reader has yet to do: bytes to read, frames to take, and where in
\* its loops it is.
Stage ==
  CASE pc = "done" -> 0 [] pc = "read" -> 1 [] pc \in {"connect", "parse"} -> 2 [] pc = "yield" -> 3
StepsLeft == 4 * ((Len(wire) - arrived) + (Len(frames) - handled)) + Stage

LEMMA ReaderNumbers ==
  ASSUME ReaderInv
  PROVE  /\ Len(wire) \in Nat /\ Len(frames) \in Nat
         /\ arrived \in Nat /\ arrived <= Len(wire) /\ handled \in Nat /\ handled <= Len(frames)
         /\ Stage \in 0..3
  <1>1. Len(wire) \in Nat /\ Len(frames) \in Nat
    BY Wired DEF ReaderInv
  <1> QED
    BY <1>1 DEF ReaderInv, TypeOK, Stage

LEMMA StepLowers ==
  ASSUME ReaderInv, Step \/ Close, ReaderInv'
  PROVE  StepsLeft' < StepsLeft
  <1>1. frames' = frames /\ wire' = wire
    BY DEF Step, Close, Connect, HttpError, Receive, NeedMore, BadGzip, Trailer, BadMessage,
           YieldMessage, Resume, BodyEnds, Breaks, sending
  <1>2. /\ Len(wire) \in Nat /\ Len(frames) \in Nat /\ Stage \in 0..3 /\ Stage' \in 0..3
        /\ arrived \in Nat /\ handled \in Nat /\ arrived' \in Nat /\ handled' \in Nat
    <2>1. /\ Len(wire) \in Nat /\ Len(frames) \in Nat /\ Stage \in 0..3
          /\ arrived \in Nat /\ handled \in Nat
      BY ReaderNumbers
    <2>2. Stage' \in 0..3
      BY DEF ReaderInv, TypeOK, Stage
    <2>3. arrived' \in 0..Len(wire) /\ handled' \in 0..Len(frames)
      BY <1>1 DEF ReaderInv, TypeOK
    <2> QED
      BY <2>1, <2>2, <2>3
  <1>3. CASE Receive
    <2>1. arrived' > arrived /\ handled' = handled
      BY <1>2, <1>3 DEF Receive
    <2> QED
      BY <1>1, <1>2, <2>1 DEF StepsLeft
  <1>4. CASE BadGzip \/ Trailer \/ BadMessage \/ YieldMessage
    <2>1. handled' = handled + 1 /\ arrived' = arrived
      BY <1>4 DEF BadGzip, Trailer, BadMessage, YieldMessage, TakeFrame
    <2> QED
      BY <1>1, <1>2, <2>1 DEF StepsLeft
  <1>5. CASE Connect \/ HttpError \/ NeedMore \/ Resume \/ BodyEnds \/ Breaks \/ Close
    <2>1. handled' = handled /\ arrived' = arrived
      BY <1>5 DEF Connect, HttpError, NeedMore, Resume, BodyEnds, Breaks, Close
    <2>2. Stage' < Stage
      <3>1. \/ pc = "connect" /\ pc' = "read"
            \/ pc = "parse" /\ pc' = "read"
            \/ pc = "yield" /\ pc' = "parse"
            \/ pc \in {"connect", "read", "yield"} /\ pc' = "done"
        BY <1>5 DEF Connect, HttpError, NeedMore, Resume, BodyEnds, Breaks, Close, Finish
      <3> QED
        BY <3>1 DEF Stage
    <2> QED
      BY <1>1, <1>2, <2>1, <2>2 DEF StepsLeft
  <1> QED
    BY <1>3, <1>4, <1>5 DEF Step

-----------------------------------------------------------------------------
(* Theorems *)

\* Every state of the reader is well typed: it never runs past the frames.
THEOREM FramesTypeOK == Spec => []TypeOK
  <1>1. ReaderInv => TypeOK
    BY DEF ReaderInv
  <1> QED
    BY <1>1, InitReader, NextReader, PTL DEF Spec

\* However the bytes are cut into reads, no frame that has arrived waits for
\* the next read (the inner loop of stream_chat).
THEOREM FramesInTime == Spec => []InTime
  <1>1. ReaderInv => InTime
    BY DEF ReaderInv
  <1> QED
    BY <1>1, InitReader, NextReader, PTL DEF Spec

\* However the bytes are cut into reads, the caller of stream_chat gets the
\* event of each frame in order and one verdict, clean only behind a trailer.
THEOREM FramesPromise == Spec => Promise
  BY InitReader, NextReader, PTL DEF Spec, Promise, Reader!Spec

\* Every step of stream_chat that is one lowers a natural number: whatever
\* the sizes of the reads, the loops over reads and frames do not go round
\* for ever.
THEOREM FramesWindDown ==
  Spec => [](StepsLeft \in Nat) /\ [][StepsLeft' < StepsLeft]_vars
  <1>1. ReaderInv => StepsLeft \in Nat
    <2> SUFFICES ASSUME ReaderInv PROVE StepsLeft \in Nat
      OBVIOUS
    <2>1. /\ Len(wire) \in Nat /\ Len(frames) \in Nat
          /\ arrived \in Nat /\ arrived <= Len(wire) /\ handled \in Nat /\ handled <= Len(frames)
          /\ Stage \in 0..3
      BY ReaderNumbers
    <2> QED
      BY <2>1 DEF StepsLeft
  <1>2. ReaderInv /\ [Next]_vars => [StepsLeft' < StepsLeft]_vars
    BY NextReader, StepLowers DEF Next, Over
  <1> QED
    BY <1>1, <1>2, InitReader, NextReader, PTL DEF Spec
=============================================================================
