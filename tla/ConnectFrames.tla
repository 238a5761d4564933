--------------------------- MODULE ConnectFrames ---------------------------
(***************************************************************************)
(* stream_chat of devin_proxy/upstream.py: the body of one GetChatMessage  *)
(* call is a series of frames, a header of one flag byte and four length   *)
(* bytes and a payload, that arrives in network reads of any size and may  *)
(* be cut anywhere.  The reader collects bytes in `pending` and takes      *)
(* frames from it.  Its only caller, _iter_chat, leaves its loop at the    *)
(* first error, which closes the generator.                                *)
(***************************************************************************)
EXTENDS Naturals, Sequences, FiniteSets

CONSTANTS
  Payloads,    \* sequences of bytes
  Corrupt,     \* not a payload
  Inflate,     \* gzip.decompress, Corrupt where it raises
  Unparsable,  \* payloads that are no GetChatMessageResponse
  TrailerSays  \* _trailer_details of a payload

HeaderSize == 5
Byte == 0..255
Scopes == {"account", "transient", "soft"}
Details == [error : BOOLEAN, code : Scopes \cup {"other"}, hints : SUBSET Scopes,
            retryAfter : BOOLEAN]

ASSUME FramesAssumption ==
  /\ Payloads \subseteq Seq(Byte) /\ Corrupt \notin Payloads
  /\ Inflate \in [Payloads -> Payloads \cup {Corrupt}]
  /\ Unparsable \subseteq Payloads
  /\ TrailerSays \in [Payloads -> Details]

VARIABLES
  (* the upstream *)
  frames,    \* the frames it sends: records [flags, payload]
  wire,      \* the bytes it sends
  offset,    \* offset[i]: bytes of the first i frames
  arrived,   \* how many bytes the network has delivered
  (* the reader *)
  pc, pending, ended,
  handled,   \* frames taken
  out,       \* events handed to the caller
  verdict

sending == <<frames, wire, offset>>
vars == <<sending, arrived, pc, pending, ended, handled, out, verdict>>

-----------------------------------------------------------------------------
(* Frames *)

Compressed(flags) == flags % 2 = 1
EndStream(flags) == (flags \div 2) % 2 = 1

\* int.from_bytes(_, "big")
Length(b) == ((b[1] * 256 + b[2]) * 256 + b[3]) * 256 + b[4]

LengthField(bytes) == Length(<<bytes[2], bytes[3], bytes[4], bytes[5]>>)

Raw(f) == IF Compressed(f.flags) THEN Inflate[f.payload] ELSE f.payload

\* _err_scope: who is at fault, by the code and the words of the message.
ErrScope(code, hints) ==
  IF code = "account" \/ "account" \in hints THEN "account"
  ELSE IF code = "transient" \/ "transient" \in hints THEN "transient"
  ELSE IF code = "soft" \/ "soft" \in hints THEN "soft"
  ELSE "account"

Message(raw) == [type |-> "message", raw |-> raw]
Error(kind, scope, retryAfter) ==
  [type |-> "error", kind |-> kind, scope |-> scope, retryAfter |-> retryAfter]
ProtocolError == Error("protocol_error", "account", FALSE)
Truncated == Error("truncated", "account", FALSE)
Events == [type : {"message"}, raw : Payloads]
            \cup [type : {"error"}, scope : Scopes, retryAfter : BOOLEAN,
                  kind : {"http_error", "protocol_error", "upstream_error", "truncated"}]

TrailerEvent(raw) ==
  LET d == TrailerSays[raw]
  IN  IF d.error THEN <<Error("upstream_error", ErrScope(d.code, d.hints), d.retryAfter)>>
                 ELSE <<>>

\* What a frame says to the caller.
EventOf(f) ==
  IF Raw(f) = Corrupt THEN <<ProtocolError>>
  ELSE IF EndStream(f.flags) THEN TrailerEvent(Raw(f))
  ELSE IF Raw(f) \in Unparsable THEN <<ProtocolError>>
  ELSE <<Message(Raw(f))>>

IsTrailer(f) == EndStream(f.flags) /\ Raw(f) # Corrupt
IsError(f) == EventOf(f) # <<>> /\ EventOf(f)[1].type = "error"

\* How frames lie in the bytes.
Laid ==
  /\ frames \in Seq([flags : Byte, payload : Payloads])
  /\ wire \in Seq(Byte)
  /\ offset \in [0..Len(frames) -> Nat]
  /\ offset[0] = 0 /\ offset[Len(frames)] = Len(wire)
  /\ \A i \in 1..Len(frames) :
       LET f == frames[i]
           o == offset[i - 1]
       IN  /\ offset[i] = o + HeaderSize + Len(f.payload)
           /\ wire[o + 1] = f.flags
           /\ Length(<<wire[o + 2], wire[o + 3], wire[o + 4], wire[o + 5]>>) = Len(f.payload)
           /\ SubSeq(wire, o + HeaderSize + 1, offset[i]) = f.payload

-----------------------------------------------------------------------------
(* The call *)

Init ==
  /\ Laid
  /\ arrived = 0
  /\ pc = "connect" /\ pending = <<>> /\ ended = FALSE /\ handled = 0
  /\ out = <<>> /\ verdict = "open"

Finish(v) == pc' = "done" /\ verdict' = v

Connect ==
  /\ pc = "connect" /\ pc' = "read"
  /\ UNCHANGED <<sending, arrived, pending, ended, handled, out, verdict>>

\* A status other than 200; a 5xx is transient unless it blames the account.
HttpError ==
  /\ pc = "connect"
  /\ \E scope \in {"account", "transient"} : out' = <<Error("http_error", scope, FALSE)>>
  /\ Finish("error")
  /\ UNCHANGED <<sending, arrived, pending, ended, handled>>

\* One network read.
Receive ==
  /\ pc = "read"
  /\ \E n \in (arrived + 1)..Len(wire) :
       /\ pending' = pending \o SubSeq(wire, arrived + 1, n)
       /\ arrived' = n
  /\ pc' = "parse"
  /\ UNCHANGED <<sending, ended, handled, out, verdict>>

HasFrame_Strict ==
  Len(pending) >= HeaderSize /\ Len(pending) > HeaderSize + LengthField(pending)

\* The test of the inner loop: a header, and as many bytes as it announces.
HasFrame ==
  Len(pending) >= HeaderSize /\ Len(pending) >= HeaderSize + LengthField(pending)

First == [flags |-> pending[1],
          payload |-> SubSeq(pending, HeaderSize + 1, HeaderSize + LengthField(pending))]
Rest == SubSeq(pending, HeaderSize + LengthField(pending) + 1, Len(pending))

TakeFrame ==
  /\ pc = "parse" /\ HasFrame
  /\ pending' = Rest
  /\ handled' = handled + 1

NeedMore_NoBreak ==
  /\ pc = "parse" /\ ~HasFrame
  /\ pc' = IF Len(pending) >= HeaderSize THEN "parse" ELSE "read"
  /\ UNCHANGED <<sending, arrived, pending, ended, handled, out, verdict>>

NeedMore ==
  /\ pc = "parse" /\ ~HasFrame
  /\ pc' = "read"
  /\ UNCHANGED <<sending, arrived, pending, ended, handled, out, verdict>>

BadGzip ==
  /\ TakeFrame /\ Raw(First) = Corrupt
  /\ out' = Append(out, ProtocolError)
  /\ Finish("error")
  /\ UNCHANGED <<sending, arrived, ended>>

\* The loop goes on after a trailer without an error, and reads on.
Trailer ==
  /\ TakeFrame /\ Raw(First) # Corrupt /\ EndStream(First.flags)
  /\ ended' = TRUE
  /\ out' = out \o TrailerEvent(Raw(First))
  /\ IF TrailerSays[Raw(First)].error THEN Finish("error") ELSE UNCHANGED <<pc, verdict>>
  /\ UNCHANGED <<sending, arrived>>

BadMessage ==
  /\ TakeFrame /\ ~EndStream(First.flags) /\ Raw(First) \in Unparsable
  /\ out' = Append(out, ProtocolError)
  /\ Finish("error")
  /\ UNCHANGED <<sending, arrived, ended>>

\* The generator is suspended with the message.
YieldMessage ==
  /\ TakeFrame /\ Raw(First) # Corrupt /\ ~EndStream(First.flags)
  /\ Raw(First) \notin Unparsable
  /\ out' = Append(out, Message(Raw(First)))
  /\ pc' = "yield"
  /\ UNCHANGED <<sending, arrived, ended, verdict>>

Resume ==
  /\ pc = "yield" /\ pc' = "parse"
  /\ UNCHANGED <<sending, arrived, pending, ended, handled, out, verdict>>

\* The caller's client left.
Close ==
  /\ pc = "yield"
  /\ Finish("closed")
  /\ UNCHANGED <<sending, arrived, pending, ended, handled, out>>

BodyEnds_AnyClean ==
  /\ pc = "read"
  /\ IF ended \/ pending = <<>> THEN Finish("clean") /\ out' = out
              ELSE Finish("error") /\ out' = Append(out, Truncated)
  /\ UNCHANGED <<sending, arrived, pending, ended, handled>>

\* The body ends, wherever the upstream stopped.
BodyEnds ==
  /\ pc = "read"
  /\ IF ended THEN Finish("clean") /\ out' = out
              ELSE Finish("error") /\ out' = Append(out, Truncated)
  /\ UNCHANGED <<sending, arrived, pending, ended, handled>>

\* The connection breaks or a read times out: httpx raises.
Breaks ==
  /\ pc \in {"connect", "read"}
  /\ Finish("raised")
  /\ UNCHANGED <<sending, arrived, pending, ended, handled, out>>

Over == pc = "done" /\ UNCHANGED vars

Step ==
  \/ Connect \/ HttpError \/ Receive \/ NeedMore \/ BadGzip \/ Trailer \/ BadMessage
  \/ YieldMessage \/ Resume \/ BodyEnds \/ Breaks

Next == Step \/ Close \/ Over

Spec == Init /\ [][Next]_vars

\* Every read has a timeout (httpx.Timeout), and the driver asks for the next
\* event until it closes the generator.
FairSpec == Spec /\ WF_vars(Step)

-----------------------------------------------------------------------------
(* Properties *)

TypeOK ==
  /\ arrived \in 0..Len(wire)
  /\ pc \in {"connect", "read", "parse", "yield", "done"}
  /\ pending \in Seq(Byte) /\ ended \in BOOLEAN
  /\ handled \in 0..Len(frames)
  /\ out \in Seq(Events)
  /\ verdict \in {"open", "clean", "error", "raised", "closed"}

\* However the bytes were cut into reads, the caller gets the event of each
\* frame in order and then one verdict, and a stream that was cut is never
\* taken for a complete one (the docstring of stream_chat).
Reader == INSTANCE FrameReader WITH
  frames <- [i \in DOMAIN frames |-> [says |-> EventOf(frames[i]), error |-> IsError(frames[i]),
                                      trailer |-> IsTrailer(frames[i])]]
Promise == Reader!Spec

\* No frame that has arrived waits for the next read (the comment on
\* iter_bytes: frames used to surface in bursts).
InTime ==
  pc = "read" => handled = Len(frames) \/ arrived < offset[handled + 1]

\* Every call of stream_chat ends.
Ends == <>(pc = "done")

\* A trailer decides the call: once it was read without an error, a broken
\* connection does not make it fail.
TrailerDecides == [][ended => verdict' # "raised"]_vars
=============================================================================
