-------------------------- MODULE MCConnectFrames --------------------------
(* Instances of ConnectFrames for TLC: a few payloads and what they hold,  *)
(* and every series of at most MaxFrames frames of them.                   *)
EXTENDS ConnectFrames, SequencesExt

CONSTANT MaxFrames

SomePayloads == {<<>>, <<2>>, <<3, 0>>, <<0, 1>>}
SomeInflate == [p \in Payloads |-> IF p = <<3, 0>> THEN Corrupt ELSE IF p = <<2>> THEN <<0, 1>> ELSE p]
SomeUnparsable == {<<3, 0>>}
SomeTrailers ==
  [p \in Payloads |->
     [error |-> p \in {<<2>>, <<0, 1>>}, code |-> IF p = <<2>> THEN "soft" ELSE "other",
      hints |-> IF p = <<2>> THEN {"transient"} ELSE {}, retryAfter |-> p = <<2>>]]

Encode(f) == <<f.flags, 0, 0, 0, Len(f.payload)>> \o f.payload

\* Init, in a form TLC can enumerate.
MCInit ==
  /\ \E n \in 0..MaxFrames : frames \in [1..n -> [flags : 0..3, payload : Payloads]]
  /\ wire = FlattenSeq([i \in DOMAIN frames |-> Encode(frames[i])])
  /\ offset = [i \in 0..Len(frames) |->
                 Len(FlattenSeq([j \in 1..i |-> Encode(frames[j])]))]
  /\ Laid
  /\ arrived = 0
  /\ pc = "connect" /\ pending = <<>> /\ ended = FALSE /\ handled = 0
  /\ out = <<>> /\ verdict = "open"

MCSpec == MCInit /\ [][Next]_vars /\ WF_vars(Step)
=============================================================================
