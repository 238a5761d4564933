---------------------------- MODULE FrameReader ----------------------------
(***************************************************************************)
(* What stream_chat of devin_proxy/upstream.py promises its caller about   *)
(* the frames the upstream sends: the event of each frame, in their order  *)
(* and none left out, then one verdict, which is clean only behind a       *)
(* trailer.  Nothing is said about network reads: that they make no        *)
(* difference is the promise.                                              *)
(***************************************************************************)
EXTENDS Naturals, Sequences

VARIABLES
  frames,   \* what the upstream sends: records [says, error, trailer], where
            \* `says` is the sequence of events (one or none) of the frame
  handled,  \* how many frames the reader has taken
  out,      \* the events the caller was handed
  verdict   \* "open", "clean", "error", "raised" or "closed" by the caller

vars == <<frames, handled, out, verdict>>

Init == handled = 0 /\ out = <<>> /\ verdict = "open"

TrailerSeen == \E i \in 1..handled : frames[i].trailer

\* The next frame; an error is the last thing the caller takes.
Take ==
  /\ verdict = "open" /\ handled < Len(frames)
  /\ handled' = handled + 1
  /\ out' = out \o frames[handled + 1].says
  /\ verdict' = IF frames[handled + 1].error THEN "error" ELSE "open"
  /\ UNCHANGED frames

Clean == TrailerSeen /\ verdict' = "clean" /\ out' = out

\* Cut before the trailer, or refused before any frame.
Error ==
  /\ ~TrailerSeen
  /\ verdict' = "error"
  /\ Len(out') = Len(out) + 1 /\ SubSeq(out', 1, Len(out)) = out

Leave == verdict' \in {"raised", "closed"} /\ out' = out

Finish == verdict = "open" /\ (Clean \/ Error \/ Leave) /\ UNCHANGED <<frames, handled>>

Next == Take \/ Finish

Spec == Init /\ [][Next]_vars
=============================================================================
