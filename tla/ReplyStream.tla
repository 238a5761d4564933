---------------------------- MODULE ReplyStream ----------------------------
(***************************************************************************)
(* What one chat request promises its client, whatever accounts are tried: *)
(* pieces of content that all come from one upstream call, then exactly    *)
(* one verdict.  A live (streaming) reply may fail after pieces were sent; *)
(* a buffered one is all or nothing.                                       *)
(***************************************************************************)
EXTENDS Naturals

VARIABLES
  live,     \* whether pieces are forwarded as they arrive
  sent,     \* number of pieces the client received
  sources,  \* the upstream calls those pieces came from
  verdict   \* "open", "ok", "error", or "gone" when the client left

vars == <<live, sent, sources, verdict>>

TypeOK == live \in BOOLEAN /\ sent \in Nat /\ sources \subseteq Nat
          /\ verdict \in {"open", "ok", "error", "gone"}

Init == live \in BOOLEAN /\ sent = 0 /\ sources = {} /\ verdict = "open"

Piece ==
  /\ verdict = "open"
  /\ sent' = sent + 1
  /\ sources \subseteq sources' /\ sources' \subseteq Nat
  /\ sources' # {} /\ \A c, d \in sources' : c = d
  /\ UNCHANGED <<live, verdict>>

Verdict ==
  /\ verdict = "open"
  /\ verdict' \in {"ok", "error", "gone"}
  /\ verdict' = "error" /\ ~live => sent = 0
  /\ UNCHANGED <<live, sent, sources>>

Next == Piece \/ Verdict

Spec == Init /\ [][Next]_vars
=============================================================================
