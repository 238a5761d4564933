--------------------------- MODULE MCRequestLife ---------------------------
(* Instances of RequestLife for TLC: which request uses which transport. *)
EXTENDS RequestLife

TransportOf ==
  [r \in Requests |-> CASE r \in {"p"} -> "plain" [] r \in {"c"} -> "chat"
                        [] r \in {"s"} -> "responses" [] OTHER -> "ws"]
KeyOf == [r \in Requests |-> IF r = "p" THEN "free" ELSE "limited"]

LimitOne == [k \in Keys |-> IF k = "free" THEN 0 ELSE 1]
=============================================================================
