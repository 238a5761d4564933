--------------------------- MODULE MCAccountPool ---------------------------
(* Instances of AccountPool for TLC: who shares a session, who is forced. *)
EXTENDS AccountPool, TLC

CONSTANTS r1, s1

NoSessions == [r \in Requests |-> NoSession]
OneSession == [r \in Requests |-> s1]
FirstSession == [r \in Requests |-> IF r = r1 THEN s1 ELSE NoSession]

NobodyForced == [r \in Requests |-> 0]
FirstForced == [r \in Requests |-> IF r = r1 THEN 1 ELSE 0]

Interchangeable == Permutations(Requests) \cup Permutations(Tokens) \cup Permutations(Admins)

=============================================================================
