----------------------------- MODULE LoginFlows -----------------------------
(***************************************************************************)
(* The OAuth (PKCE) logins of the console: start_flow, cancel_flow and     *)
(* complete_flow of devin_proxy/accounts.py, called by the handlers of     *)
(* devin_proxy/admin_routes/oauth.py, each on a thread of its own.         *)
(*                                                                         *)
(* A login pends in _flows, under _flow_lock, until it is completed,       *)
(* cancelled, or swept by a later start because FLOW_TTL has passed.       *)
(* Completing one takes it out, exchanges the pasted code for a token,     *)
(* adds an account for the token and asks who it belongs to.               *)
(***************************************************************************)
EXTENDS FiniteSets

CONSTANTS
  Logins,   \* ids of logins
  Calls,    \* threads that complete a login
  Tokens,   \* the session tokens upstream may return
  NoLogin, NoToken

ASSUME LoginAssumption == NoLogin \notin Logins /\ NoToken \notin Tokens

VARIABLES
  started,    \* logins ever started
  flows,      \* the keys of _flows
  aged,       \* pending logins older than FLOW_TTL
  cancelled,  \* logins whose cancellation was answered {"ok": true}
  stored,     \* tokens with an account row
  call        \* the complete_flow calls

logins == <<started, flows, aged, cancelled>>
loginVars == <<logins, stored, call>>

\* made: the call inserted an account.
CallPc == {"idle", "exchanging", "adding", "loading", "naming", "added", "refused"}
Call == [at : CallPc, login : Logins \cup {NoLogin}, token : Tokens \cup {NoToken},
         made : BOOLEAN]
NewCall == [at |-> "idle", login |-> NoLogin, token |-> NoToken, made |-> FALSE]

-----------------------------------------------------------------------------

\* start_flow sweeps the logins that were never completed.
Start(f) ==
  /\ f \notin started
  /\ started' = started \cup {f}
  /\ flows' = (flows \ aged) \cup {f} /\ aged' = {}
  /\ UNCHANGED <<cancelled, stored, call>>

\* FLOW_TTL passes.
Age(f) ==
  /\ f \in flows \ aged
  /\ aged' = aged \cup {f}
  /\ UNCHANGED <<started, flows, cancelled, stored, call>>

\* cancel_flow of a login that pends; any other is answered {"ok": false}.
Cancel(f) ==
  /\ f \in flows
  /\ flows' = flows \ {f} /\ aged' = aged \ {f} /\ cancelled' = cancelled \cup {f}
  /\ UNCHANGED <<started, stored, call>>

Take_LeavesIt(c, f) ==
  /\ call[c].at = "idle" /\ f \in started
  /\ call' = [call EXCEPT ![c].at = IF f \in flows \ aged THEN "exchanging" ELSE "refused",
                          ![c].login = f]
  /\ UNCHANGED <<logins, stored>>

\* complete_flow takes the login out before it looks at its age.
Take(c, f) ==
  /\ call[c].at = "idle" /\ f \in started
  /\ flows' = flows \ {f} /\ aged' = aged \ {f}
  /\ call' = [call EXCEPT ![c].at = IF f \in flows \ aged THEN "exchanging" ELSE "refused",
                          ![c].login = f]
  /\ UNCHANGED <<started, cancelled, stored>>

\* _exchange_code: one of three endpoints returns a token, or none does.
Exchange(c) ==
  /\ call[c].at = "exchanging"
  /\ \/ \E k \in Tokens : call' = [call EXCEPT ![c].at = "adding", ![c].token = k]
     \/ call' = [call EXCEPT ![c].at = "refused"]
  /\ UNCHANGED <<logins, stored>>

\* Pool.add: a token that is already known is a duplicate.
Insert(c) ==
  /\ call[c].at = "adding"
  /\ IF call[c].token \in stored
       THEN stored' = stored /\ call' = [call EXCEPT ![c].at = "refused"]
       ELSE /\ stored' = stored \cup {call[c].token}
            /\ call' = [call EXCEPT ![c].at = "loading", ![c].made = TRUE]
  /\ UNCHANGED logins

\* The reload at the end of Pool.add and the look-up of the new object,
\* which is gone if the account was removed meanwhile.
Load(c) ==
  /\ call[c].at = "loading"
  /\ call' = [call EXCEPT ![c].at = IF call[c].token \in stored THEN "naming" ELSE "refused"]
  /\ UNCHANGED <<logins, stored>>

\* fetch_identity, the label, and their persist(); the name may stay unknown.
Name(c) ==
  /\ call[c].at = "naming"
  /\ call' = [call EXCEPT ![c].at = "added"]
  /\ UNCHANGED <<logins, stored>>

\* An admin deletes an account.
Remove(k) ==
  /\ k \in stored
  /\ stored' = stored \ {k}
  /\ UNCHANGED <<logins, call>>

LoginInit ==
  /\ started = {} /\ flows = {} /\ aged = {} /\ cancelled = {}
  /\ stored \in SUBSET Tokens
  /\ call = [c \in Calls |-> NewCall]

\* What changes nothing the console shows.
LoginStep ==
  \/ \E f \in Logins : Start(f) \/ Age(f) \/ Cancel(f) \/ \E c \in Calls : Take(c, f)
  \/ \E c \in Calls : Exchange(c) \/ Insert(c)

-----------------------------------------------------------------------------
(* Properties *)

LoginTypeOK ==
  /\ started \subseteq Logins /\ flows \subseteq started /\ aged \subseteq flows
  /\ cancelled \subseteq started
  /\ stored \subseteq Tokens
  /\ call \in [Calls -> Call]

\* A login makes one account at most, whoever completes it how often, and
\* none once its cancellation was answered with ok.
OneAccountPerLogin ==
  \A c \in Calls :
    call[c].made =>
      /\ call[c].login \notin cancelled
      /\ \A d \in Calls \ {c} : call[d].made => call[d].login # call[c].login
=============================================================================
