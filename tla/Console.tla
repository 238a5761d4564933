------------------------------- MODULE Console -------------------------------
(***************************************************************************)
(* The console while logins complete: each complete_flow call is a thread  *)
(* that changes the pool the live feed shows, and notifies, as the threads *)
(* of the requests do.                                                     *)
(***************************************************************************)
EXTENDS LiveFeed, LoginFlows

CONSTANT Removers  \* threads that delete accounts too: a thread of the pool runs
                   \* the driver of a request or a handler of the console

ASSUME ConsoleAssumption ==
  /\ Calls \subseteq Workers /\ Removers \subseteq Workers

consoleVars == <<feedVars, loginVars>>

Added(c) == Load(c) /\ ChangePool(c)

\* Pool._notify runs in the call's own thread: it goes on afterwards.  The
\* name is set on the Account object, and nobody is notified.
Named(c) ==
  /\ c \notin owes
  /\ Name(c)
  /\ ChangeQuietly \/ UNCHANGED feedVars

\* Pool.remove: the row is deleted before the object leaves the pool.
Removed(w) == (\E k \in Tokens : Remove(k)) /\ ChangePool(w)

Init == FeedInit /\ LoginInit

Next ==
  \/ (LoopStep \/ ClockStep) /\ UNCHANGED loginVars
  \/ \E w \in Workers : Notify(w) /\ UNCHANGED loginVars
  \/ \E w \in Workers \ Calls : WorkerStep(w) /\ UNCHANGED loginVars
  \/ LoginStep /\ UNCHANGED feedVars
  \/ \E c \in Calls : Added(c) \/ Named(c)
  \/ \E w \in Removers : Changes < MaxChanges /\ Removed(w)

Spec == Init /\ [][Next]_consoleVars /\ FeedFairness
=============================================================================
