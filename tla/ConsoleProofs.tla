---------------------------- MODULE ConsoleProofs ----------------------------
(***************************************************************************)
(* Proofs about the console: no wake-up of the live feed is lost, its      *)
(* subscribers are the handlers that run, and a login makes one account.   *)
(***************************************************************************)
EXTENDS Console, TLAPS

-----------------------------------------------------------------------------
(* The live feed *)

\* A change that is announced, or a tab that stops, will get a tab going.
Pending(t) == owes # {} \/ failing # {} \/ kicks > 0 \/ t \in queue \/ t \in stopped

\* The frame being sent shows what was announced, as Shows says of the last.
Carries(t) ==
  /\ frame[t].pool = pool
  /\ "inflight" \in want[t] => frame[t].flow = flow
  /\ want[t] = {"inflight", "tail"} => frame[t].tail

\* At each place of the loop, what the handler holds is up to date, or
\* something will get it going again.
Fresh(t) ==
  /\ pc[t] = "building" => Pending(t) \/ frame[t].pool = pool
  /\ pc[t] = "sending" => Pending(t) \/ Carries(t)
  /\ pc[t] = "waiting" => Pending(t) \/ Shows(t)

AllFresh == \A t \in Tabs : Fresh(t)
FeedInv == FeedTypeOK /\ SubscribersRun /\ AllFresh

LEMMA InitFeed == FeedInit => FeedInv
  BY DEF FeedInit, FeedInv, FeedTypeOK, SubscribersRun, AllFresh, Fresh, Blank, Frames, Open

LEMMA SameFeed == FeedInv /\ UNCHANGED feedVars => FeedInv'
  BY DEF FeedInv, FeedTypeOK, SubscribersRun, AllFresh, Fresh, Pending, Carries, Shows, Open,
         feedVars, shown, debts, feed, tab

\* A change owes a notification from then on; after an error event, what the
\* driver does next will.
LEMMA WorkerChanges ==
  ASSUME FeedInv, NEW w \in Workers,
         ChangePool(w) \/ ChangeFlow(w) \/ ErrorEvent(w) \/ AccountFailed(w)
  PROVE  FeedInv'
  <1> USE DEF ChangePool, ChangeFlow, ErrorEvent, AccountFailed, Changed
  <1>1. FeedTypeOK' /\ SubscribersRun'
    BY DEF FeedInv, FeedTypeOK, SubscribersRun, Open, feed, tab
  <1>2. w \in owes' \cup failing'
    OBVIOUS
  <1>3. AllFresh'
    BY <1>2 DEF AllFresh, Fresh, Pending
  <1> QED
    BY <1>1, <1>3 DEF FeedInv

LEMMA QuietChanges == FeedInv /\ ChangeQuietly => FeedInv'
  BY DEF FeedInv, FeedTypeOK, SubscribersRun, AllFresh, Fresh, Pending, Carries, Shows, Open,
         ChangeQuietly, debts, feed, tab

\* Whoever waits subscribes, so its notification is not dropped.
LEMMA Notified ==
  ASSUME FeedInv, NEW w \in Workers, Notify(w)
  PROVE  FeedInv'
  <1>1. FeedTypeOK' /\ SubscribersRun'
    BY DEF FeedInv, FeedTypeOK, SubscribersRun, Open, Notify, shown, tab
  <1>2. ASSUME NEW t \in Tabs PROVE Fresh(t)'
    <2>1. CASE subs = {}
      BY <2>1 DEF FeedInv, SubscribersRun, Open, Fresh, Notify, tab
    <2>2. CASE subs # {}
      <3>1. kicks' > 0
        BY <2>2 DEF Notify, FeedInv, FeedTypeOK
      <3> QED
        BY <3>1 DEF Fresh, Pending
    <2> QED
      BY <2>1, <2>2
  <1> QED
    BY <1>1, <1>2 DEF FeedInv, AllFresh

LEMMA Kicked == FeedInv /\ Kick => FeedInv'
  <1> SUFFICES ASSUME FeedInv, Kick PROVE FeedInv'
    OBVIOUS
  <1>1. FeedTypeOK' /\ SubscribersRun'
    BY DEF FeedInv, FeedTypeOK, SubscribersRun, Open, Kick, shown, debts, tab
  <1>2. ASSUME NEW t \in Tabs PROVE Fresh(t)'
    <2>1. Open(t) => t \in queue'
      BY DEF FeedInv, SubscribersRun, Kick
    <2> QED
      BY <2>1 DEF Fresh, Pending, Open, Kick, tab
  <1> QED
    BY <1>1, <1>2 DEF FeedInv, AllFresh

LEMMA Expired == ASSUME FeedInv, NEW t \in Tabs, Expire(t) PROVE FeedInv'
  BY DEF FeedInv, FeedTypeOK, SubscribersRun, AllFresh, Fresh, Pending, Carries, Shows, Open,
         Expire, shown, debts, feed, tab, FeedAssumption

\* What one tab does leaves the others as they are.
LEMMA OtherTabs ==
  ASSUME FeedInv, NEW u \in Tabs, UNCHANGED <<shown, debts, kicks>>,
         u \in queue => u \in queue', u \in stopped => u \in stopped',
         pc'[u] = pc[u], want'[u] = want[u], frame'[u] = frame[u], last'[u] = last[u]
  PROVE  Fresh(u)'
  BY DEF FeedInv, AllFresh, Fresh, Pending, Carries, Shows, shown, debts

LEMMA Opens ==
  ASSUME FeedInv, NEW t \in Tabs, Handshake(t) \/ Subscribe(t) \/ AcceptFails(t)
  PROVE  FeedInv'
  <1> USE DEF Handshake, Subscribe, AcceptFails, Goto
  <1>1. FeedTypeOK'
    BY DEF FeedInv, FeedTypeOK, shown, debts, feed
  <1>2. SubscribersRun'
    BY DEF FeedInv, FeedTypeOK, SubscribersRun, Open, feed
  <1>3. Fresh(t)'
    BY DEF FeedInv, FeedTypeOK, Fresh, Open
  <1>4. ASSUME NEW u \in Tabs, u # t PROVE Fresh(u)'
    <2>1. u \in queue => u \in queue'
      BY <1>4 DEF feed
    <2> QED
      BY <1>4, <2>1, OtherTabs DEF FeedInv, FeedTypeOK, feed
  <1> QED
    BY <1>1, <1>2, <1>3, <1>4 DEF FeedInv, AllFresh

\* The second half of a frame keeps the pool read in the first.
LEMMA Framed ==
  ASSUME FeedTypeOK, NEW t \in Tabs
  PROVE  /\ FrameOf(t) \in Frames
         /\ FrameOf(t).pool = frame[t].pool
         /\ "inflight" \in want[t] => FrameOf(t).flow = flow
         /\ want[t] = {"inflight", "tail"} => FrameOf(t).tail
  <1> DEFINE n == IF "inflight" \in want[t] THEN flow ELSE 0
             b == want[t] = {"inflight", "tail"}
  <1>1. frame[t] \in Frames /\ flow \in Nat
    BY DEF FeedTypeOK
  <1>2. n \in Nat /\ b \in BOOLEAN
    BY <1>1
  <1>3. FrameOf(t) = [frame[t] EXCEPT !.flow = n, !.tail = b]
    BY DEF FrameOf
  <1>4. "inflight" \in want[t] => n = flow
    OBVIOUS
  <1>5. want[t] = {"inflight", "tail"} => b
    OBVIOUS
  <1> HIDE DEF n, b
  <1>6. FrameOf(t) \in Frames
    BY <1>1, <1>2, <1>3 DEF Frames
  <1>7. FrameOf(t).pool = frame[t].pool /\ FrameOf(t).flow = n /\ FrameOf(t).tail = b
    BY <1>1, <1>3 DEF Frames
  <1> QED
    BY <1>4, <1>5, <1>6, <1>7

LEMMA Builds ==
  ASSUME FeedInv, NEW t \in Tabs, Leave(t) \/ Read(t) \/ Build(t) \/ Sent(t) \/ SendFails(t)
  PROVE  FeedInv'
  <1> USE DEF Leave, Read, Build, Send, Skip, Sent, SendFails, Goto
  <1>0. /\ FeedTypeOK /\ Fresh(t)
        /\ UNCHANGED <<shown, debts, feed, want, stopped, reading, expired, said>>
    BY DEF FeedInv, AllFresh
  <1>1. FrameOf(t) \in Frames /\ Blank \in Frames
    BY <1>0, Framed DEF Frames, Blank
  <1>2. FeedTypeOK'
    <2>1. [Blank EXCEPT !.pool = pool, !.quietly = quietly] \in Frames
      BY <1>0 DEF FeedTypeOK, Frames, Blank
    <2> QED
      BY <1>0, <1>1, <2>1 DEF FeedTypeOK, shown, debts, feed
  <1>3. SubscribersRun'
    <2>1. \A u \in Tabs : u # t => pc'[u] = pc[u]
      BY <1>0 DEF FeedTypeOK
    <2>2. Open(t) /\ (Open(t)' \/ pc'[t] = "closing")
      BY <1>0 DEF FeedTypeOK, Open
    <2> QED
      BY <1>0, <2>1, <2>2 DEF FeedInv, SubscribersRun, Open, feed
  <1>4. Fresh(t)'
    <2>1. CASE Leave(t) \/ SendFails(t)
      BY <1>0, <2>1 DEF FeedTypeOK, Fresh
    <2>2. CASE Read(t)
      BY <1>0, <2>2 DEF FeedTypeOK, Fresh, Blank, shown
    <2>3. CASE Send(t)
      <3>1. pc'[t] = "sending" /\ frame'[t] = FrameOf(t)
        BY <1>0, <2>3 DEF FeedTypeOK
      <3> QED
        BY <1>0, <2>3, <3>1, Framed DEF Fresh, Pending, Carries, shown, debts, feed
    <2>4. CASE Skip(t)
      <3>1. pc'[t] = "waiting" /\ last'[t] = FrameOf(t)
        BY <1>0, <2>4 DEF FeedTypeOK
      <3> QED
        BY <1>0, <2>4, <3>1, Framed DEF Fresh, Pending, Shows, shown, debts, feed
    <2>5. CASE Sent(t)
      <3>1. pc'[t] = "waiting" /\ last'[t] = frame[t]
        BY <1>0, <2>5 DEF FeedTypeOK
      <3> QED
        BY <1>0, <2>5, <3>1 DEF Fresh, Pending, Carries, Shows, shown, debts, feed
    <2> QED
      BY <2>1, <2>2, <2>3, <2>4, <2>5
  <1>5. ASSUME NEW u \in Tabs, u # t PROVE Fresh(u)'
    BY <1>0, <1>5, OtherTabs DEF FeedTypeOK, feed
  <1> QED
    BY <1>2, <1>3, <1>4, <1>5 DEF FeedInv, AllFresh

LEMMA Goes ==
  ASSUME FeedInv, NEW t \in Tabs, Wake(t) \/ Tick(t) \/ CloseTab(t)
  PROVE  FeedInv'
  <1> USE DEF Wake, Tick, CloseTab, Goto
  <1>0. Blank \in Frames
    BY DEF Blank, Frames
  <1>1. FeedTypeOK'
    BY <1>0 DEF FeedInv, FeedTypeOK, shown, debts, feed
  <1>2. SubscribersRun'
    BY DEF FeedInv, FeedTypeOK, SubscribersRun, Open, feed
  <1>3. Fresh(t)'
    BY DEF FeedInv, FeedTypeOK, Fresh
  <1>4. ASSUME NEW u \in Tabs, u # t PROVE Fresh(u)'
    <2>1. (u \in queue => u \in queue') /\ (u \in stopped => u \in stopped')
      BY <1>4 DEF feed
    <2> QED
      BY <1>4, <2>1, OtherTabs DEF FeedInv, FeedTypeOK, feed
  <1> QED
    BY <1>1, <1>2, <1>3, <1>4 DEF FeedInv, AllFresh

\* A declaration fills the queue or ends the reader; a withdrawal asks for
\* less than was sent.
LEMMA Browses ==
  ASSUME FeedInv, NEW t \in Tabs, Declare(t) \/ Withdraw(t) \/ Disconnect(t)
  PROVE  FeedInv'
  <1>1. FeedTypeOK'
    BY DEF FeedInv, FeedTypeOK, shown, debts, feed, Declare, Withdraw, Disconnect, Reads
  <1>2. SubscribersRun'
    BY DEF FeedInv, FeedTypeOK, SubscribersRun, Open, feed, Declare, Withdraw, Disconnect
  <1>3. Fresh(t)'
    <2>1. CASE Declare(t)
      <3>1. t \in queue'
        BY <2>1 DEF Declare
      <3> QED
        BY <3>1 DEF Fresh, Pending
    <2>2. CASE Withdraw(t)
      <3>1. want'[t] \subseteq want[t] /\ "tail" \notin want'[t]
        BY <2>2 DEF Withdraw, FeedInv, FeedTypeOK
      <3> QED
        BY <2>2, <3>1 DEF Withdraw, FeedInv, AllFresh, Fresh, Pending, Carries, Shows, shown, debts, feed
    <2>3. CASE Disconnect(t)
      BY <2>3 DEF Disconnect, Fresh, Pending
    <2> QED
      BY <2>1, <2>2, <2>3
  <1>4. ASSUME NEW u \in Tabs, u # t PROVE Fresh(u)'
    <2>1. (u \in queue => u \in queue') /\ (u \in stopped => u \in stopped')
      BY <1>4 DEF feed, Declare, Withdraw, Disconnect
    <2> QED
      BY <1>4, <2>1, OtherTabs DEF FeedInv, FeedTypeOK, feed, Declare, Withdraw, Disconnect
  <1> QED
    BY <1>1, <1>2, <1>3, <1>4 DEF FeedInv, AllFresh

LEMMA LoopKeeps == FeedInv /\ LoopStep => FeedInv'
  BY Kicked, Opens, Builds, Goes, Browses DEF LoopStep, Building, TabStep, Browser

LEMMA ClockKeeps == FeedInv /\ ClockStep => FeedInv'
  BY QuietChanges, Expired DEF ClockStep

-----------------------------------------------------------------------------
(* The logins *)

\* A call that took its login, and may make or has made its account.
Holds(c) == call[c].at \in {"exchanging", "adding"} \/ call[c].made

\* A login that was taken is gone for everyone else.
Owned ==
  \A c \in Calls :
    /\ Holds(c) => call[c].login \in started \ (flows \cup cancelled)
    /\ \A d \in Calls \ {c} : Holds(c) /\ Holds(d) => call[c].login # call[d].login
    /\ call[c].at \in {"idle", "exchanging", "adding"} => ~call[c].made

LoginInv == LoginTypeOK /\ flows \cap cancelled = {} /\ Owned

LEMMA InitLogin == LoginInit => LoginInv
  BY DEF LoginInit, LoginInv, LoginTypeOK, Owned, Holds, NewCall, Call, CallPc

LEMMA SameLogin == LoginInv /\ UNCHANGED loginVars => LoginInv'
  BY DEF LoginInv, LoginTypeOK, Owned, Holds, loginVars, logins

LEMMA Pends ==
  ASSUME LoginInv, NEW f \in Logins, Start(f) \/ Age(f) \/ Cancel(f)
  PROVE  LoginInv'
  BY DEF LoginInv, LoginTypeOK, Owned, Holds, Start, Age, Cancel

\* A step of one call that leaves its login and the pending ones alone, and
\* makes its account only where the call holds its login.
LEMMA CallMoves ==
  ASSUME LoginInv, NEW c \in Calls, UNCHANGED logins, stored' \subseteq Tokens,
         NEW r \in Call, call' = [call EXCEPT ![c] = r], r.login = call[c].login,
         r.at \in {"exchanging", "adding"} \/ r.made => Holds(c),
         r.at \in {"idle", "exchanging", "adding"} => ~r.made
  PROVE  LoginInv'
  <1>1. LoginTypeOK' /\ (flows \cap cancelled = {})'
    BY DEF LoginInv, LoginTypeOK, logins
  <1>2. /\ call'[c] = r /\ \A d \in Calls \ {c} : call'[d] = call[d]
        /\ UNCHANGED <<started, flows, cancelled>>
    BY DEF LoginInv, LoginTypeOK, logins
  <1>3. (Holds(c)' => Holds(c)) /\ \A d \in Calls \ {c} : Holds(d)' <=> Holds(d)
    BY <1>2 DEF Holds
  <1>4. Owned'
    BY <1>2, <1>3 DEF LoginInv, Owned
  <1> QED
    BY <1>1, <1>4 DEF LoginInv

LEMMA Taken ==
  ASSUME LoginInv, NEW c \in Calls, NEW f \in Logins, Take(c, f)
  PROVE  LoginInv'
  <1> DEFINE a == IF f \in flows \ aged THEN "exchanging" ELSE "refused"
             r == [call[c] EXCEPT !.at = a, !.login = f]
  <1>1. /\ call[c] \in Call /\ f \in started /\ call[c].at = "idle" /\ ~call[c].made
        /\ UNCHANGED <<started, cancelled, stored>>
        /\ flows' = flows \ {f} /\ aged' = aged \ {f}
    BY DEF LoginInv, LoginTypeOK, Owned, Take
  <1>2. /\ r \in Call /\ r.at = a /\ r.login = f /\ ~r.made
        /\ a \in {"exchanging", "refused"} /\ (a = "exchanging" => f \in flows)
    BY <1>1 DEF Call, CallPc
  <1>3. call' = [call EXCEPT ![c] = r]
    BY DEF Take, LoginInv, LoginTypeOK
  <1> HIDE DEF r, a
  <1>4. LoginTypeOK' /\ (flows \cap cancelled = {})'
    BY <1>1, <1>2, <1>3 DEF LoginInv, LoginTypeOK
  <1>5. call'[c] = r /\ \A d \in Calls \ {c} : call'[d] = call[d]
    BY <1>3 DEF LoginInv, LoginTypeOK
  <1>6. (Holds(c)' => f \in flows) /\ \A d \in Calls \ {c} : Holds(d)' <=> Holds(d)
    BY <1>2, <1>5 DEF Holds
  <1>7. Owned'
    BY <1>1, <1>2, <1>5, <1>6 DEF LoginInv, Owned
  <1> QED
    BY <1>4, <1>7 DEF LoginInv

LEMMA CallGoesOn ==
  ASSUME LoginInv, NEW c \in Calls, Exchange(c) \/ Insert(c) \/ Load(c) \/ Name(c)
  PROVE  LoginInv'
  <1>1. call[c] \in Call /\ (call[c].at \in {"idle", "exchanging", "adding"} => ~call[c].made)
    BY DEF LoginInv, LoginTypeOK, Owned
  <1>2. CASE Exchange(c)
    <2>1. ASSUME NEW k \in Tokens, call' = [call EXCEPT ![c].at = "adding", ![c].token = k]
          PROVE  LoginInv'
      <3> DEFINE r == [call[c] EXCEPT !.at = "adding", !.token = k]
      <3>1. r \in Call /\ r.login = call[c].login /\ r.at = "adding" /\ ~r.made /\ Holds(c)
        BY <1>1, <1>2 DEF Call, CallPc, Exchange, Holds
      <3>2. call' = [call EXCEPT ![c] = r]
        BY <2>1 DEF LoginInv, LoginTypeOK
      <3> HIDE DEF r
      <3> QED
        BY <1>2, <3>1, <3>2, CallMoves DEF Exchange, LoginInv, LoginTypeOK
    <2>2. ASSUME call' = [call EXCEPT ![c].at = "refused"]
          PROVE  LoginInv'
      <3> DEFINE r == [call[c] EXCEPT !.at = "refused"]
      <3>1. r \in Call /\ r.login = call[c].login /\ r.at = "refused" /\ ~r.made
        BY <1>1, <1>2 DEF Call, CallPc, Exchange
      <3>2. call' = [call EXCEPT ![c] = r]
        BY <2>2 DEF LoginInv, LoginTypeOK
      <3> HIDE DEF r
      <3> QED
        BY <1>2, <3>1, <3>2, CallMoves DEF Exchange, LoginInv, LoginTypeOK
    <2> QED
      BY <1>2, <2>1, <2>2 DEF Exchange
  <1>3. CASE Insert(c)
    <2>1. CASE call[c].token \in stored
      <3> DEFINE r == [call[c] EXCEPT !.at = "refused"]
      <3>1. r \in Call /\ r.login = call[c].login /\ r.at = "refused" /\ ~r.made
        BY <1>1, <1>3 DEF Call, CallPc, Insert
      <3>2. call' = [call EXCEPT ![c] = r] /\ stored' = stored /\ UNCHANGED logins
        BY <1>3, <2>1 DEF Insert, LoginInv, LoginTypeOK
      <3> HIDE DEF r
      <3> QED
        BY <3>1, <3>2, CallMoves DEF LoginInv, LoginTypeOK
    <2>2. CASE call[c].token \notin stored
      <3> DEFINE r == [call[c] EXCEPT !.at = "loading", !.made = TRUE]
      <3>1. r \in Call /\ r.login = call[c].login /\ r.at = "loading" /\ Holds(c)
        BY <1>1, <1>3 DEF Call, CallPc, Insert, Holds
      <3>2. call' = [call EXCEPT ![c] = r] /\ UNCHANGED logins
        BY <1>3, <2>2 DEF Insert, LoginInv, LoginTypeOK
      <3>3. stored' \subseteq Tokens
        BY <1>1, <1>3, <2>2 DEF Insert, LoginInv, LoginTypeOK, Call, LoginAssumption
      <3> HIDE DEF r
      <3> QED
        BY <3>1, <3>2, <3>3, CallMoves
    <2> QED
      BY <2>1, <2>2
  <1>4. CASE Load(c) \/ Name(c)
    <2>0. PICK a \in {"naming", "refused", "added"} : call' = [call EXCEPT ![c].at = a]
      BY <1>4 DEF Load, Name
    <2> DEFINE r == [call[c] EXCEPT !.at = a]
    <2>1. call' = [call EXCEPT ![c] = r] /\ UNCHANGED <<logins, stored>>
      BY <1>4, <2>0 DEF Load, Name, LoginInv, LoginTypeOK
    <2>2. r \in Call /\ r.login = call[c].login /\ r.at = a /\ r.made = call[c].made
      BY <1>1, <2>1 DEF Call, CallPc
    <2>3. r.at \in {"exchanging", "adding"} \/ r.made => Holds(c)
      BY <2>1, <2>2 DEF Holds
    <2> HIDE DEF r
    <2> QED
      BY <2>1, <2>2, <2>3, CallMoves DEF LoginInv, LoginTypeOK
  <1> QED
    BY <1>2, <1>3, <1>4

LEMMA AccountRemoved == ASSUME LoginInv, NEW k \in Tokens, Remove(k) PROVE LoginInv'
  BY DEF LoginInv, LoginTypeOK, Owned, Holds, Remove, logins

-----------------------------------------------------------------------------
(* The console *)

ConsoleInv == FeedInv /\ LoginInv

LEMMA InitConsole == Init => ConsoleInv
  BY InitFeed, InitLogin DEF Init, ConsoleInv

LEMMA NextConsole == ConsoleInv /\ [Next]_consoleVars => ConsoleInv'
  <1> SUFFICES ASSUME ConsoleInv, [Next]_consoleVars PROVE FeedInv' /\ LoginInv'
    BY DEF ConsoleInv
  <1> USE DEF ConsoleInv
  <1>1. CASE (LoopStep \/ ClockStep) /\ UNCHANGED loginVars
    BY <1>1, LoopKeeps, ClockKeeps, SameLogin
  <1>2. CASE \E w \in Workers : Notify(w) /\ UNCHANGED loginVars
    BY <1>2, Notified, SameLogin
  <1>3. CASE \E w \in Workers \ Calls : WorkerStep(w) /\ UNCHANGED loginVars
    BY <1>3, WorkerChanges, Notified, SameLogin DEF WorkerStep
  <1>4. CASE LoginStep /\ UNCHANGED feedVars
    BY <1>4, SameFeed, Pends, Taken, CallGoesOn DEF LoginStep
  <1>5. CASE \E c \in Calls : Added(c) \/ Named(c)
    BY <1>5, ConsoleAssumption, WorkerChanges, QuietChanges, SameFeed, CallGoesOn DEF Added, Named
  <1>6. CASE \E w \in Removers : Changes < MaxChanges /\ Removed(w)
    BY <1>6, ConsoleAssumption, WorkerChanges, AccountRemoved DEF Removed
  <1>7. CASE UNCHANGED consoleVars
    BY <1>7, SameFeed, SameLogin DEF consoleVars
  <1> QED
    BY <1>1, <1>2, <1>3, <1>4, <1>5, <1>6, <1>7 DEF Next

\* The variables of the feed and of the logins are well typed.
THEOREM ConsoleTypeOK == Spec => [](FeedTypeOK /\ LoginTypeOK)
  <1>1. ConsoleInv => FeedTypeOK /\ LoginTypeOK
    BY DEF ConsoleInv, FeedInv, LoginInv
  <1> QED
    BY <1>1, InitConsole, NextConsole, PTL DEF Spec

\* A tab that sleeps with no wake-up pending shows what was announced: kicks
\* that find a full queue, and notifications that find no subscriber, lose
\* nothing (notify, _kick and the loop of live_ws).
THEOREM FeedLosesNoWakeup == Spec => []NoLostWakeup
  <1>1. ConsoleInv => NoLostWakeup
    BY DEF ConsoleInv, FeedInv, AllFresh, Fresh, Pending, NoLostWakeup, FeedTypeOK
  <1> QED
    BY <1>1, InitConsole, NextConsole, PTL DEF Spec

\* Whatever ends a handler, its queue leaves the feed (the finally clause of
\* live_ws), and no handler runs without one.
THEOREM FeedKeepsNoDeadQueue == Spec => []SubscribersRun
  <1>1. ConsoleInv => SubscribersRun
    BY DEF ConsoleInv, FeedInv
  <1> QED
    BY <1>1, InitConsole, NextConsole, PTL DEF Spec

\* complete_flow takes the login out of _flows before anything else, so no
\* two calls, and no cancelled login, make an account.
THEOREM LoginMakesOneAccount == Spec => []OneAccountPerLogin
  <1>1. ConsoleInv => OneAccountPerLogin
    BY DEF ConsoleInv, LoginInv, Owned, Holds, OneAccountPerLogin
  <1> QED
    BY <1>1, InitConsole, NextConsole, PTL DEF Spec
=============================================================================
