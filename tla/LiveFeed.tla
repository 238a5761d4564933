------------------------------ MODULE LiveFeed ------------------------------
(***************************************************************************)
(* The live feed of the console, devin_proxy/admin_routes/live.py: worker  *)
(* threads change what the console shows and notify; the event loop turns  *)
(* notifications into wake-ups, one slot per subscriber; the task of each  *)
(* WebSocket pushes a frame whenever what it shows has changed, and a      *)
(* reader task takes what the browser declares.                            *)
(*                                                                         *)
(* The event loop runs one task at a time, so what a task does between two *)
(* awaits is one action; but worker threads run while _live_frame reads    *)
(* the pool and then the in-flight list, so a frame is built in two.       *)
(* What is shown is represented by version numbers.                        *)
(***************************************************************************)
EXTENDS Naturals, FiniteSets

CONSTANTS
  Workers,     \* threads that change the pool or the in-flight list
  Tabs,        \* WebSocket handshakes of consoles
  ByCookie,    \* those that are bound to a session's expiry
  MaxSubs,     \* _MAX_SUBS
  MaxChanges,  \* bound: changes of what is shown
  MaxSaid      \* bound: declarations of one tab

ASSUME FeedAssumption ==
  /\ ByCookie \subseteq Tabs
  /\ MaxSubs \in Nat /\ MaxChanges \in Nat /\ MaxSaid \in Nat

VARIABLES
  (* what the console shows *)
  pool, flow, \* versions of the pool and of the in-flight list
  quietly,    \* version of what changes without a notification: cooldowns
              \* that run out, names, _data_version
  owes,       \* workers between a change and its notify()
  failing,    \* workers between an error event and what they do about it
  (* the feed *)
  kicks,      \* _kick callbacks scheduled on the loop
  subs,       \* LiveFeed._subs
  queue,      \* subscribers whose 1-slot queue is full
  (* each tab's tasks *)
  pc, want, stopped, reading,
  frame,      \* the frame being sent
  last,       \* last_key
  expired,    \* tabs whose session is over
  said

\* Versions start at 1: the frame that shows nothing yet.
Frames == [pool : Nat, quietly : Nat, flow : Nat, tail : BOOLEAN]
Blank == [pool |-> 0, quietly |-> 0, flow |-> 0, tail |-> FALSE]

shown == <<pool, flow, quietly>>
feed == <<kicks, subs, queue>>
tab == <<pc, want, stopped, reading, frame, last>>
debts == <<owes, failing>>
feedVars == <<shown, debts, feed, tab, expired, said>>

-----------------------------------------------------------------------------
(* The workers *)

Changes == (pool + flow + quietly) - 3

\* The state changes under its own lock; notify() follows.
Changed(w) ==
  /\ w \notin owes \cup failing
  /\ owes' = owes \cup {w} /\ UNCHANGED failing

ChangePool(w) ==
  /\ pool' = pool + 1 /\ Changed(w)
  /\ UNCHANGED <<flow, quietly, feed, tab, expired, said>>

ChangeFlow(w) ==
  /\ flow' = flow + 1 /\ Changed(w)
  /\ UNCHANGED <<pool, quietly, feed, tab, expired, said>>

\* InflightTracker.event given an error: the entry changes, but the method
\* returns before its _kick.
ErrorEvent(w) ==
  /\ w \notin owes \cup failing
  /\ flow' = flow + 1 /\ failing' = failing \cup {w}
  /\ UNCHANGED <<pool, quietly, owes, feed, tab, expired, said>>

\* The driver then marks the account failed, or only releases it: either
\* changes the pool, and Pool._notify is the feed's notify.
AccountFailed_Silent(w) ==
  /\ w \in failing
  /\ failing' = failing \ {w} /\ UNCHANGED owes
  /\ pool' = pool + 1
  /\ UNCHANGED <<flow, quietly, feed, tab, expired, said>>

AccountFailed(w) ==
  /\ w \in failing
  /\ failing' = failing \ {w} /\ owes' = owes \cup {w}
  /\ pool' = pool + 1
  /\ UNCHANGED <<flow, quietly, feed, tab, expired, said>>

\* Nobody is told.
ChangeQuietly ==
  /\ quietly' = quietly + 1
  /\ UNCHANGED <<pool, flow, debts, feed, tab, expired, said>>

\* LiveFeed.notify: without a subscriber there is nobody to wake.
Notify(w) ==
  /\ w \in owes
  /\ owes' = owes \ {w}
  /\ kicks' = IF subs = {} THEN kicks ELSE kicks + 1
  /\ UNCHANGED <<shown, failing, subs, queue, tab, expired, said>>

-----------------------------------------------------------------------------
(* The event loop *)

\* _kick: a full queue means a wake-up is already pending.
Kick ==
  /\ kicks > 0
  /\ kicks' = kicks - 1
  /\ queue' = queue \cup subs
  /\ UNCHANGED <<shown, debts, subs, tab, expired, said>>

Goto(t, l) == pc' = [pc EXCEPT ![t] = l]

\* The cap is looked at before accept() is awaited.
Handshake(t) ==
  /\ pc[t] = "new"
  /\ Goto(t, IF Cardinality(subs) >= MaxSubs THEN "over" ELSE "accepting")
  /\ UNCHANGED <<shown, debts, feed, want, stopped, reading, frame, last, expired, said>>

Subscribe(t) ==
  /\ pc[t] = "accepting"
  /\ subs' = subs \cup {t} /\ queue' = queue \ {t}
  /\ reading' = reading \cup {t}
  /\ Goto(t, "top")
  /\ UNCHANGED <<shown, debts, kicks, want, stopped, frame, last, expired, said>>

AcceptFails(t) ==
  /\ pc[t] = "accepting"
  /\ Goto(t, "over")
  /\ UNCHANGED <<shown, debts, feed, want, stopped, reading, frame, last, expired, said>>

\* _live_frame reads the pool, and then the list if the tab asked for it.
FrameOf(t) ==
  [frame[t] EXCEPT !.flow = IF "inflight" \in want[t] THEN flow ELSE 0,
                   !.tail = want[t] = {"inflight", "tail"}]

LeavesLoop_StoppedOnly(t) == t \in stopped

\* stopped is set, or the session behind the cookie has expired.
LeavesLoop(t) == t \in stopped \/ t \in expired

Leave(t) ==
  /\ pc[t] = "top" /\ LeavesLoop(t)
  /\ Goto(t, "closing")
  /\ UNCHANGED <<shown, debts, feed, want, stopped, reading, frame, last, expired, said>>

Read(t) ==
  /\ pc[t] = "top" /\ ~LeavesLoop(t)
  /\ frame' = [frame EXCEPT ![t] = [Blank EXCEPT !.pool = pool, !.quietly = quietly]]
  /\ Goto(t, "building")
  /\ UNCHANGED <<shown, debts, feed, want, stopped, reading, last, expired, said>>

\* A frame is sent if it differs from the last one.
Send(t) ==
  /\ pc[t] = "building" /\ FrameOf(t) # last[t]
  /\ frame' = [frame EXCEPT ![t] = FrameOf(t)]
  /\ Goto(t, "sending")
  /\ UNCHANGED <<shown, debts, feed, want, stopped, reading, last, expired, said>>

\* An unchanged frame is sent again after _HEARTBEAT_S only; it changes
\* nothing here.
Skip(t) ==
  /\ pc[t] = "building" /\ FrameOf(t) = last[t]
  /\ frame' = [frame EXCEPT ![t] = Blank]
  /\ Goto(t, "waiting")
  /\ UNCHANGED <<shown, debts, feed, want, stopped, reading, last, expired, said>>

Sent_ClearsWakeup(t) ==
  /\ pc[t] = "sending"
  /\ last' = [last EXCEPT ![t] = frame[t]]
  /\ frame' = [frame EXCEPT ![t] = Blank]
  /\ queue' = queue \ {t}
  /\ Goto(t, "waiting")
  /\ UNCHANGED <<shown, debts, kicks, subs, want, stopped, reading, expired, said>>

Sent(t) ==
  /\ pc[t] = "sending"
  /\ last' = [last EXCEPT ![t] = frame[t]]
  /\ frame' = [frame EXCEPT ![t] = Blank]
  /\ Goto(t, "waiting")
  /\ UNCHANGED <<shown, debts, feed, want, stopped, reading, expired, said>>

SendFails(t) ==
  /\ pc[t] = "sending"
  /\ frame' = [frame EXCEPT ![t] = Blank]
  /\ Goto(t, "closing")
  /\ UNCHANGED <<shown, debts, feed, want, stopped, reading, last, expired, said>>

\* wait_for(q.get(), wait): a wake-up, or the one-second tick.
Wake(t) ==
  /\ pc[t] = "waiting" /\ t \in queue
  /\ queue' = queue \ {t}
  /\ Goto(t, "top")
  /\ UNCHANGED <<shown, debts, kicks, subs, want, stopped, reading, frame, last, expired, said>>

Tick_IfWatching(t) ==
  /\ pc[t] = "waiting" /\ t \notin queue /\ "inflight" \in want[t]
  /\ Goto(t, "top")
  /\ UNCHANGED <<shown, debts, feed, want, stopped, reading, frame, last, expired, said>>

Tick(t) ==
  /\ pc[t] = "waiting" /\ t \notin queue
  /\ Goto(t, "top")
  /\ UNCHANGED <<shown, debts, feed, want, stopped, reading, frame, last, expired, said>>

\* The finally clause; what the handler knew goes with it.
CloseTab(t) ==
  /\ pc[t] = "closing"
  /\ stopped' = stopped \cup {t} /\ reading' = reading \ {t}
  /\ subs' = subs \ {t} /\ queue' = queue \ {t}
  /\ want' = [want EXCEPT ![t] = {}] /\ last' = [last EXCEPT ![t] = Blank]
  /\ said' = [said EXCEPT ![t] = 0]
  /\ Goto(t, "over")
  /\ UNCHANGED <<shown, debts, kicks, frame, expired>>

-----------------------------------------------------------------------------
(* The reader task *)

Reads(t) ==
  /\ t \in reading /\ said[t] < MaxSaid
  /\ said' = [said EXCEPT ![t] = @ + 1]

\* {"sub": ...}: a fresh frame at once.  put_nowait raises when the queue is
\* full, and the exception ends the reader.
Declare(t) ==
  /\ Reads(t)
  /\ \E x \in {"inflight", "tail"} : want' = [want EXCEPT ![t] = @ \cup {x}]
  /\ IF t \in queue
       THEN stopped' = stopped \cup {t} /\ reading' = reading \ {t} /\ queue' = queue
       ELSE queue' = queue \cup {t} /\ UNCHANGED <<stopped, reading>>
  /\ UNCHANGED <<shown, debts, kicks, subs, pc, frame, last, expired>>

\* {"unsub": ...} of what is wanted: the tail goes with the list.
Withdraw(t) ==
  /\ Reads(t) /\ want[t] # {}
  /\ want' = [want EXCEPT ![t] = {}] \/ want' = [want EXCEPT ![t] = @ \ {"tail"}]
  /\ UNCHANGED <<shown, debts, feed, pc, stopped, reading, frame, last, expired>>

\* The browser disconnects, or sends what the reader does not take.
Disconnect(t) ==
  /\ t \in reading
  /\ stopped' = stopped \cup {t} /\ reading' = reading \ {t}
  /\ UNCHANGED <<shown, debts, feed, pc, want, frame, last, expired, said>>

\* Time passes the expiry of the cookie; an expired one opens nothing.
Expire(t) ==
  /\ t \in ByCookie \ expired /\ pc[t] \notin {"new", "over"}
  /\ expired' = expired \cup {t}
  /\ UNCHANGED <<shown, debts, feed, tab, said>>

-----------------------------------------------------------------------------

FeedInit ==
  /\ pool = 1 /\ flow = 1 /\ quietly = 1 /\ owes = {} /\ failing = {}
  /\ kicks = 0 /\ subs = {} /\ queue = {}
  /\ pc = [t \in Tabs |-> "new"] /\ want = [t \in Tabs |-> {}]
  /\ stopped = {} /\ reading = {}
  /\ frame = [t \in Tabs |-> Blank] /\ last = [t \in Tabs |-> Blank]
  /\ expired = {} /\ said = [t \in Tabs |-> 0]

\* What the handler of a tab does once its handshake has begun.
Build(t) == Send(t) \/ Skip(t)
TabStep(t) == Subscribe(t) \/ AcceptFails(t) \/ Leave(t) \/ Read(t) \/ Build(t) \/ Sent(t)
                \/ SendFails(t) \/ Wake(t) \/ Tick(t) \/ CloseTab(t)

\* Nothing makes a browser open, ask or leave.
Browser(t) == Handshake(t) \/ Declare(t) \/ Withdraw(t) \/ Disconnect(t)

\* No other task runs while a frame is being built.
Building == {t \in Tabs : pc[t] = "building"}
LoopStep ==
  \/ \E t \in Building : Build(t)
  \/ Building = {} /\ (Kick \/ \E t \in Tabs : TabStep(t) \/ Browser(t))

WorkerStep(w) ==
  \/ Changes < MaxChanges /\ (ChangePool(w) \/ ChangeFlow(w) \/ ErrorEvent(w))
  \/ AccountFailed(w)
  \/ Notify(w)

ClockStep ==
  \/ Changes < MaxChanges /\ ChangeQuietly
  \/ \E t \in Tabs : Expire(t)

\* Worker threads are scheduled by the operating system (the driver waits for
\* nothing between an error event and what follows it), the loop runs every
\* callback and every task that is ready, and a send that hangs fails.
FeedFairness ==
  /\ WF_feedVars(Kick)
  /\ \A w \in Workers : WF_feedVars(Notify(w)) /\ WF_feedVars(AccountFailed(w))
  /\ \A t \in Tabs : WF_feedVars(TabStep(t))

-----------------------------------------------------------------------------
(* Properties *)

FeedTypeOK ==
  /\ pool \in Nat /\ flow \in Nat /\ quietly \in Nat
  /\ owes \subseteq Workers /\ failing \subseteq Workers /\ kicks \in Nat
  /\ subs \subseteq Tabs /\ queue \subseteq Tabs
  /\ pc \in [Tabs -> {"new", "accepting", "top", "building", "sending", "waiting", "closing", "over"}]
  /\ want \in [Tabs -> SUBSET {"inflight", "tail"}]
  /\ stopped \subseteq Tabs /\ reading \subseteq Tabs /\ expired \subseteq Tabs
  /\ frame \in [Tabs -> Frames] /\ last \in [Tabs -> Frames]
  /\ said \in [Tabs -> Nat]

Open(t) == pc[t] \in {"top", "building", "sending", "waiting"}

\* What was sent last shows all that is announced by a notification and that
\* the tab asked for; it may show more, for nothing is pushed on "unsub".
Shows(t) ==
  /\ last[t].pool = pool
  /\ "inflight" \in want[t] => last[t].flow = flow
  /\ want[t] = {"inflight", "tail"} => last[t].tail

\* No wake-up is lost: a tab that sleeps without a wake-up pending, on its way
\* or still to be asked for has been sent the state as it is.  For an error
\* event, which wakes nobody, it is asked for by the mark or the release of the
\* account that comes after it.
NoLostWakeup ==
  owes = {} /\ failing = {} /\ kicks = 0 =>
    \A t \in Tabs : pc[t] = "waiting" /\ t \notin queue \cup stopped => Shows(t)

\* Subscribers are the tabs whose handler runs: none is left behind when a
\* handler ends, however it ends.
SubscribersRun == subs = {t \in Tabs : Open(t) \/ pc[t] = "closing"}

\* Once nothing changes any more, every tab that stays open shows the state,
\* with what was never announced.
ShownInTheEnd ==
  \A t \in Tabs :
    <>[](Open(t) => Shows(t) /\ last[t].quietly = quietly)

\* A tab whose session expired, whose browser left or whose reader ended is
\* closed and unsubscribed.
StaleCloses ==
  \A t \in Tabs : (t \in stopped \cup expired) ~> ~Open(t)

\* The cap on subscribers (the fd and memory guard _MAX_SUBS).
SubsCapped == Cardinality(subs) <= MaxSubs

\* Only the browser, an expiry or a failed send ends a connection: what a tab
\* declares does not.
DeclaringIsSafe ==
  [][\A t \in Tabs : t \in stopped' \ stopped => pc[t] = "closing" \/ said' = said]_feedVars
=============================================================================
