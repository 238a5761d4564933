---------------------------- MODULE FailoverProofs ----------------------------
(***************************************************************************)
(* Theorems about one run of the failover driver, for any number of        *)
(* accounts, attempts, retries and pieces.                                 *)
(***************************************************************************)
EXTENDS Failover, TLAPS

-----------------------------------------------------------------------------
(* The inductive invariant *)

\* An attempt is under way.
Trying == {"build", "stream", "settle", "deliver", "tell"}

AttemptInv ==
  /\ pc \in Trying \cup {"backoff"} => acct \in Accounts
  /\ pc = "settle" => terminal \in StreamErrors
  /\ pc \in Trying => acct \in tried /\ forceId = None

\* The account counted for the call that runs, and no other.
SlotInv ==
  \A a \in Accounts :
    held[a] = IF a = acct /\ (pc = "build" \/ (pc \in {"stream", "tell"} /\ ~sanitized))
              THEN 1 ELSE 0

CountInv ==
  /\ picks <= attempt /\ attempt <= attempts
  /\ attempts <= Allowance + retryAfterRetries

JudgedInv ==
  /\ pc \in {"build", "stream", "settle", "deliver"} => picks = marks + 1
  /\ pc \in {"pick", "fail", "end", "backoff", "tell"} => picks = marks

\* The one attempt of a forced request goes to its account, and so does each
\* attempt that a retry adds.
ForceInv ==
  force # None =>
    /\ acct \in {None, force}
    /\ pc \in {"pick", "backoff"} =>
         /\ forceId = force \/ attempts <= attempt
         /\ attempts <= attempt + 1
    /\ pc \in Trying => attempts <= attempt

\* The account may be tried again after what it answered.
Again(err) == err = None \/ err.retryAfter \/ err.kind \in Cuts

TriedInv ==
  /\ \A a \in Accounts \ tried : Again(seen[a])
  /\ pc = "settle" => seen[acct] = terminal
  /\ forceId # None => Again(seen[forceId])

\* All that was sent comes from the call under way, or that ended the run.
SentInv ==
  /\ sources \subseteq {call} /\ (sources = {} <=> sent = 0)
  /\ pc \in {"pick", "build", "settle", "backoff", "fail"} => sent = 0
  /\ pc = "stream" /\ sent > 0 => stream /\ got
  /\ pc = "tell" => stream
  /\ failed => pc = "end" /\ (stream \/ sent = 0)

DriverInv == TypeOK /\ AttemptInv /\ SlotInv /\ CountInv /\ JudgedInv /\ ForceInv /\ TriedInv
               /\ SentInv

-----------------------------------------------------------------------------
(* Each part, action by action *)

LEMMA ErrorKinds ==
  /\ StreamErrors \subseteq Errors /\ BuildErrors \subseteq Errors /\ LimitErrors \subseteq Errors
  /\ NoAccount \in Errors
  BY DEF Errors

LEMMA SameLoop == LoopType /\ UNCHANGED loop => LoopType'
  BY DEF LoopType, loop
LEMMA SameTry == TryType /\ UNCHANGED try => TryType'
  BY DEF TryType, try
LEMMA SamePool == PoolType /\ UNCHANGED <<held, cooling, picks, marks, seen>> => PoolType'
  BY DEF PoolType
LEMMA SameClient == ClientType /\ UNCHANGED <<request, client, call>> => ClientType'
  BY DEF ClientType, request, client

\* An attempt that fails is marked, and what it answered is seen.
LEMMA PoolMarks ==
  ASSUME PoolType, acct \in Accounts, NEW err \in Errors, MarkFail(err),
         held' \in [Accounts -> Nat], picks' = picks,
         seen' = seen \/ seen' = [seen EXCEPT ![acct] = err]
  PROVE  PoolType'
  BY DEF PoolType, MarkFail

LEMMA Releases == PoolType /\ acct \in Accounts /\ PoolRelease => held' \in [Accounts -> Nat]
  BY DEF PoolType, PoolRelease

LEMMA TypeKept ==
  ASSUME TypeOK, AttemptInv, Next
  PROVE  TypeOK'
  <1> USE DEF TypeOK
  <1>0. pc \in Trying \cup {"backoff"} => acct \in Accounts
    BY DEF AttemptInv
  <1>1. CASE Pick
    <2>1. PICK a \in IF forceId # None THEN {forceId} ELSE Accounts \ tried :
            tried' = tried \cup {a} /\ acct' = a /\ held' = [held EXCEPT ![a] = @ + 1]
      BY <1>1 DEF Pick
    <2>2. a \in Accounts
      BY <2>1 DEF LoopType
    <2>3. LoopType'
      BY <1>1, <2>1, <2>2 DEF Pick, LoopType
    <2>4. TryType'
      BY <1>1, <2>1, <2>2 DEF Pick, TryType
    <2>5. PoolType'
      BY <1>1, <2>1, <2>2 DEF Pick, PoolType
    <2> QED
      BY <1>1, <2>3, <2>4, <2>5, SameClient DEF Pick
  <1>2. CASE PickNothing
    <2>1. LoopType'
      BY <1>2, ErrorKinds DEF PickNothing, LoopType
    <2> QED
      BY <1>2, <2>1, SameTry, SamePool, SameClient DEF PickNothing
  <1>3. CASE GiveUp \/ Backoff \/ Stop
    BY <1>3, SameLoop, SameTry, SamePool, SameClient DEF GiveUp, Backoff, Stop, vars
  <1>4. CASE BuildFails
    <2>0. pc = "build" /\ acct \in Accounts /\ held' \in [Accounts -> Nat]
      BY <1>0, <1>4, Releases DEF BuildFails, Trying
    <2>1. PICK err \in BuildErrors :
            lastErr' = err /\ seen' = [seen EXCEPT ![acct] = err] /\ MarkFail(err)
      BY <1>4 DEF BuildFails
    <2>2. LoopType'
      BY <1>4, <2>1, ErrorKinds DEF BuildFails, LoopType
    <2>3. PoolType'
      BY <1>4, <2>0, <2>1, PoolMarks, ErrorKinds DEF BuildFails
    <2> QED
      BY <1>4, <2>2, <2>3, SameTry, SameClient DEF BuildFails
  <1>5. CASE Build
    <2>1. TryType'
      BY <1>5 DEF Build, TryType
    <2>2. ClientType'
      BY <1>5 DEF Build, ClientType, request, client
    <2> QED
      BY <1>5, <2>1, <2>2, SameLoop, SamePool DEF Build
  <1>6. CASE Message
    <2>1. TryType'
      BY <1>6 DEF Message, TryType
    <2>2. ClientType'
      <3>1. /\ sent' \in {sent, sent + 1} /\ sources' \subseteq sources \cup {call}
            /\ UNCHANGED <<request, call, failed>>
        BY <1>6 DEF Message
      <3> QED
        BY <3>1 DEF ClientType, request
    <2> QED
      BY <1>6, <2>1, <2>2, SameLoop, SamePool DEF Message
  <1>7. CASE ErrorUnseen
    <2>0. acct \in Accounts /\ held' \in [Accounts -> Nat]
      BY <1>0, <1>7, Releases DEF ErrorUnseen, Trying
    <2>1. PICK err \in StreamErrors : terminal' = err /\ seen' = [seen EXCEPT ![acct] = err]
      BY <1>7 DEF ErrorUnseen
    <2>2. TryType'
      BY <1>7, <2>1, ErrorKinds DEF ErrorUnseen, TryType
    <2>3. PoolType'
      BY <1>7, <2>0, <2>1, ErrorKinds DEF ErrorUnseen, PoolType
    <2> QED
      BY <1>7, <2>2, <2>3, SameLoop, SameClient DEF ErrorUnseen
  <1>8. CASE ErrorMidReply
    <2>1. PICK err \in StreamErrors : MarkFail(err) /\ seen' = [seen EXCEPT ![acct] = err]
      BY <1>8 DEF ErrorMidReply
    <2>2. acct \in Accounts /\ held' \in [Accounts -> Nat]
      BY <1>0, <1>8 DEF ErrorMidReply, Trying, PoolType
    <2>3. PoolType'
      BY <1>8, <2>1, <2>2, PoolMarks, ErrorKinds DEF ErrorMidReply
    <2> QED
      BY <1>8, <2>3, SameLoop, SameTry, SameClient DEF ErrorMidReply
  <1>9. CASE Tell \/ CleanEnd
    <2>1. acct \in Accounts /\ held' \in [Accounts -> Nat]
      BY <1>0, <1>9, Releases DEF Tell, CleanEnd, Trying
    <2>2. PoolType'
      BY <1>9, <2>1 DEF Tell, CleanEnd, PoolType
    <2>3. ClientType'
      BY <1>9 DEF Tell, CleanEnd, ClientType, request, client
    <2> QED
      BY <1>9, <2>2, <2>3, SameLoop, SameTry DEF Tell, CleanEnd
  <1>10. CASE Sanitize
    <2>1. TryType'
      BY <1>10 DEF Sanitize, TryType
    <2>2. ClientType'
      BY <1>10 DEF Sanitize, ClientType, request, client
    <2> QED
      BY <1>10, <2>1, <2>2, SameLoop, SamePool DEF Sanitize
  <1>11. CASE RetryAfter \/ NextAccount
    <2>0. acct \in Accounts /\ terminal \in Errors /\ held' \in [Accounts -> Nat]
      BY <1>0, <1>11, ErrorKinds DEF RetryAfter, NextAccount, Trying, AttemptInv, PoolType
    <2>1. LoopType'
      <3>1. CASE RetryAfter
        BY <2>0, <3>1, FailoverAssumption DEF RetryAfter, LoopType
      <3>2. CASE NextAccount
        BY <2>0, <3>2, FailoverAssumption DEF NextAccount, LoopType
      <3> QED
        BY <1>11, <3>1, <3>2
    <2>2. MarkFail(terminal) /\ UNCHANGED <<picks, seen, try, request, client, call>>
          /\ pc' \in {"backoff", "pick"}
      BY <1>11 DEF RetryAfter, NextAccount
    <2>3. PoolType'
      BY <2>0, <2>2, PoolMarks
    <2> QED
      BY <2>1, <2>2, <2>3, SameTry, SameClient
  <1>12. CASE RetryLimit
    <2>1. PICK err \in LimitErrors : terminal' = err /\ lastErr' = err /\ MarkFail(err)
      BY <1>12 DEF RetryLimit
    <2>2. acct \in Accounts /\ held' \in [Accounts -> Nat]
      BY <1>0, <1>12 DEF RetryLimit, Trying, PoolType
    <2>3. LoopType'
      BY <1>12, <2>1, ErrorKinds DEF RetryLimit, LoopType
    <2>4. TryType'
      BY <1>12, <2>1, ErrorKinds DEF RetryLimit, TryType
    <2>5. PoolType'
      BY <1>12, <2>1, <2>2, PoolMarks, ErrorKinds DEF RetryLimit
    <2> QED
      BY <1>12, <2>3, <2>4, <2>5, SameClient DEF RetryLimit
  <1>13. CASE Deliver
    <2>1. TryType'
      BY <1>13 DEF Deliver, TryType
    <2>2. ClientType'
      BY <1>13 DEF Deliver, ClientType, request
    <2> QED
      BY <1>13, <2>1, <2>2, SameLoop, SamePool DEF Deliver
  <1>14. CASE Succeed
    <2>1. PoolType'
      BY <1>14 DEF Succeed, PoolType
    <2> QED
      BY <1>14, <2>1, SameLoop, SameTry, SameClient DEF Succeed
  <1>15. CASE Fail
    <2>1. ClientType'
      BY <1>15 DEF Fail, ClientType, request
    <2> QED
      BY <1>15, <2>1, SameLoop, SameTry, SamePool DEF Fail
  <1>16. CASE ClientLeaves
    <2>1. held' \in [Accounts -> Nat]
      BY <1>0, <1>16, Releases DEF ClientLeaves, Trying, PoolType
    <2>2. PoolType'
      BY <1>16, <2>1 DEF ClientLeaves, PoolType
    <2> QED
      BY <1>16, <2>2, SameLoop, SameTry, SameClient DEF ClientLeaves
  <1> QED
    BY <1>1, <1>2, <1>3, <1>4, <1>5, <1>6, <1>7, <1>8, <1>9, <1>10, <1>11, <1>12, <1>13,
       <1>14, <1>15, <1>16 DEF Next, DriverStep

LEMMA AttemptKept ==
  ASSUME TypeOK, AttemptInv, Next
  PROVE  AttemptInv'
  <1> USE DEF AttemptInv, Trying, request, loop, try
  <1>1. CASE Pick
    BY <1>1 DEF Pick, TypeOK, LoopType
  <1>2. CASE PickNothing \/ GiveUp \/ Fail \/ Stop \/ ClientLeaves
    BY <1>2 DEF PickNothing, GiveUp, Fail, Stop, ClientLeaves, Done, vars
  <1>3. CASE BuildFails \/ Build
    BY <1>3 DEF BuildFails, Build
  <1>4. CASE Message \/ ErrorUnseen \/ ErrorMidReply \/ CleanEnd
    BY <1>4 DEF Message, ErrorUnseen, ErrorMidReply, CleanEnd
  <1>5. CASE Tell \/ Deliver \/ Succeed
    BY <1>5 DEF Tell, Deliver, Succeed
  <1>6. CASE Sanitize \/ RetryAfter \/ RetryLimit \/ NextAccount \/ Backoff
    BY <1>6 DEF Sanitize, RetryAfter, RetryLimit, NextAccount, Backoff
  <1> QED
    BY <1>1, <1>2, <1>3, <1>4, <1>5, <1>6 DEF Next, DriverStep

LEMMA SlotKept ==
  ASSUME TypeOK, AttemptInv, SlotInv, Next
  PROVE  SlotInv'
  <1>0. /\ held \in [Accounts -> Nat] /\ (pc \in Trying => acct \in Accounts)
        /\ PoolRelease /\ acct \in Accounts => \A a \in Accounts : held'[a] = 0
    BY DEF TypeOK, PoolType, AttemptInv, SlotInv, PoolRelease
  <1> USE DEF SlotInv, Trying, loop, try
  <1>1. CASE Pick
    <2>1. PICK a \in Accounts : acct' = a /\ held' = [held EXCEPT ![a] = @ + 1]
      BY <1>1 DEF Pick, TypeOK, LoopType
    <2>2. pc = "pick" /\ pc' = "build"
      BY <1>1 DEF Pick
    <2>3. \A b \in Accounts : held[b] = 0
      BY <2>2
    <2>4. \A b \in Accounts : held'[b] = IF b = a THEN 1 ELSE 0
      BY <1>0, <2>1, <2>3
    <2> QED
      BY <2>1, <2>2, <2>4
  <1>2. CASE PickNothing \/ GiveUp \/ Fail \/ Stop
    BY <1>2 DEF PickNothing, GiveUp, Fail, Stop, vars
  <1>3. CASE BuildFails
    BY <1>0, <1>3 DEF BuildFails
  <1>4. CASE Message \/ ErrorMidReply
    BY <1>4 DEF Message, ErrorMidReply
  <1>5. CASE ErrorUnseen \/ CleanEnd \/ Tell
    BY <1>0, <1>5 DEF ErrorUnseen, CleanEnd, Tell
  <1>6. CASE Deliver \/ Succeed
    BY <1>6 DEF Deliver, Succeed
  <1>7. CASE Sanitize \/ RetryAfter \/ RetryLimit \/ NextAccount \/ Backoff
    BY <1>7 DEF Sanitize, RetryAfter, RetryLimit, NextAccount, Backoff
  <1>8. CASE ClientLeaves
    BY <1>0, <1>8 DEF ClientLeaves
  <1>9. CASE Build
    <2>1. pc = "build" /\ pc' = "stream" /\ ~sanitized' /\ UNCHANGED <<held, acct>>
      BY <1>9 DEF Build
    <2> QED
      BY <2>1
  <1> QED
    BY <1>1, <1>2, <1>3, <1>4, <1>5, <1>6, <1>7, <1>8, <1>9 DEF Next, DriverStep

LEMMA CountKept ==
  ASSUME TypeOK, CountInv, Next
  PROVE  CountInv'
  <1>0. attempt \in Nat /\ attempts \in Nat /\ picks \in Nat /\ retryAfterRetries \in Nat
        /\ Allowance \in Nat
    BY FailoverAssumption DEF TypeOK, LoopType, PoolType, Allowance
  <1>1. UNCHANGED force
    BY DEF Next, DriverStep, Pick, PickNothing, GiveUp, BuildFails, Build, Message, ErrorUnseen,
           ErrorMidReply, Tell, CleanEnd, Sanitize, RetryAfter, RetryLimit, NextAccount, Backoff,
           Deliver, Succeed, Fail, ClientLeaves, Stop, request, vars
  <1>2. CASE Pick \/ PickNothing
    BY <1>0, <1>1, <1>2 DEF Pick, PickNothing, CountInv, Allowance
  <1>3. CASE RetryAfter \/ RetryLimit
    BY <1>0, <1>1, <1>3 DEF RetryAfter, RetryLimit, CountInv, Allowance
  <1>4. CASE ~(Pick \/ PickNothing \/ RetryAfter \/ RetryLimit)
    <2>1. UNCHANGED <<picks, attempt, attempts, retryAfterRetries>>
      BY <1>4 DEF Next, DriverStep, GiveUp, BuildFails, Build, Message, ErrorUnseen,
           ErrorMidReply, Tell, CleanEnd, Sanitize, NextAccount, Backoff,
           Deliver, Succeed, Fail, ClientLeaves, Stop, loop, vars
    <2> QED
      BY <1>1, <2>1 DEF CountInv, Allowance
  <1> QED
    BY <1>2, <1>3, <1>4

LEMMA JudgedKept ==
  ASSUME TypeOK, JudgedInv, Next
  PROVE  JudgedInv'
  <1>0. picks \in Nat /\ marks \in Nat
    BY DEF TypeOK, PoolType
  <1> USE DEF JudgedInv, MarkFail
  <1>1. CASE Pick \/ PickNothing \/ GiveUp
    BY <1>0, <1>1 DEF Pick, PickNothing, GiveUp
  <1>2. CASE BuildFails \/ Build
    BY <1>0, <1>2 DEF BuildFails, Build
  <1>3. CASE Message \/ ErrorUnseen \/ CleanEnd
    BY <1>3 DEF Message, ErrorUnseen, CleanEnd
  <1>4. CASE ErrorMidReply \/ Tell
    BY <1>0, <1>4 DEF ErrorMidReply, Tell
  <1>5. CASE Sanitize \/ Backoff \/ Deliver \/ Fail \/ Stop
    BY <1>5 DEF Sanitize, Backoff, Deliver, Fail, Stop, vars
  <1>6. CASE RetryAfter \/ RetryLimit \/ NextAccount
    BY <1>0, <1>6 DEF RetryAfter, RetryLimit, NextAccount
  <1>7. CASE Succeed \/ ClientLeaves
    BY <1>0, <1>7 DEF Succeed, ClientLeaves
  <1> QED
    BY <1>1, <1>2, <1>3, <1>4, <1>5, <1>6, <1>7 DEF Next, DriverStep

LEMMA ForceKept ==
  ASSUME TypeOK, AttemptInv, CountInv, ForceInv, Next
  PROVE  ForceInv'
  <1>0. attempt \in Nat /\ attempts \in Nat /\ attempt <= attempts /\ UNCHANGED force
    <2>1. UNCHANGED force
      BY DEF Next, DriverStep, Pick, PickNothing, GiveUp, BuildFails, Build, Message, ErrorUnseen,
           ErrorMidReply, Tell, CleanEnd, Sanitize, RetryAfter, RetryLimit, NextAccount, Backoff,
           Deliver, Succeed, Fail, ClientLeaves, Stop, request, vars
    <2> QED
      BY <2>1 DEF TypeOK, LoopType, CountInv
  <1> USE DEF ForceInv, Trying, loop, try
  <1>1. CASE Pick
    BY <1>0, <1>1 DEF Pick
  <1>2. CASE PickNothing \/ GiveUp \/ Fail \/ Stop \/ ClientLeaves
    BY <1>0, <1>2 DEF PickNothing, GiveUp, Fail, Stop, ClientLeaves, vars
  <1>3. CASE BuildFails \/ Build
    BY <1>0, <1>3 DEF BuildFails, Build
  <1>4. CASE Message \/ ErrorUnseen \/ CleanEnd \/ ErrorMidReply \/ Tell
    BY <1>0, <1>4 DEF Message, ErrorUnseen, CleanEnd, ErrorMidReply, Tell
  <1>5. CASE Sanitize \/ Deliver \/ Succeed \/ Backoff
    BY <1>0, <1>5 DEF Sanitize, Deliver, Succeed, Backoff
  <1>6. CASE RetryAfter
    BY <1>0, <1>6, FailoverAssumption DEF RetryAfter, AttemptInv
  <1>7. CASE RetryLimit \/ NextAccount
    BY <1>0, <1>7 DEF RetryLimit, NextAccount
  <1> QED
    BY <1>1, <1>2, <1>3, <1>4, <1>5, <1>6, <1>7 DEF Next, DriverStep

LEMMA TriedKept ==
  ASSUME TypeOK, AttemptInv, TriedInv, Next
  PROVE  TriedInv'
  <1>0. seen \in [Accounts -> Errors \cup {None}]
    BY DEF TypeOK, PoolType
  <1> USE DEF TriedInv, AttemptInv, Trying, loop, try
  <1>1. CASE Pick \/ PickNothing \/ GiveUp
    BY <1>1 DEF Pick, PickNothing, GiveUp
  <1>2. CASE BuildFails \/ ErrorUnseen \/ ErrorMidReply
    <2>1. PICK err : seen' = [seen EXCEPT ![acct] = err] /\ (pc' = "settle" => terminal' = err)
      BY <1>2 DEF BuildFails, ErrorUnseen, ErrorMidReply
    <2>2. UNCHANGED <<tried, acct, forceId>> /\ acct \in Accounts \cap tried /\ forceId = None
      BY <1>2 DEF BuildFails, ErrorUnseen, ErrorMidReply
    <2> QED
      BY <1>0, <2>1, <2>2
  <1>3. CASE Build \/ Message \/ CleanEnd \/ Tell \/ Sanitize
    BY <1>3 DEF Build, Message, CleanEnd, Tell, Sanitize
  <1>4. CASE RetryAfter
    BY <1>4 DEF RetryAfter, AskedToWait, Again
  <1>5. CASE RetryLimit \/ Backoff
    BY <1>5 DEF RetryLimit, Backoff
  <1>6. CASE NextAccount
    BY <1>6 DEF NextAccount, Again
  <1>7. CASE Deliver \/ Succeed \/ Fail \/ Stop \/ ClientLeaves
    BY <1>7 DEF Deliver, Succeed, Fail, Stop, ClientLeaves, Done, vars
  <1> QED
    BY <1>1, <1>2, <1>3, <1>4, <1>5, <1>6, <1>7 DEF Next, DriverStep

LEMMA SentKept ==
  ASSUME TypeOK, SentInv, Next
  PROVE  SentInv'
  <1>0. sent \in Nat /\ buf \in Nat
    BY DEF TypeOK, TryType, ClientType
  <1> USE DEF SentInv, request, client, try
  <1>1. CASE Pick \/ PickNothing \/ GiveUp
    BY <1>1 DEF Pick, PickNothing, GiveUp
  <1>2. CASE BuildFails \/ Build
    BY <1>2 DEF BuildFails, Build
  <1>3. CASE Message
    BY <1>0, <1>3 DEF Message
  <1>4. CASE ErrorUnseen \/ ErrorMidReply
    BY <1>0, <1>4 DEF ErrorUnseen, ErrorMidReply
  <1>5. CASE Tell \/ CleanEnd
    BY <1>5 DEF Tell, CleanEnd
  <1>6. CASE Sanitize \/ RetryAfter \/ RetryLimit
    BY <1>6 DEF Sanitize, RetryAfter, RetryLimit
  <1>7. CASE NextAccount \/ Backoff \/ ClientLeaves
    BY <1>7 DEF NextAccount, Backoff, ClientLeaves
  <1>8. CASE Deliver
    BY <1>0, <1>8 DEF Deliver
  <1>9. CASE Succeed \/ Fail \/ Stop
    BY <1>9 DEF Succeed, Fail, Stop, vars
  <1> QED
    BY <1>1, <1>2, <1>3, <1>4, <1>5, <1>6, <1>7, <1>8, <1>9 DEF Next, DriverStep

LEMMA InitDriver == Init => DriverInv
  <1> SUFFICES ASSUME Init PROVE DriverInv
    OBVIOUS
  <1>1. LoopType
    BY ErrorKinds, FailoverAssumption DEF Init, LoopType
  <1>2. TryType /\ ClientType
    BY DEF Init, TryType, ClientType
  <1>3. PoolType
    BY DEF Init, PoolType
  <1>4. TypeOK
    BY <1>1, <1>2, <1>3 DEF Init, TypeOK
  <1>5. AttemptInv /\ SlotInv /\ JudgedInv /\ SentInv
    BY DEF Init, AttemptInv, SlotInv, JudgedInv, SentInv, Trying
  <1>6. CountInv /\ ForceInv
    BY FailoverAssumption DEF Init, CountInv, Allowance, ForceInv, Trying
  <1>7. TriedInv
    BY DEF Init, TriedInv, Again
  <1> QED
    BY <1>4, <1>5, <1>6, <1>7 DEF DriverInv

LEMMA NextDriver == DriverInv /\ [Next]_vars => DriverInv'
  <1> SUFFICES ASSUME DriverInv, [Next]_vars PROVE DriverInv'
    OBVIOUS
  <1>1. CASE Next
    BY <1>1, TypeKept, AttemptKept, SlotKept, CountKept, JudgedKept, ForceKept, TriedKept, SentKept
    DEF DriverInv
  <1>2. CASE UNCHANGED vars
    <2>1. TypeOK'
      BY <1>2, SameLoop, SameTry, SamePool, SameClient DEF DriverInv, TypeOK, vars
    <2>2. AttemptInv' /\ SlotInv' /\ CountInv' /\ JudgedInv'
      BY <1>2 DEF DriverInv, AttemptInv, SlotInv, CountInv, JudgedInv, Allowance, vars, request,
                  loop, try
    <2>3. ForceInv' /\ TriedInv' /\ SentInv'
      BY <1>2 DEF DriverInv, ForceInv, TriedInv, Again, SentInv, vars, request, loop, try, client
    <2> QED
      BY <2>1, <2>2, <2>3 DEF DriverInv
  <1> QED
    BY <1>1, <1>2

-----------------------------------------------------------------------------
(* The run winds down *)

\* Upstream calls the attempt under way may still make.
CallsLeft ==
  IF pc = "build" THEN 2 ELSE IF pc \in {"stream", "settle"} /\ ~sanitized THEN 1 ELSE 0

\* Each pick makes two upstream calls at most, and the pieces of a call stay
\* within their bound.
WindInv ==
  /\ call + CallsLeft <= 2 * picks
  /\ buf <= MaxPieces
  /\ pc = "stream" => sent <= MaxPieces

\* Attempts the request may still make: those left of its allowance, and the
\* retries it may still be granted.
AttemptsLeft == (attempts - attempt) + (RetryAfterRetries - retryAfterRetries)

\* How far the attempt under way is from its end.  A call that has not been
\* repeated with sanitized tools may still be.
PiecesLeft == MaxPieces - (IF stream THEN sent ELSE buf)
Distance ==
  CASE pc \in {"end", "gone"} -> 0
    [] pc \in {"fail", "tell"} -> 1
    [] pc = "pick" -> 2
    [] pc = "backoff" -> 3
    [] pc = "deliver" -> 1 + buf
    [] pc = "settle" -> IF sanitized THEN 4 ELSE 2 * MaxPieces + 6
    [] pc = "stream" -> (IF sanitized THEN MaxPieces + 5 ELSE 2 * MaxPieces + 7) + PiecesLeft
    [] pc = "build" -> 3 * MaxPieces + 8

Closer == AttemptsLeft' < AttemptsLeft \/ (AttemptsLeft' = AttemptsLeft /\ Distance' < Distance)

LEMMA LoopNumbers ==
  ASSUME DriverInv
  PROVE  /\ attempt \in Nat /\ attempts \in Nat /\ attempt <= attempts
         /\ retryAfterRetries \in Nat /\ retryAfterRetries <= RetryAfterRetries
         /\ RetryAfterRetries \in Nat /\ MaxPieces \in Nat
  BY FailoverAssumption DEF DriverInv, TypeOK, LoopType, CountInv

LEMMA TryNumbers ==
  ASSUME DriverInv
  PROVE  /\ buf \in Nat /\ sent \in Nat /\ call \in Nat /\ picks \in Nat
         /\ pc \in {"pick", "build", "settle", "backoff", "fail"} => sent = 0
         /\ sanitized \in BOOLEAN /\ stream \in BOOLEAN
  BY DEF DriverInv, TypeOK, TryType, PoolType, ClientType, SentInv

LEMMA InitWind == Init => WindInv
  BY FailoverAssumption DEF Init, WindInv, CallsLeft

LEMMA NextWind == DriverInv /\ WindInv /\ [Next]_vars => WindInv'
  <1> SUFFICES ASSUME DriverInv, WindInv, [Next]_vars PROVE WindInv'
    OBVIOUS
  <1> USE LoopNumbers, TryNumbers DEF WindInv, CallsLeft, request, try, client
  <1>1. CASE Pick \/ PickNothing \/ GiveUp
    BY <1>1 DEF Pick, PickNothing, GiveUp
  <1>2. CASE BuildFails \/ Build
    BY <1>2 DEF BuildFails, Build
  <1>3. CASE Message \/ ErrorUnseen \/ ErrorMidReply
    BY <1>3 DEF Message, ErrorUnseen, ErrorMidReply
  <1>4. CASE Tell \/ CleanEnd \/ Sanitize
    BY <1>4 DEF Tell, CleanEnd, Sanitize, MustSanitize
  <1>5. CASE RetryAfter \/ RetryLimit \/ NextAccount
    BY <1>5 DEF RetryAfter, RetryLimit, NextAccount
  <1>6. CASE Backoff \/ Deliver \/ Succeed \/ Fail \/ ClientLeaves
    BY <1>6 DEF Backoff, Deliver, Succeed, Fail, ClientLeaves
  <1>7. CASE Stop \/ UNCHANGED vars
    BY <1>7 DEF Stop, vars
  <1> QED
    BY <1>1, <1>2, <1>3, <1>4, <1>5, <1>6, <1>7 DEF Next, DriverStep

LEMMA StepCloser ==
  ASSUME DriverInv, WindInv, DriverStep \/ ClientLeaves
  PROVE  Closer
  <1> USE LoopNumbers, TryNumbers DEF Closer, AttemptsLeft, Distance, PiecesLeft, WindInv
  <1>1. CASE Pick
    BY <1>1 DEF Pick
  <1>2. CASE PickNothing
    BY <1>2 DEF PickNothing
  <1>3. CASE GiveUp \/ Fail \/ Tell \/ Backoff
    BY <1>3 DEF GiveUp, Fail, Tell, Backoff, loop
  <1>4. CASE BuildFails
    BY <1>4 DEF BuildFails
  <1>5. CASE Build
    BY <1>5 DEF Build, loop, request, client
  <1>6. CASE Message
    BY <1>6 DEF Message, loop, request
  <1>7. CASE ErrorUnseen
    BY <1>7 DEF ErrorUnseen, loop
  <1>8. CASE ErrorMidReply
    BY <1>8 DEF ErrorMidReply, loop
  <1>9. CASE CleanEnd
    BY <1>9 DEF CleanEnd, loop, try
  <1>10. CASE Sanitize
    BY <1>10 DEF Sanitize, MustSanitize, loop, request, client
  <1>11. CASE RetryAfter
    BY <1>11 DEF RetryAfter
  <1>12. CASE RetryLimit
    BY <1>12 DEF RetryLimit
  <1>13. CASE NextAccount
    BY <1>13 DEF NextAccount
  <1>14. CASE Deliver
    BY <1>14 DEF Deliver, loop
  <1>15. CASE Succeed
    BY <1>15 DEF Succeed, loop
  <1>16. CASE ClientLeaves
    BY <1>16 DEF ClientLeaves, loop
  <1> QED
    BY <1>1, <1>2, <1>3, <1>4, <1>5, <1>6, <1>7, <1>8, <1>9, <1>10, <1>11, <1>12, <1>13, <1>14,
       <1>15, <1>16 DEF DriverStep

-----------------------------------------------------------------------------
(* Theorems *)

\* Every variable of the driver is well typed, its retry counters within
\* their budgets.
THEOREM FailoverTypeOK == Spec => []TypeOK
  <1>1. DriverInv => TypeOK
    BY DEF DriverInv
  <1> QED
    BY <1>1, InitDriver, NextDriver, PTL DEF Spec

\* However the retries of _iter_chat combine, they add no attempt beyond the
\* allowance and what the upstream asked for.
THEOREM DriverAttemptsBounded == Spec => []AttemptsBounded
  <1>1. DriverInv => AttemptsBounded
    <2> SUFFICES ASSUME DriverInv PROVE AttemptsBounded
      OBVIOUS
    <2>1. picks \in Nat /\ attempt \in Nat /\ attempts \in Nat /\ Allowance \in Nat
          /\ retryAfterRetries \in 0..RetryAfterRetries
      BY FailoverAssumption DEF DriverInv, TypeOK, LoopType, PoolType, Allowance
    <2> QED
      BY <2>1, FailoverAssumption DEF DriverInv, CountInv, AttemptsBounded
  <1> QED
    BY <1>1, InitDriver, NextDriver, PTL DEF Spec

\* The slot of an account is held while its call runs and by nobody else, on
\* every path through the loop and its finally clause.
THEOREM DriverSlotsCounted == Spec => []StreamsAreCounted
  <1>1. DriverInv => StreamsAreCounted
    BY DEF DriverInv, AttemptInv, SlotInv, Trying, StreamsAreCounted
  <1> QED
    BY <1>1, InitDriver, NextDriver, PTL DEF Spec

\* Every pick is followed by one mark_ok or mark_fail.
THEOREM DriverJudgesEveryPick == Spec => []EveryPickJudged
  <1>1. DriverInv => EveryPickJudged
    BY DEF DriverInv, JudgedInv, EveryPickJudged
  <1> QED
    BY <1>1, InitDriver, NextDriver, PTL DEF Spec

\* A request forced to an account runs on no other, retries included.
THEOREM DriverForcedStays == Spec => []ForcedStays
  <1>1. DriverInv => ForcedStays
    BY DEF DriverInv, ForceInv, ForcedStays
  <1> QED
    BY <1>1, InitDriver, NextDriver, PTL DEF Spec

\* An account that failed for good is not picked again for the request.
THEOREM DriverNeverRetriesAFailure == Spec => NoSecondTry
  <1>1. DriverInv /\ [Next]_vars =>
          [\A a \in Accounts :
             (pc = "pick" /\ pc' = "build" /\ acct' = a) =>
               seen[a] = None \/ seen[a].retryAfter \/ seen[a].kind \in Cuts]_vars
    <2> SUFFICES ASSUME DriverInv, Next, pc = "pick", pc' = "build"
                 PROVE  Again(seen[acct'])
      BY DEF Again
    <2>1. Pick
      BY DEF Next, DriverStep, PickNothing, GiveUp, BuildFails, Build, Message, ErrorUnseen,
             ErrorMidReply, Tell, CleanEnd, Sanitize, RetryAfter, RetryLimit, NextAccount, Backoff,
             Deliver, Succeed, Fail, ClientLeaves, Stop, Done, vars
    <2> QED
      BY <2>1 DEF Pick, DriverInv, TriedInv
  <1> QED
    BY <1>1, InitDriver, NextDriver, PTL DEF Spec, NoSecondTry

\* However often _iter_chat retries, repeats a call with sanitized tools or
\* waits, one request makes at most two upstream calls per attempt, and its
\* attempts are bounded.
THEOREM DriverCallsBounded == Spec => [](call <= 2 * (Allowance + RetryAfterRetries))
  <1>1. DriverInv /\ WindInv => call <= 2 * (Allowance + RetryAfterRetries)
    <2> SUFFICES ASSUME DriverInv, WindInv PROVE call <= 2 * (Allowance + RetryAfterRetries)
      OBVIOUS
    <2>1. call \in Nat /\ picks \in Nat /\ call <= 2 * picks
      BY TryNumbers DEF WindInv, CallsLeft
    <2>2. Allowance \in Nat /\ picks <= Allowance + retryAfterRetries
      BY LoopNumbers, TryNumbers, FailoverAssumption DEF DriverInv, CountInv, Allowance
    <2> QED
      BY <2>1, <2>2, LoopNumbers
  <1> QED
    BY <1>1, InitDriver, NextDriver, InitWind, NextWind, PTL DEF Spec

\* The pair of attempts left and distance is a pair of naturals that every
\* step of a request not over lowers in the lexicographic order: no
\* interleaving of failures, retries, repeats and pieces goes round for ever.
THEOREM DriverWindsDown ==
  Spec => [](AttemptsLeft \in Nat /\ Distance \in Nat) /\ [][Closer]_vars
  <1>1. DriverInv /\ WindInv => AttemptsLeft \in Nat /\ Distance \in Nat
    <2> SUFFICES ASSUME DriverInv, WindInv PROVE AttemptsLeft \in Nat /\ Distance \in Nat
      OBVIOUS
    <2>1. pc \in {"pick", "build", "stream", "settle", "backoff", "deliver", "tell", "fail",
                  "end", "gone"}
      BY DEF DriverInv, TypeOK
    <2> QED
      BY <2>1, LoopNumbers, TryNumbers DEF AttemptsLeft, Distance, PiecesLeft, WindInv
  <1>2. DriverInv /\ WindInv /\ [Next]_vars => [Closer]_vars
    BY StepCloser DEF Next, Stop
  <1> QED
    BY <1>1, <1>2, InitDriver, NextDriver, InitWind, NextWind, PTL DEF Spec

\* Every step of the driver is a step of the promise made to the client, or
\* one it does not see: pieces come from one upstream call, and after them
\* one verdict (the docstring of _iter_chat).
THEOREM DriverKeepsThePromise == Spec => Promise
  <1>1. Init => Reply!Init
    BY DEF Init, Reply!Init
  <1>2. DriverInv /\ [Next]_vars => [Reply!Next]_(Reply!vars)
    <2> SUFFICES ASSUME DriverInv, [Next]_vars PROVE [Reply!Next]_(Reply!vars)
      OBVIOUS
    <2>0. /\ SentInv /\ (failed => pc = "end") /\ sent \in Nat /\ call \in Nat
          /\ sources \subseteq Nat
      BY DEF DriverInv, SentInv, TypeOK, ClientType
    <2> USE DEF request, client
    <2>1. CASE Message
      <3>1. CASE stream
        BY <2>0, <2>1, <3>1 DEF Message, SentInv, Reply!Next, Reply!Piece
      <3>2. CASE ~stream
        BY <2>0, <2>1, <3>2 DEF Message, Reply!vars
      <3> QED
        BY <3>1, <3>2
    <2>2. CASE Deliver
      BY <2>0, <2>2 DEF Deliver, SentInv, Reply!Next, Reply!Piece
    <2>3. CASE Tell \/ Fail
      BY <2>0, <2>3 DEF Tell, Fail, SentInv, Reply!Next, Reply!Verdict
    <2>4. CASE Succeed \/ ClientLeaves
      BY <2>0, <2>4 DEF Succeed, ClientLeaves, Reply!Next, Reply!Verdict
    <2>5. CASE ~(Message \/ Deliver \/ Tell \/ Fail \/ Succeed \/ ClientLeaves)
      <3>1. /\ UNCHANGED <<stream, sent, sources, failed>>
            /\ pc' # pc => pc \notin {"end", "gone"} /\ pc' \notin {"end", "gone"}
        BY <2>5 DEF Next, DriverStep, Pick, PickNothing, GiveUp, BuildFails, Build, ErrorUnseen,
           ErrorMidReply, CleanEnd, Sanitize, RetryAfter, RetryLimit, NextAccount, Backoff, Stop, vars
      <3> QED
        BY <3>1 DEF Reply!vars
    <2> QED
      BY <2>1, <2>2, <2>3, <2>4, <2>5
  <1> QED
    BY <1>1, <1>2, InitDriver, NextDriver, PTL DEF Spec, Promise, Reply!Spec
=============================================================================
