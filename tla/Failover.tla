------------------------------ MODULE Failover ------------------------------
(***************************************************************************)
(* The failover driver _iter_chat of devin_proxy/app.py, serving one       *)
(* request: which accounts it tries, how long, which errors it retries,    *)
(* and what it hands to the client.  The pool is seen through its answers: *)
(* pick may return any account the request may use, or none.               *)
(***************************************************************************)
EXTENDS Naturals, FiniteSets

CONSTANTS
  Accounts,
  None,               \* no account, no error
  Tools,              \* whether the request carries tools
  MaxAttempts,        \* accounts.MAX_ATTEMPTS
  RetryAfterRetries,  \* app._RETRY_AFTER_RETRIES
  TransientRetries,   \* retries of one account after a cut connection
  MaxPieces           \* bound: content messages of one upstream call

ASSUME FailoverAssumption ==
  /\ None \notin Accounts
  /\ Tools \in BOOLEAN
  /\ MaxAttempts \in Nat \ {0}
  /\ RetryAfterRetries \in Nat /\ TransientRetries \in Nat /\ MaxPieces \in Nat

(***************************************************************************)
(* Errors, by what the driver tells apart: `hard` is is_hard_failure, which *)
(* holds of every error that is not flagged soft or transient and does not *)
(* carry a request-scoped http status.                                     *)
(***************************************************************************)
Cuts == {"truncated", "exception", "protocol_error"}
Error(kind, hard, retryAfter, mcp) ==
  [kind |-> kind, hard |-> hard, retryAfter |-> retryAfter, mcp |-> mcp]

StreamErrors ==
  {Error("upstream_error", h, ra, m) : h, ra, m \in BOOLEAN}
    \cup {Error("http_error", h, FALSE, FALSE) : h \in BOOLEAN}
    \cup {Error(k, TRUE, FALSE, FALSE) : k \in Cuts}
BuildErrors == {Error("build_error", h, FALSE, FALSE) : h \in BOOLEAN}
LimitErrors == {Error(k, TRUE, FALSE, FALSE) : k \in {"retry_exhausted", "retry_timeout"}}
NoAccount == Error("no_account", TRUE, FALSE, FALSE)
Errors == StreamErrors \cup BuildErrors \cup LimitErrors \cup {NoAccount}

VARIABLES
  stream,     \* live reply, or buffered
  force,      \* force_account
  pc,
  forceId,    \* force_id: the account the next pick must return
  attempt, attempts, tried, transientRetries, retryAfterRetries,
  acct,       \* the account of this attempt
  sanitized,  \* desc_sanitized
  got,        \* got_content
  buf,        \* buffered pieces not yet handed out
  terminal, lastErr,
  (* the outside *)
  held,       \* picks minus releases of this request, by account
  cooling,    \* accounts this request put into cooldown
  picks, marks, \* calls of pick that returned an account; of mark_ok / mark_fail
  seen,       \* what the last upstream call of each account answered
  call,       \* upstream calls made
  sent, sources, failed  \* what the client received

request == <<stream, force>>
loop == <<forceId, attempt, attempts, tried, transientRetries, retryAfterRetries, lastErr>>
try == <<acct, sanitized, got, buf, terminal>>
client == <<sent, sources, failed>>
vars == <<request, pc, loop, try, held, cooling, picks, marks, seen, call, client>>

Init ==
  /\ stream \in BOOLEAN /\ force \in Accounts \cup {None}
  /\ pc = "pick"
  /\ forceId = force
  /\ attempt = 0
  /\ attempts = IF force # None THEN 1 ELSE MaxAttempts
  /\ tried = {} /\ transientRetries = 0 /\ retryAfterRetries = 0
  /\ acct = None /\ sanitized = FALSE /\ got = FALSE /\ buf = 0
  /\ terminal = None /\ lastErr = NoAccount
  /\ held = [a \in Accounts |-> 0] /\ cooling = {}
  /\ picks = 0 /\ marks = 0
  /\ seen = [a \in Accounts |-> None]
  /\ call = 0
  /\ sent = 0 /\ sources = {} /\ failed = FALSE

-----------------------------------------------------------------------------
(* The calls into the pool *)

PoolRelease == held' = [held EXCEPT ![acct] = IF @ = 0 THEN 0 ELSE @ - 1]

MarkFail(err) ==
  /\ marks' = marks + 1
  /\ cooling' = IF err.hard THEN cooling \cup {acct} ELSE cooling

\* The loop head and pool.pick.
Pick ==
  /\ pc = "pick" /\ attempt < attempts
  /\ attempt' = attempt + 1
  /\ \E a \in IF forceId # None THEN {forceId} ELSE Accounts \ tried :
       /\ tried' = tried \cup {a}
       /\ acct' = a
       /\ held' = [held EXCEPT ![a] = @ + 1]
  /\ picks' = picks + 1
  /\ forceId' = None
  /\ pc' = "build"
  /\ UNCHANGED <<request, attempts, transientRetries, retryAfterRetries, lastErr, sanitized,
                 got, buf, terminal, cooling, marks, seen, call, client>>

\* No account: only an untried request reports that none is eligible.
PickNothing ==
  /\ pc = "pick" /\ attempt < attempts
  /\ attempt' = attempt + 1
  /\ lastErr' \in IF tried = {} THEN {NoAccount, lastErr} ELSE {lastErr}
  /\ pc' = "fail"
  /\ UNCHANGED <<request, forceId, attempts, tried, transientRetries, retryAfterRetries, try,
                 held, cooling, picks, marks, seen, call, client>>

GiveUp ==
  /\ pc = "pick" /\ attempt >= attempts
  /\ pc' = "fail"
  /\ UNCHANGED <<request, loop, try, held, cooling, picks, marks, seen, call, client>>

\* build_request may fail: it fetches the account's JWT.
BuildFails ==
  /\ pc = "build"
  /\ \E err \in BuildErrors :
       /\ lastErr' = err
       /\ seen' = [seen EXCEPT ![acct] = err]
       /\ MarkFail(err)
  /\ PoolRelease
  /\ pc' = "pick"
  /\ UNCHANGED <<request, forceId, attempt, attempts, tried, transientRetries,
                 retryAfterRetries, try, picks, call, client>>

Build ==
  /\ pc = "build"
  /\ pc' = "stream" /\ call' = call + 1
  /\ sanitized' = FALSE /\ got' = FALSE /\ buf' = 0 /\ terminal' = None
  /\ UNCHANGED <<request, loop, acct, held, cooling, picks, marks, seen, client>>

-----------------------------------------------------------------------------
(* One upstream call *)

Message ==
  /\ pc = "stream" /\ buf < MaxPieces /\ sent < MaxPieces
  /\ got' = TRUE
  /\ IF stream
       THEN sent' = sent + 1 /\ sources' = sources \cup {call} /\ buf' = buf
       ELSE buf' = buf + 1 /\ UNCHANGED <<sent, sources>>
  /\ UNCHANGED <<request, pc, loop, acct, sanitized, terminal, held, cooling, picks, marks,
                 seen, call, failed>>

ErrorUnseen_LiveToo ==
  /\ pc = "stream"
  /\ \E err \in StreamErrors :
       terminal' = err /\ seen' = [seen EXCEPT ![acct] = err]
  /\ PoolRelease
  /\ pc' = "settle"
  /\ UNCHANGED <<request, loop, acct, sanitized, got, buf, cooling, picks, marks, call, client>>

\* An error before any content, or while buffering: nothing reached the
\* client and the driver decides what to do next.
ErrorUnseen ==
  /\ pc = "stream" /\ ~(got /\ stream)
  /\ \E err \in StreamErrors :
       terminal' = err /\ seen' = [seen EXCEPT ![acct] = err]
  /\ PoolRelease
  /\ pc' = "settle"
  /\ UNCHANGED <<request, loop, acct, sanitized, got, buf, cooling, picks, marks, call, client>>

\* An error in the middle of a live reply is final: the account is marked,
\* then the client is told, and the finally clause releases the account.
ErrorMidReply ==
  /\ pc = "stream" /\ got /\ stream
  /\ \E err \in StreamErrors :
       MarkFail(err) /\ seen' = [seen EXCEPT ![acct] = err]
  /\ pc' = "tell"
  /\ UNCHANGED <<request, loop, try, held, picks, call, client>>

Tell ==
  /\ pc = "tell"
  /\ failed' = TRUE
  /\ PoolRelease
  /\ pc' = "end"
  /\ UNCHANGED <<request, loop, try, cooling, picks, marks, seen, call, sent, sources>>

CleanEnd_KeepsSlot ==
  /\ pc = "stream"
  /\ held' = held
  /\ pc' = "deliver"
  /\ UNCHANGED <<request, loop, try, cooling, picks, marks, seen, call, client>>

CleanEnd ==
  /\ pc = "stream"
  /\ PoolRelease
  /\ pc' = "deliver"
  /\ UNCHANGED <<request, loop, try, cooling, picks, marks, seen, call, client>>

-----------------------------------------------------------------------------
(* After an attempt *)

\* A rejected tool description: same account, sanitized, without a pick.
MustSanitize == terminal.mcp /\ Tools /\ ~sanitized

Sanitize ==
  /\ pc = "settle" /\ MustSanitize
  /\ sanitized' = TRUE /\ got' = FALSE /\ buf' = 0 /\ terminal' = None
  /\ pc' = "stream" /\ call' = call + 1
  /\ UNCHANGED <<request, loop, acct, held, cooling, picks, marks, seen, client>>

AskedToWait == ~got /\ terminal.retryAfter

RetryAfter_Unmarked ==
  /\ pc = "settle" /\ ~MustSanitize /\ AskedToWait
  /\ retryAfterRetries < RetryAfterRetries
  /\ retryAfterRetries' = retryAfterRetries + 1
  /\ attempts' = attempts + 1
  /\ tried' = tried \ {acct}
  /\ forceId' = IF force # None THEN acct ELSE forceId
  /\ lastErr' = terminal
  /\ pc' = "backoff"
  /\ UNCHANGED <<request, attempt, transientRetries, try, held, cooling, picks, marks, seen,
                 call, client>>

RetryAfter_Uncounted ==
  /\ pc = "settle" /\ ~MustSanitize /\ AskedToWait
  /\ retryAfterRetries < RetryAfterRetries
  /\ attempts' = attempts + 1
  /\ tried' = tried \ {acct}
  /\ forceId' = IF force # None THEN acct ELSE forceId
  /\ lastErr' = terminal
  /\ MarkFail(terminal)
  /\ pc' = "backoff"
  /\ UNCHANGED <<request, attempt, transientRetries, retryAfterRetries, try, held, picks, seen,
                 call, client>>

\* The upstream named a delay and the retry budget allows it: the account is
\* marked and becomes eligible again, and the request gets one more attempt.
RetryAfter ==
  /\ pc = "settle" /\ ~MustSanitize /\ AskedToWait
  /\ retryAfterRetries < RetryAfterRetries
  /\ retryAfterRetries' = retryAfterRetries + 1
  /\ attempts' = attempts + 1
  /\ tried' = tried \ {acct}
  /\ forceId' = IF force # None THEN acct ELSE forceId
  /\ lastErr' = terminal
  /\ MarkFail(terminal)
  /\ pc' = "backoff"
  /\ UNCHANGED <<request, attempt, transientRetries, try, held, picks, seen, call, client>>

\* The retry count or the time budget is used up: this was the last attempt.
RetryLimit ==
  /\ pc = "settle" /\ ~MustSanitize /\ AskedToWait
  /\ \E err \in LimitErrors :
       /\ err.kind = "retry_exhausted" <=> retryAfterRetries >= RetryAfterRetries
       /\ terminal' = err /\ lastErr' = err
       /\ MarkFail(err)
  /\ attempts' = attempt
  /\ pc' = "pick"
  /\ UNCHANGED <<request, forceId, attempt, tried, transientRetries, retryAfterRetries, acct,
                 sanitized, got, buf, held, picks, seen, call, client>>

NextAccount_AnyError ==
  /\ pc = "settle" /\ ~MustSanitize /\ ~AskedToWait
  /\ LET again == transientRetries < TransientRetries /\ attempt < attempts
     IN /\ transientRetries' = IF again THEN transientRetries + 1 ELSE transientRetries
        /\ tried' = IF again THEN tried \ {acct} ELSE tried
  /\ lastErr' = terminal
  /\ MarkFail(terminal)
  /\ pc' = "pick"
  /\ UNCHANGED <<request, forceId, attempt, attempts, retryAfterRetries, try, held, picks,
                 seen, call, client>>

\* Every other error: on to the next account; after a cut connection the
\* same account stays eligible, twice per request.
NextAccount ==
  /\ pc = "settle" /\ ~MustSanitize /\ ~AskedToWait
  /\ LET again == terminal.kind \in Cuts /\ transientRetries < TransientRetries
                  /\ attempt < attempts
     IN /\ transientRetries' = IF again THEN transientRetries + 1 ELSE transientRetries
        /\ tried' = IF again THEN tried \ {acct} ELSE tried
  /\ lastErr' = terminal
  /\ MarkFail(terminal)
  /\ pc' = "pick"
  /\ UNCHANGED <<request, forceId, attempt, attempts, retryAfterRetries, try, held, picks,
                 seen, call, client>>

Backoff_UntilCool ==
  /\ pc = "backoff" /\ acct \notin cooling
  /\ pc' = "pick"
  /\ UNCHANGED <<request, loop, try, held, cooling, picks, marks, seen, call, client>>

Backoff ==
  /\ pc = "backoff"
  /\ pc' = "pick"
  /\ UNCHANGED <<request, loop, try, held, cooling, picks, marks, seen, call, client>>

\* A buffered reply is handed out piece by piece once it is complete.
Deliver ==
  /\ pc = "deliver" /\ buf > 0
  /\ buf' = buf - 1
  /\ sent' = sent + 1 /\ sources' = sources \cup {call}
  /\ UNCHANGED <<request, pc, loop, acct, sanitized, got, terminal, held, cooling, picks,
                 marks, seen, call, failed>>

\* mark_ok clears the cooldown; pool.pin follows.
Succeed ==
  /\ pc = "deliver" /\ buf = 0
  /\ marks' = marks + 1
  /\ cooling' = cooling \ {acct}
  /\ pc' = "end"
  /\ UNCHANGED <<request, loop, try, held, picks, seen, call, client>>

Fail ==
  /\ pc = "fail"
  /\ failed' = TRUE
  /\ pc' = "end"
  /\ UNCHANGED <<request, loop, try, held, cooling, picks, marks, seen, call, sent, sources>>

(***************************************************************************)
(* The client leaves.  The generator notices where it handed something out *)
(* (it is closed there, and the finally clause releases the account if the *)
(* attempt is still running) and while it waits in _backoff_wait.          *)
(***************************************************************************)
ClientLeaves ==
  /\ \/ pc = "stream" /\ stream /\ got /\ PoolRelease
     \/ pc = "deliver" /\ ~stream /\ sent > 0 /\ held' = held
     \/ pc = "backoff" /\ held' = held
  /\ pc' = "gone"
  /\ UNCHANGED <<request, loop, try, cooling, picks, marks, seen, call, client>>

Done == pc \in {"end", "gone"}
Stop == Done /\ UNCHANGED vars

DriverStep ==
  \/ Pick \/ PickNothing \/ GiveUp \/ BuildFails \/ Build
  \/ Message \/ ErrorUnseen \/ ErrorMidReply \/ Tell \/ CleanEnd
  \/ Sanitize \/ RetryAfter \/ RetryLimit \/ NextAccount \/ Backoff
  \/ Deliver \/ Succeed \/ Fail

Next == DriverStep \/ ClientLeaves \/ Stop

Spec == Init /\ [][Next]_vars

\* The driver runs in its own worker thread, every upstream read has a
\* timeout, and _backoff_wait is bounded: it never stops for good.  Nothing
\* makes a client leave.
FairSpec == Spec /\ WF_vars(DriverStep)

-----------------------------------------------------------------------------
(* Properties *)

LoopType ==
  /\ forceId \in Accounts \cup {None} /\ tried \subseteq Accounts
  /\ attempt \in Nat /\ attempts \in Nat
  /\ transientRetries \in 0..TransientRetries /\ retryAfterRetries \in 0..RetryAfterRetries
  /\ lastErr \in Errors
TryType ==
  /\ acct \in Accounts \cup {None} /\ terminal \in Errors \cup {None}
  /\ sanitized \in BOOLEAN /\ got \in BOOLEAN /\ buf \in Nat
PoolType ==
  /\ held \in [Accounts -> Nat] /\ cooling \subseteq Accounts
  /\ picks \in Nat /\ marks \in Nat
  /\ seen \in [Accounts -> Errors \cup {None}]
ClientType ==
  /\ stream \in BOOLEAN /\ force \in Accounts \cup {None}
  /\ call \in Nat /\ sent \in Nat /\ sources \subseteq Nat /\ failed \in BOOLEAN
TypeOK ==
  /\ pc \in {"pick", "build", "stream", "settle", "backoff", "deliver", "tell", "fail",
             "end", "gone"}
  /\ LoopType /\ TryType /\ PoolType /\ ClientType

\* A request never makes more attempts than its own allowance plus the
\* retries the upstream asked for.
Allowance == IF force # None THEN 1 ELSE MaxAttempts
AttemptsBounded ==
  /\ attempts <= Allowance + retryAfterRetries
  /\ picks <= Allowance + RetryAfterRetries

\* A request forced to an account never runs on another one, however often
\* it is retried.
ForcedStays == (force # None /\ acct # None) => acct = force

\* While an upstream call runs, the pool counts it on its account exactly
\* once, and a request that is over counts nowhere.  The call that repeats a
\* request with sanitized tools is left out: the driver released the account
\* before it (AccountPool!McpRetry shows what that does to a shared pool).
StreamsAreCounted ==
  /\ pc \in {"build", "stream", "tell"} /\ (pc # "build" => ~sanitized) => held[acct] = 1
  /\ pc \in {"pick", "deliver", "fail", "end", "gone", "backoff"} => \A a \in Accounts : held[a] = 0

\* Every account a request picked is judged exactly once, unless the client
\* left: no failure goes unmarked and none is marked twice.
EveryPickJudged ==
  pc \in {"pick", "fail", "end", "backoff"} => marks = picks

\* An account that failed with anything but a cut connection or a request to
\* wait is not tried again for the same request.
NoSecondTry ==
  [][\A a \in Accounts :
       (pc = "pick" /\ pc' = "build" /\ acct' = a) =>
         seen[a] = None \/ seen[a].retryAfter \/ seen[a].kind \in Cuts]_vars

\* Only a failure that is the account's own fault puts it into cooldown:
\* soft and transient errors do not.
TransientNeverCools ==
  [][\A a \in cooling' \ cooling : seen'[a].hard]_vars

\* A driver step implements the promise made to the client.
Reply == INSTANCE ReplyStream WITH
  live <- stream,
  verdict <- IF failed THEN "error" ELSE IF pc = "end" THEN "ok" ELSE IF pc = "gone" THEN "gone"
             ELSE "open"
Promise == Reply!Spec

\* Every request comes to an end.
Terminates == <>Done
=============================================================================
