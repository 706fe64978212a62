--------------------------- MODULE SessionRecovery ---------------------------
(***************************************************************************)
(* How lardi-connector gets a request past an expired session: the two     *)
(* endpoints read the LTSID cookie from Redis and queue a closure over it; *)
(* the queue executes closures one at a time (QueueContract); an execution *)
(* sends the request to Lardi, on 401 publishes a refresh request, polls   *)
(* Redis for another LTSID and resends once (retry_handler.py,             *)
(* session_refresh.py), and on 429/503 starts over after a backoff.        *)
(*                                                                         *)
(* auth-worker is the environment: it logs in at any time, for whatever    *)
(* reason, and writes each cookie it got at most once; two logins may      *)
(* overtake each other between login and write.  Lardi's answers are free. *)
(* Cookies are numbered in the order of the logins.  A tick is a fraction  *)
(* of a second that divides all the intervals.                             *)
(***************************************************************************)
EXTENDS QueueContract, Naturals, FiniteSets

CONSTANTS MaxRetries,    \* MAX_RETRIES
          BackoffBase,   \* BACKOFF_BASE_SECONDS
          PollInterval,  \* POLL_INTERVAL_SECONDS
          MaxWait,       \* ltsid_refresh_wait_seconds
          RetryDelay,    \* ltsid_retry_delay_ms
          MinInterval,   \* lardi_request_min_interval_seconds
          MaxLogins,     \* bound on the logins of auth-worker
          Faults         \* which Redis reads of the connector may fail

ASSUME RecoveryAssumption ==
  /\ {MaxRetries, RetryDelay, MaxLogins} \subseteq Nat
  /\ {BackoffBase, PollInterval, MaxWait, MinInterval} \subseteq Nat \ {0}
  /\ MinInterval <= BackoffBase /\ MinInterval <= PollInterval
  /\ Faults \subseteq {"endpoint_read", "old_read", "poll_read"}
-----------------------------------------------------------------------------
VARIABLES
  seen,      \* the LTSID each closure was built over
  outcome,   \* how each request ended: result, or class of exception
  phase,     \* what the running execution awaits
  token,     \* the LTSID it sends, or is about to send
  resending, \* it is inside the one repetition of handle_401_and_retry
  old,       \* old_ltsid of handle_401_and_retry
  attempt,   \* the loop variable of with_rate_limit_retry
  elapsed,   \* elapsed of wait_for_new_ltsid
  left,      \* ticks left of the current asyncio.sleep
  quiet,     \* ticks since Lardi was last busy with a request, capped
  ltsid,     \* the Redis key aetherion:auth:ltsid
  logins,    \* number of logins so far, the newest cookie
  unstored,  \* cookies auth-worker holds and has not yet written to Redis
  rejected,  \* history: cookies that got 401 in this attempt
  sends,     \* history: HTTP requests of this execution
  asks       \* history: refresh requests of this execution

requestVars == <<call, ran, seen, outcome>>
waitVars == <<old, elapsed>>
redisVars == <<ltsid, logins, unstored>>
historyVars == <<rejected, sends, asks>>
vars == <<call, ran, seen, outcome, phase, token, resending, old, attempt,
          elapsed, left, quiet, ltsid, logins, unstored, rejected, sends, asks>>

NoToken == 0
Tokens == 1..MaxLogins

Failures == {"LTSID_REFRESH_FAILED", "LTSID_REFRESH_TIMEOUT", "rate_limited",
             "LARDI_FAILED"}

TypeOK ==
  /\ CTypeOK
  /\ seen \in [Requests -> Tokens \cup {NoToken}]
  /\ outcome \in [Requests -> {"none", "ok", "no_ltsid"} \cup Failures]
  /\ phase \in {"idle", "send", "backoff", "read_old", "publish", "poll", "delay"}
  /\ {token, old, ltsid} \subseteq Tokens \cup {NoToken}
  /\ resending \in BOOLEAN
  /\ attempt \in 0..MaxRetries
  /\ elapsed \in 0..(MaxWait + PollInterval)
  /\ left \in Nat
  /\ quiet \in 0..MinInterval
  /\ logins \in 0..MaxLogins
  /\ unstored \subseteq 1..logins
  /\ rejected \subseteq Tokens
  /\ {sends, asks} \subseteq Nat

Init ==
  /\ CInit
  /\ seen = [r \in Requests |-> NoToken]
  /\ outcome = [r \in Requests |-> "none"]
  /\ phase = "idle"
  /\ token = NoToken /\ old = NoToken
  /\ resending = FALSE
  /\ attempt = 0 /\ elapsed = 0 /\ left = 0
  /\ quiet = MinInterval
  /\ ltsid = NoToken /\ logins = 0 /\ unstored = {}
  /\ rejected = {} /\ sends = 0 /\ asks = 0
-----------------------------------------------------------------------------
(***************************************************************************)
(* The endpoints /search and /cargo/{id}.                                  *)
(***************************************************************************)

\* No cookie, or Redis did not say: 503 without queueing.
Refuse(r) ==
  /\ call[r] = "new" /\ outcome[r] = "none"
  /\ ltsid = NoToken \/ "endpoint_read" \in Faults
  /\ outcome' = [outcome EXCEPT ![r] = "no_ltsid"]
  /\ UNCHANGED <<call, ran, seen, phase, token, resending, waitVars, attempt, left,
                 quiet, redisVars, historyVars>>

\* The closure keeps the cookie of now, however long the request will queue.
Accept(r) ==
  /\ outcome[r] = "none"
  /\ ltsid # NoToken
  /\ Submit(r)
  /\ seen' = [seen EXCEPT ![r] = ltsid]
  /\ UNCHANGED <<outcome, phase, token, resending, waitVars, attempt, left, quiet,
                 redisVars, historyVars>>

\* The call comes back, is refused, or its caller leaves; see QueueContract.
CallEnds(r) ==
  /\ Answer(r) \/ GiveUp(r)
  /\ UNCHANGED <<seen, outcome, phase, token, resending, waitVars, attempt, left,
                 quiet, redisVars, historyVars>>
-----------------------------------------------------------------------------
(***************************************************************************)
(* One execution: with_rate_limit_retry(execute).                          *)
(***************************************************************************)

\* Mutants: one attempt too many; the backoff forgotten; any cookie taken for a
\* new one; a poll that does not count as time waited.
Mutant_MayRetry == attempt <= MaxRetries
Mutant_Pause(a) == 0
Mutant_IsNew(t) == t # NoToken
Mutant_Waited(e) == e

\* A cookie wait_for_new_ltsid accepts: current and current != old_ltsid.
IsNew(t) == t # NoToken /\ t # old

\* The negation of attempt >= MAX_RETRIES; the delay, which jitter only lengthens;
\* elapsed += POLL_INTERVAL_SECONDS.
MayRetry == attempt < MaxRetries
Pause(a) == BackoffBase * 2^a
Waited(e) == e + PollInterval

\* A request goes out.
Send(t, again) ==
  /\ phase' = "send"
  /\ token' = t
  /\ resending' = again
  /\ quiet' = 0

\* The queue runs the closure, having slept since the previous execution.
Execute(r) ==
  /\ Begin(r)
  /\ quiet = MinInterval
  /\ Send(seen[r], FALSE)
  /\ attempt' = 0
  /\ rejected' = {} /\ sends' = 1 /\ asks' = 0
  /\ UNCHANGED <<seen, outcome, waitVars, left, redisVars>>

\* The execution ends, with Lardi's answer or with an exception.
EndAs(r, how) ==
  /\ End(r)
  /\ ran'[r] = IF how = "ok" THEN "ok" ELSE "exception"
  /\ outcome' = [outcome EXCEPT ![r] = how]
  /\ phase' = "idle"

\* 2xx; or 400, 404, any other status, a timeout, a network error: no retry.
Conclude(r) ==
  /\ phase = "send"
  /\ EndAs(r, "ok") \/ EndAs(r, "LARDI_FAILED")
  /\ UNCHANGED <<seen, token, resending, waitVars, attempt, left, quiet, redisVars,
                 historyVars>>

\* 401 to the first sending of an attempt.
Unauthorized(r) ==
  /\ phase = "send" /\ ran[r] = "running"
  /\ ~resending
  /\ phase' = "read_old"
  /\ rejected' = rejected \cup {token}
  /\ UNCHANGED <<requestVars, token, resending, waitVars, attempt, left, quiet,
                 redisVars, sends, asks>>

\* 401 to the resending: LtsidRefreshError, which no retry loop catches.
StillUnauthorized(r) ==
  /\ phase = "send"
  /\ resending
  /\ EndAs(r, "LTSID_REFRESH_FAILED")
  /\ rejected' = rejected \cup {token}
  /\ UNCHANGED <<seen, token, resending, waitVars, attempt, left, quiet, redisVars,
                 sends, asks>>

\* 429 or 503, to the first sending or to the resending.
Throttled(r) ==
  /\ phase = "send" /\ ran[r] = "running"
  /\ \/ /\ MayRetry
        /\ phase' = "backoff"
        /\ left' = Pause(attempt)
        /\ UNCHANGED requestVars
     \/ /\ ~MayRetry
        /\ EndAs(r, "rate_limited")
        /\ UNCHANGED <<seen, left>>
  /\ UNCHANGED <<token, resending, waitVars, attempt, quiet, redisVars, historyVars>>

\* execute() again, with the cookie the closure was built over.
NextAttempt(r) ==
  /\ phase = "backoff" /\ ran[r] = "running"
  /\ left = 0
  /\ Send(seen[r], FALSE)
  /\ attempt' = attempt + 1
  /\ rejected' = {} /\ sends' = sends + 1
  /\ UNCHANGED <<requestVars, waitVars, left, redisVars, asks>>
-----------------------------------------------------------------------------
(***************************************************************************)
(* handle_401_and_retry and wait_for_new_ltsid.                            *)
(***************************************************************************)

\* old_ltsid is what Redis holds now, not the cookie that was rejected; any
\* error makes it None.
ReadOld(r) ==
  /\ phase = "read_old" /\ ran[r] = "running"
  /\ \/ old' = ltsid
     \/ "old_read" \in Faults /\ old' = NoToken
  /\ phase' = "publish"
  /\ UNCHANGED <<requestVars, token, resending, elapsed, attempt, left, quiet,
                 redisVars, historyVars>>

\* PUBLISH; a failure is logged and the wait begins all the same.
Publish(r) ==
  /\ phase = "publish" /\ ran[r] = "running"
  /\ asks' = asks + 1
  /\ phase' = "poll"
  /\ elapsed' = 0
  /\ left' = PollInterval
  /\ UNCHANGED <<requestVars, token, resending, old, attempt, quiet, redisVars,
                 rejected, sends>>

PollFindsNew(r) ==
  /\ phase = "poll" /\ ran[r] = "running"
  /\ left = 0
  /\ IsNew(ltsid)
  /\ elapsed' = Waited(elapsed)
  /\ token' = ltsid
  /\ phase' = "delay"
  /\ left' = RetryDelay
  /\ UNCHANGED <<requestVars, resending, old, attempt, quiet, redisVars, historyVars>>

\* Nothing new, or GET failed: sleep again, or give up with the time.
PollFindsNothing(r) ==
  /\ phase = "poll" /\ ran[r] = "running"
  /\ left = 0
  /\ ~IsNew(ltsid) \/ "poll_read" \in Faults
  /\ elapsed' = Waited(elapsed)
  /\ \/ /\ elapsed' < MaxWait
        /\ left' = PollInterval
        /\ UNCHANGED <<requestVars, phase>>
     \/ /\ elapsed' >= MaxWait
        /\ EndAs(r, "LTSID_REFRESH_TIMEOUT")
        /\ UNCHANGED <<seen, left>>
  /\ UNCHANGED <<token, resending, old, attempt, quiet, redisVars, historyVars>>

Resend(r) ==
  /\ phase = "delay" /\ ran[r] = "running"
  /\ left = 0
  /\ Send(token, TRUE)
  /\ sends' = sends + 1
  /\ UNCHANGED <<requestVars, waitVars, attempt, left, redisVars, rejected, asks>>
-----------------------------------------------------------------------------
(***************************************************************************)
(* Time, the end of the process, and the environment.                      *)
(***************************************************************************)

\* Lardi is busy while a request is out.
Tick ==
  /\ left' = IF left > 0 THEN left - 1 ELSE 0
  /\ quiet' = IF phase # "send" /\ quiet < MinInterval THEN quiet + 1 ELSE quiet
  /\ <<left, quiet>>' # <<left, quiet>>
  /\ UNCHANGED <<requestVars, phase, token, resending, waitVars, attempt, redisVars,
                 historyVars>>

\* stop() or death of the connector: the execution is cut short.
Crash ==
  /\ Die
  /\ <<call, ran>>' # <<call, ran>>
  /\ phase' = "idle"
  /\ left' = 0
  /\ UNCHANGED <<seen, outcome, token, resending, waitVars, attempt, quiet,
                 redisVars, historyVars>>

Login ==
  /\ logins < MaxLogins
  /\ logins' = logins + 1
  /\ unstored' = unstored \cup {logins + 1}
  /\ UNCHANGED <<requestVars, phase, token, resending, waitVars, attempt, left,
                 quiet, ltsid, historyVars>>

\* store(): written to Redis, or kept in auth-worker's memory only.
Store(t) ==
  /\ unstored' = unstored \ {t}
  /\ ltsid' \in {t, ltsid}
  /\ UNCHANGED <<requestVars, phase, token, resending, waitVars, attempt, left,
                 quiet, logins, historyVars>>

KeyExpires ==
  /\ ltsid # NoToken
  /\ ltsid' = NoToken
  /\ UNCHANGED <<requestVars, phase, token, resending, waitVars, attempt, left,
                 quiet, logins, unstored, historyVars>>
-----------------------------------------------------------------------------
Executing(r) ==
  \/ Execute(r) \/ Conclude(r) \/ Unauthorized(r) \/ StillUnauthorized(r)
  \/ Throttled(r) \/ NextAttempt(r) \/ ReadOld(r) \/ Publish(r)
  \/ PollFindsNew(r) \/ PollFindsNothing(r) \/ Resend(r)

Next ==
  \/ \E r \in Requests : Refuse(r) \/ Accept(r) \/ CallEnds(r) \/ Executing(r)
  \/ Tick \/ Crash
  \/ Login \/ KeyExpires \/ \E t \in unstored : Store(t)

Spec == Init /\ [][Next]_vars

(***************************************************************************)
(* Fairness: the event loop runs the one execution whenever it can go on,  *)
(* Lardi and Redis answer or time out, sleeps end.  Nothing makes          *)
(* auth-worker log in.                                                     *)
(***************************************************************************)
FairSpec == Spec /\ WF_vars(Tick) /\ \A r \in Requests : WF_vars(Executing(r))
-----------------------------------------------------------------------------
(***************************************************************************)
(* Properties.                                                             *)
(***************************************************************************)

\* One step sends one HTTP request to Lardi.
Sends == phase # "send" /\ phase' = "send"

\* What a rejected cookie costs: at most two HTTP requests and one refresh
\* request per attempt, whatever Lardi answers to either of the two and whatever
\* auth-worker does (retry_handler.py:125-131 inside 160-196).
BoundedLoad ==
  /\ sends <= 2 * (MaxRetries + 1)
  /\ asks <= MaxRetries + 1
  /\ phase # "idle" => sends <= 2 * attempt + IF resending THEN 2 ELSE 1

\* The queue's pause between two requests to Lardi also lies before the resending
\* and before every further attempt, although neither passes through the queue
\* (queue_manager.py:6 and 180; session_refresh.py:65, retry_handler.py:196).
LardiIsSpared == [][Sends => quiet >= MinInterval]_vars

\* LTSID_REFRESH_FAILED says that a second cookie was rejected, not the first one
\* again, as long as there was an old_ltsid to compare with: reading it may fail, and
\* the key may have expired (retry_handler.py:84-86, 103-112).
FailedMeansTwoCookies ==
  [][\A r \in Requests :
       outcome'[r] = "LTSID_REFRESH_FAILED" /\ outcome[r] # outcome'[r] /\ old # NoToken
         => Cardinality(rejected') = 2]_vars

\* An execution ends though auth-worker never logs in and Lardi answers nothing
\* but errors: the request after it gets its turn (session_refresh.py:64).
ExecutionEnds == \A r \in Requests : ran[r] = "running" ~> ran[r] # "running"
=============================================================================
