----------------------------- MODULE LardiQueue -----------------------------
(***************************************************************************)
(* The request queue of lardi-connector (app/queue/queue_manager.py): HTTP *)
(* handlers call enqueue(), which registers the request in the process's   *)
(* _pending dictionary, pushes its id on a Redis list and awaits a Future; *)
(* one background task pops ids, sleeps the minimal interval, runs the     *)
(* request against Lardi and settles the Future.                           *)
(*                                                                         *)
(* Each action is the code between two awaits.  A Redis command is two     *)
(* steps, its effect on the server and its reply, so that replies can be   *)
(* lost and other tasks can run in between.  The list lives in Redis and   *)
(* survives a crash of the process; _pending and the Futures do not.       *)
(***************************************************************************)
EXTENDS Naturals, Sequences

CONSTANTS Requests,     \* the request ids (one uuid4 per call, never reused)
          NoRequest,    \* "the consumer holds no request"
          MinInterval,  \* lardi_request_min_interval_seconds, in ticks
          Faults        \* which misfortunes this instance allows

ASSUME QueueAssumption ==
  /\ NoRequest \notin Requests
  /\ MinInterval \in Nat
  /\ Faults \subseteq {"refused", "lost_reply", "cancel", "stop", "crash"}
-----------------------------------------------------------------------------
VARIABLES
  caller,     \* where each enqueue() call stands, named after what it awaits
  future,     \* the Future of each call
  pending,    \* keys of QueueManager._pending
  redisList,  \* the Redis list aetherion:queue:lardi
  consumer,   \* what the consumer task awaits, or how far stop() has gone
  current,    \* the id the consumer has popped and not yet finished
  sleepLeft,  \* ticks left of asyncio.sleep(min_interval)
  quiet,      \* ticks since Lardi was last busy with a request, capped
  ran,        \* history: what became of the execution of each request
  pushNo,     \* history: rank of each id in the order RPUSH was applied
  pushes,     \* history: how many RPUSHes were applied
  lastStarted,\* history: pushNo of the request started last
  lost        \* history: ids popped from the list whose holder forgot them

callVars == <<caller, future, pending>>
consumerVars == <<consumer, current, sleepLeft>>
pushVars == <<pushNo, pushes>>
historyVars == <<ran, lastStarted, lost>>
vars == <<caller, future, pending, redisList, consumer, current, sleepLeft,
          quiet, ran, pushNo, pushes, lastStarted, lost>>

Live == {"llen", "rpush", "applied", "waiting"}
Finished == {"returned", "raised", "unavailable", "cancelled", "dropped"}
Working == {"blpop", "popped", "sleep", "running", "backoff"}

TypeOK ==
  /\ caller \in [Requests -> {"new"} \cup Live \cup Finished]
  /\ future \in [Requests -> {"none", "pending", "result", "exception", "cancelled"}]
  /\ pending \subseteq Requests
  /\ redisList \in Seq(Requests)
  /\ consumer \in Working \cup {"down", "stopping", "stopped"}
  /\ current \in Requests \cup {NoRequest}
  /\ sleepLeft \in 0..MinInterval
  /\ quiet \in 0..MinInterval
  /\ ran \in [Requests -> {"no", "running", "ok", "exception", "aborted"}]
  /\ pushNo \in [Requests -> Nat]
  /\ pushes \in Nat
  /\ lastStarted \in Nat
  /\ lost \subseteq Requests

Init ==
  /\ caller = [r \in Requests |-> "new"]
  /\ future = [r \in Requests |-> "none"]
  /\ pending = {}
  /\ redisList = << >>
  /\ consumer = "down"
  /\ current = NoRequest
  /\ sleepLeft = 0
  /\ quiet = MinInterval
  /\ ran = [r \in Requests |-> "no"]
  /\ pushNo = [r \in Requests |-> 0]
  /\ pushes = 0
  /\ lastStarted = 0
  /\ lost = {}

InList(r) == \E i \in 1..Len(redisList) : redisList[i] = r
-----------------------------------------------------------------------------
(***************************************************************************)
(* enqueue(): one step per await.                                          *)
(***************************************************************************)

\* Mutants: registration forgotten; entry kept on error; LPUSH for RPUSH.
Mutant_Registered(r) == pending
Mutant_Forgotten(r) == pending
Mutant_Pushed(r) == <<r>> \o redisList

\* self._pending[request_id] = ... and self._pending.pop(request_id, None).
Registered(r) == pending \cup {r}
Forgotten(r) == pending \ {r}

\* RPUSH.
Pushed(r) == Append(redisList, r)

\* Create the Future and register BEFORE anything reaches Redis.
Enqueue(r) ==
  /\ consumer # "down"
  /\ caller[r] = "new"
  /\ caller' = [caller EXCEPT ![r] = "llen"]
  /\ future' = [future EXCEPT ![r] = "pending"]
  /\ pending' = Registered(r)
  /\ UNCHANGED <<redisList, consumerVars, quiet, pushVars, historyVars>>

LlenReply(r) ==
  /\ caller[r] = "llen"
  /\ caller' = [caller EXCEPT ![r] = "rpush"]
  /\ UNCHANGED <<future, pending, redisList, consumerVars, quiet, pushVars,
                 historyVars>>

\* The server appends the id; the consumer may see it before enqueue() does.
RpushApplied(r) ==
  /\ caller[r] = "rpush"
  /\ caller' = [caller EXCEPT ![r] = "applied"]
  /\ redisList' = Pushed(r)
  /\ pushes' = pushes + 1
  /\ pushNo' = [pushNo EXCEPT ![r] = pushes + 1]
  /\ UNCHANGED <<future, pending, consumerVars, quiet, historyVars>>

RpushReply(r) ==
  /\ caller[r] = "applied"
  /\ caller' = [caller EXCEPT ![r] = "waiting"]
  /\ UNCHANGED <<future, pending, redisList, consumerVars, quiet, pushVars,
                 historyVars>>

\* RedisError: Redis refused the command, or applied RPUSH and the reply was
\* lost.  Either way the caller gets QueueUnavailableError (HTTP 503).
EnqueueFails(r) ==
  /\ \/ "refused" \in Faults /\ caller[r] \in {"llen", "rpush"}
     \/ "lost_reply" \in Faults /\ caller[r] = "applied"
  /\ caller' = [caller EXCEPT ![r] = "unavailable"]
  /\ pending' = Forgotten(r)
  /\ UNCHANGED <<future, redisList, consumerVars, quiet, pushVars, historyVars>>

\* await future: the result, the exception or the cancellation reaches the caller.
EnqueueReturns(r) ==
  /\ caller[r] = "waiting"
  /\ future[r] \in {"result", "exception", "cancelled"}
  /\ caller' = [caller EXCEPT ![r] = CASE future[r] = "result" -> "returned"
                                       [] future[r] = "exception" -> "raised"
                                       [] OTHER -> "cancelled"]
  /\ UNCHANGED <<future, pending, redisList, consumerVars, quiet, pushVars,
                 historyVars>>

\* The handler's task is cancelled.  Only at "await future" does that cancel
\* the Future; CancelledError is no RedisError, so _pending keeps the entry.
CallerCancelled(r) ==
  /\ "cancel" \in Faults
  /\ caller[r] \in Live
  /\ caller' = [caller EXCEPT ![r] = "cancelled"]
  /\ future' = IF caller[r] = "waiting" /\ future[r] = "pending"
               THEN [future EXCEPT ![r] = "cancelled"] ELSE future
  /\ UNCHANGED <<pending, redisList, consumerVars, quiet, pushVars, historyVars>>
-----------------------------------------------------------------------------
(***************************************************************************)
(* _consumer_loop().  A BLPOP that times out changes nothing.              *)
(***************************************************************************)

Start ==
  /\ consumer = "down"
  /\ consumer' = "blpop"
  /\ UNCHANGED <<callVars, redisList, current, sleepLeft, quiet, pushVars,
                 historyVars>>

\* Mutants: no sleep; sleep one too long; cancellation not looked at; exception
\* swallowed; the loop ends on an error.
Mutant_NoNap == 0
Mutant_LongNap == MinInterval + 1
Mutant_Abandoned == FALSE
Mutant_SettledAs(outcome) == "result"
Mutant_AfterBackoff == "stopped"

\* asyncio.sleep(settings.lardi_request_min_interval_seconds)
Nap == MinInterval

\* future.cancelled(), asked after the sleep.
Abandoned == future[current] = "cancelled"

\* future.set_result or future.set_exception.
SettledAs(outcome) == IF outcome = "ok" THEN "result" ELSE "exception"

\* Where the loop goes on after an error: back to BLPOP.
AfterBackoff == "blpop"

\* The server pops the head; the reply is on its way.
BlpopServed ==
  /\ consumer = "blpop"
  /\ redisList # << >>
  /\ consumer' = "popped"
  /\ current' = Head(redisList)
  /\ redisList' = Tail(redisList)
  /\ UNCHANGED <<callVars, sleepLeft, quiet, pushVars, historyVars>>

\* The id is known: take its entry out of _pending and sleep.
TakeRequest ==
  /\ consumer = "popped"
  /\ current \in pending
  /\ pending' = Forgotten(current)
  /\ consumer' = "sleep"
  /\ sleepLeft' = Nap
  /\ UNCHANGED <<caller, future, redisList, current, quiet, pushVars, historyVars>>

\* The id is unknown: warn and go on.
DiscardUnknown ==
  /\ consumer = "popped"
  /\ current \notin pending
  /\ consumer' = "blpop"
  /\ current' = NoRequest
  /\ UNCHANGED <<callVars, redisList, sleepLeft, quiet, pushVars, historyVars>>

\* RedisError: refused before, or the popped id is lost with the reply.
BlpopFails ==
  /\ \/ "refused" \in Faults /\ consumer = "blpop" /\ UNCHANGED lost
     \/ "lost_reply" \in Faults /\ consumer = "popped" /\ lost' = lost \cup {current}
  /\ consumer' = "backoff"
  /\ current' = NoRequest
  /\ UNCHANGED <<callVars, redisList, sleepLeft, quiet, pushVars, ran, lastStarted>>

BackoffOver ==
  /\ consumer = "backoff"
  /\ consumer' = AfterBackoff
  /\ UNCHANGED <<callVars, redisList, current, sleepLeft, quiet, pushVars,
                 historyVars>>

\* The caller gave up during the sleep: the request is not executed.
SkipCancelled ==
  /\ consumer = "sleep"
  /\ sleepLeft = 0
  /\ Abandoned
  /\ consumer' = "blpop"
  /\ current' = NoRequest
  /\ UNCHANGED <<callVars, redisList, sleepLeft, quiet, pushVars, historyVars>>

\* coro_factory(): the request goes to Lardi.
Execute ==
  /\ consumer = "sleep"
  /\ sleepLeft = 0
  /\ ~Abandoned
  /\ consumer' = "running"
  /\ quiet' = 0
  /\ ran' = [ran EXCEPT ![current] = "running"]
  /\ lastStarted' = pushNo[current]
  /\ UNCHANGED <<callVars, redisList, current, sleepLeft, pushVars, lost>>

\* The execution ends; the Future is settled unless it is done already.
Settle(outcome) ==
  /\ consumer = "running"
  /\ ran' = [ran EXCEPT ![current] = outcome]
  /\ future' = IF future[current] = "pending"
               THEN [future EXCEPT ![current] = SettledAs(outcome)] ELSE future
  /\ consumer' = "blpop"
  /\ current' = NoRequest
  /\ UNCHANGED <<caller, pending, redisList, sleepLeft, quiet, pushVars,
                 lastStarted, lost>>

Finish == \E outcome \in {"ok", "exception"} : Settle(outcome)

\* Time passes for the sleeping consumer and for the pause between requests.
Tick ==
  /\ sleepLeft' = IF sleepLeft > 0 THEN sleepLeft - 1 ELSE 0
  /\ quiet' = IF consumer # "running" /\ quiet < MinInterval THEN quiet + 1 ELSE quiet
  /\ <<sleepLeft, quiet>>' # <<sleepLeft, quiet>>
  /\ UNCHANGED <<callVars, redisList, consumer, current, pushVars, historyVars>>
-----------------------------------------------------------------------------
(***************************************************************************)
(* stop(), crash.                                                          *)
(***************************************************************************)

\* A killed execution: Lardi was busy until now.
AbortRun ==
  /\ ran' = IF consumer = "running" THEN [ran EXCEPT ![current] = "aborted"] ELSE ran
  /\ current' = NoRequest
  /\ sleepLeft' = 0

\* stop() cancels the consumer task wherever it awaits and waits for its end.
\* CancelledError leaves the loop past "except Exception": a popped request
\* keeps its Future unsettled.
StopCancelsConsumer ==
  /\ "stop" \in Faults
  /\ consumer \in Working
  /\ AbortRun
  /\ consumer' = "stopping"
  /\ lost' = IF current = NoRequest THEN lost ELSE lost \cup {current}
  /\ UNCHANGED <<callVars, redisList, quiet, pushVars, lastStarted>>

\* Then it cancels every Future still in _pending and clears _pending.
StopCancelsFutures ==
  /\ consumer = "stopping"
  /\ consumer' = "stopped"
  /\ future' = [r \in Requests |-> IF r \in pending /\ future[r] = "pending"
                                   THEN "cancelled" ELSE future[r]]
  /\ pending' = {}
  /\ UNCHANGED <<caller, redisList, current, sleepLeft, quiet, pushVars, historyVars>>

\* The process dies, after stop() or at any moment; Redis keeps the list.
Crash ==
  /\ "crash" \in Faults
  /\ consumer # "down"
  /\ AbortRun
  /\ consumer' = "down"
  /\ caller' = [r \in Requests |-> IF caller[r] \in Live THEN "dropped" ELSE caller[r]]
  /\ future' = [r \in Requests |-> "none"]
  /\ pending' = {}
  /\ UNCHANGED <<redisList, quiet, pushVars, lastStarted, lost>>
-----------------------------------------------------------------------------
Call(r) == \/ Enqueue(r) \/ LlenReply(r) \/ RpushApplied(r) \/ RpushReply(r)
           \/ EnqueueFails(r) \/ EnqueueReturns(r) \/ CallerCancelled(r)

Consume == \/ Start \/ BlpopServed \/ TakeRequest \/ DiscardUnknown \/ BlpopFails
           \/ BackoffOver \/ SkipCancelled \/ Execute \/ Finish \/ Tick

Next == \/ \E r \in Requests : Call(r)
        \/ Consume
        \/ StopCancelsConsumer \/ StopCancelsFutures \/ Crash

Spec == Init /\ [][Next]_vars

(***************************************************************************)
(* Fairness: the event loop runs every ready task, Redis and Lardi answer  *)
(* (both clients have timeouts), and outages of Redis end, so a consumer   *)
(* that keeps retrying BLPOP is served at last.  Nothing makes a client    *)
(* call, cancel or fail.                                                   *)
(***************************************************************************)
FairSpec ==
  /\ Spec
  /\ \A r \in Requests : /\ WF_vars(LlenReply(r)) /\ WF_vars(RpushApplied(r))
                         /\ WF_vars(RpushReply(r)) /\ WF_vars(EnqueueReturns(r))
  /\ WF_vars(Start) /\ SF_vars(BlpopServed) /\ WF_vars(TakeRequest)
  /\ WF_vars(DiscardUnknown) /\ WF_vars(BackoffOver) /\ WF_vars(SkipCancelled)
  /\ WF_vars(Execute) /\ WF_vars(Finish) /\ WF_vars(Tick)
-----------------------------------------------------------------------------
(***************************************************************************)
(* Properties.                                                             *)
(***************************************************************************)

\* The step that sends request r to Lardi.
Starts(r) == ran[r] # "running" /\ ran'[r] = "running"

\* Requests reach Lardi in the order in which Redis accepted them, each at most
\* once, whatever was lost, refused, cancelled or restarted in between: lines
\* 4-6 of queue_manager.py.
FifoAtMostOnce ==
  [][\A r \in Requests : Starts(r) => ran[r] = "no" /\ pushNo[r] > lastStarted]_vars

\* Lardi is left alone for the minimal interval before every request, also
\* across a crash in the middle of the previous one (queue_manager.py:6, 180).
RateLimited ==
  [][(\E r \in Requests : Starts(r)) => quiet >= MinInterval]_vars

\* A request whose caller has given up while awaiting its Future is never sent:
\* the Future is looked at after the sleep, not before (182-184).
CancelledNeverSent ==
  [][\A r \in Requests : Starts(r) => future[r] # "cancelled"]_vars

\* The consumer throws an id away only when nobody waits for it any more: what
\* registering before RPUSH is for (the comment at 116-120).
OnlyDeadIdsDiscarded ==
  [][consumer = "popped" /\ consumer' = "blpop" => caller[current] \notin Live]_vars

\* enqueue() gives its caller the outcome of the caller's own execution: a result
\* only if that ran to its end, an exception only if that raised.
AnswerIsOwnOutcome ==
  \A r \in Requests : /\ caller[r] = "returned" => ran[r] = "ok"
                      /\ caller[r] = "raised" => ran[r] = "exception"

\* A caller that waits has its id in the list or in the consumer's hands, unless
\* the id was lost after BLPOP removed it: nothing else can make it wait forever.
WaiterIsQueued ==
  \A r \in Requests :
    caller[r] \in {"applied", "waiting"} /\ future[r] = "pending"
      => InList(r) \/ current = r \/ r \in lost

\* _pending does not outlive the calls: an answered or refused one has no entry,
\* and one whose id is neither on its way to Redis, listed, popped nor lost is
\* a call cancelled before its RPUSH.
PendingIsAccounted ==
  \A r \in pending :
    /\ caller[r] \in Live \cup {"cancelled"}
    /\ \/ caller[r] \in {"llen", "rpush"} \/ InList(r) \/ current = r \/ r \in lost
       \/ caller[r] = "cancelled" /\ pushNo[r] = 0

\* Every call ends: outages of Redis and other callers' cancellations delay the
\* consumer but never stop its loop (202-208).
EveryCallEnds == \A r \in Requests : caller[r] \in Live ~> caller[r] \in Finished

\* What stop() promises at line 71, "stops the consumer and cancels all waiting
\* Futures": when it is done nobody who awaited a Future still does.
StopReleasesEveryone ==
  [][consumer = "stopping" /\ consumer' = "stopped"
       => \A r \in Requests : caller[r] = "waiting" => future'[r] # "pending"]_vars
\* The queue as its callers see it: at most one execution at a time, each request
\* at most once, every answer the outcome of the caller's own execution (lines
\* 4-6 and the Returns/Raises of enqueue, 102-108).
Contract == INSTANCE QueueContract WITH
  call <- [r \in Requests |-> IF caller[r] \in Live THEN "open" ELSE caller[r]]
ImplementsContract == Contract!CSpec
=============================================================================
