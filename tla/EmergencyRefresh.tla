-------------------------- MODULE EmergencyRefresh --------------------------
(***************************************************************************)
(* The emergency refresh of auth-worker (app/pubsub/emergency_refresh.py): *)
(* each worker process runs one listener task on the Redis channel         *)
(* aetherion:auth:refresh; for every message it takes the Redis lock       *)
(* aetherion:auth:refresh:lock (SET NX EX), logs in with Chrome, and       *)
(* deletes the lock, or, if somebody else holds the lock, waits for it.    *)
(* A circuit breaker in each process pauses the logins after Threshold     *)
(* failures in a row.                                                      *)
(*                                                                         *)
(* docker-compose.yml runs one worker; the lock is there for several.      *)
(* What is stored after a login is the business of LtsidSession.           *)
(***************************************************************************)
EXTENDS Integers, FiniteSets

CONSTANTS Workers,
          NoWorker,      \* "nobody has set the lock"
          Threshold,     \* refresh_circuit_breaker_threshold
          Pause,         \* refresh_circuit_breaker_pause_minutes, in ticks
          LoginTimeout,  \* chrome_timeout_seconds + 15, in ticks
          LockTTL,       \* ltsid_refresh_lock_ttl_seconds, in ticks
          WaitForLock,   \* ltsid_refresh_wait_seconds, in ticks
          Reconnect,     \* the sleep before subscribing again, in ticks
          MaxBacklog,    \* bound on messages waiting in a subscription
          Faults         \* which misfortunes this instance allows

ASSUME RefreshAssumption ==
  /\ NoWorker \notin Workers
  /\ {Threshold, Pause, LoginTimeout, LockTTL} \subseteq Nat \ {0}
  /\ {WaitForLock, Reconnect, MaxBacklog} \subseteq Nat
  /\ LoginTimeout < LockTTL
  /\ Faults \subseteq {"redis", "lost_reply", "connection", "crash", "stop"}
-----------------------------------------------------------------------------
VARIABLES
  listener,  \* what the listener task of each worker awaits
  timer,     \* ticks left of what it awaits
  backlog,   \* messages its subscription has received and it has not read
  failures,  \* CircuitBreaker._consecutive_failures
  paused,    \* ticks until CircuitBreaker._open_until
  zombie,    \* a Chrome whose login timed out is still running in the executor
  lock,      \* ticks until the lock expires, 0 when there is none
  owner,     \* history: the worker whose SET made the lock
  inRow,     \* history: logins failed in a row, counted afresh after a pause
  rested     \* history: ticks since the last login ended, capped

taskVars == <<listener, timer, backlog>>
breakerVars == <<failures, paused>>
lockVars == <<lock, owner>>
historyVars == <<inRow, rested>>
vars == <<listener, timer, backlog, failures, paused, zombie, lock, owner, inRow,
          rested>>

Subscribed == {"listening", "locking", "login", "releasing", "waiting"}

TypeOK ==
  /\ listener \in [Workers -> Subscribed \cup {"down", "subscribing", "reconnect"}]
  /\ timer \in [Workers -> Nat]
  /\ backlog \in [Workers -> 0..MaxBacklog]
  /\ failures \in [Workers -> 0..(Threshold - 1)]
  /\ paused \in [Workers -> 0..Pause]
  /\ zombie \in [Workers -> BOOLEAN]
  /\ lock \in 0..LockTTL
  /\ owner \in Workers \cup {NoWorker}
  /\ inRow \in [Workers -> 0..Threshold]
  /\ rested \in [Workers -> 0..Pause]

Init ==
  /\ listener = [w \in Workers |-> "down"]
  /\ timer = [w \in Workers |-> 0]
  /\ backlog = [w \in Workers |-> 0]
  /\ failures = [w \in Workers |-> 0]
  /\ paused = [w \in Workers |-> 0]
  /\ zombie = [w \in Workers |-> FALSE]
  /\ lock = 0
  /\ owner = NoWorker
  /\ inRow = [w \in Workers |-> 0]
  /\ rested = [w \in Workers |-> Pause]
-----------------------------------------------------------------------------
\* Mutants: the lock taken without NX; a breaker that opens one failure late, or
\* closes a moment early; a success that does not reset the counter; the lock
\* deleted by whoever waited for it; the loop left on an error.
Mutant_MayLock == TRUE
Mutant_Trips(w) == failures[w] + 1 > Threshold
Mutant_IsOpen(w) == paused[w] > 1
Mutant_AfterSuccess(w) == failures[w]
Mutant_AfterWait(w) == "releasing"
Mutant_AfterError(w) == "down"

\* NX.
MayLock == lock = 0

\* record_failure: is this the failure that opens the circuit?
Trips(w) == failures[w] + 1 >= Threshold

\* is_open: time.monotonic() < _open_until.
IsOpen(w) == paused[w] > 0

\* record_success.
AfterSuccess(w) == 0

\* Where the listener goes on after _wait_for_lock_release, and after an error.
AfterWait(w) == "listening"
AfterError(w) == "reconnect"

Goes(w, where, ticks) ==
  /\ listener' = [listener EXCEPT ![w] = where]
  /\ timer' = [timer EXCEPT ![w] = ticks]
-----------------------------------------------------------------------------
(***************************************************************************)
(* listen_for_refresh_events.                                              *)
(***************************************************************************)

\* A new process with a new CircuitBreaker.
Start(w) ==
  /\ listener[w] = "down"
  /\ Goes(w, "subscribing", 0)
  /\ failures' = [failures EXCEPT ![w] = 0]
  /\ paused' = [paused EXCEPT ![w] = 0]
  /\ inRow' = [inRow EXCEPT ![w] = 0]
  /\ UNCHANGED <<backlog, zombie, lockVars, rested>>

Subscribe(w) ==
  /\ listener[w] = "subscribing"
  /\ Goes(w, "listening", 0)
  /\ UNCHANGED <<backlog, breakerVars, zombie, lockVars, historyVars>>

\* Any exception in the try block: the subscription and what it had received
\* are given up, and nothing is received until the next one.
Disconnect(w) ==
  /\ "connection" \in Faults
  /\ listener[w] \in {"subscribing", "listening"}
  /\ Goes(w, AfterError(w), Reconnect)
  /\ backlog' = [backlog EXCEPT ![w] = 0]
  /\ UNCHANGED <<breakerVars, zombie, lockVars, inRow, rested>>

ReconnectOver(w) ==
  /\ listener[w] = "reconnect"
  /\ timer[w] = 0
  /\ Goes(w, "subscribing", 0)
  /\ UNCHANGED <<backlog, breakerVars, zombie, lockVars, historyVars>>

\* lardi-connector publishes; whoever is not subscribed misses it.
Published ==
  /\ \E w \in Workers : listener[w] \in Subscribed /\ backlog[w] < MaxBacklog
  /\ backlog' = [w \in Workers |->
                   IF listener[w] \in Subscribed /\ backlog[w] < MaxBacklog
                   THEN backlog[w] + 1 ELSE backlog[w]]
  /\ UNCHANGED <<listener, timer, breakerVars, zombie, lockVars, historyVars>>

\* The next message: dropped while the circuit is open, else acted upon.
TakeMessage(w) ==
  /\ listener[w] = "listening"
  /\ backlog[w] > 0
  /\ backlog' = [backlog EXCEPT ![w] = @ - 1]
  /\ Goes(w, IF IsOpen(w) THEN "listening" ELSE "locking", 0)
  /\ UNCHANGED <<breakerVars, zombie, lockVars, inRow, rested>>
-----------------------------------------------------------------------------
(***************************************************************************)
(* _do_emergency_refresh and _wait_for_lock_release.                       *)
(***************************************************************************)

SetLock(w) ==
  /\ lock' = LockTTL
  /\ owner' = w

DeleteLock ==
  /\ lock' = 0
  /\ owner' = NoWorker

\* SET NX EX made the lock: Chrome starts.
LockTaken(w) ==
  /\ listener[w] = "locking"
  /\ MayLock
  /\ SetLock(w)
  /\ Goes(w, "login", LoginTimeout)
  /\ UNCHANGED <<backlog, breakerVars, zombie, historyVars>>

LockHeld(w) ==
  /\ listener[w] = "locking"
  /\ lock > 0
  /\ Goes(w, "waiting", WaitForLock)
  /\ UNCHANGED <<backlog, breakerVars, zombie, lockVars, historyVars>>

\* SET fails, or its reply is lost: the error leaves _do_emergency_refresh and
\* ends the subscription; nobody remembers a lock that was set.
LockFails(w) ==
  /\ listener[w] = "locking"
  /\ \/ "redis" \in Faults /\ UNCHANGED lockVars
     \/ "lost_reply" \in Faults /\ lock = 0 /\ SetLock(w)
  /\ Goes(w, AfterError(w), Reconnect)
  /\ backlog' = [backlog EXCEPT ![w] = 0]
  /\ UNCHANGED <<breakerVars, zombie, inRow, rested>>

\* The cookie is stored (store() never raises) and the success recorded.
LoginSucceeds(w) ==
  /\ listener[w] = "login"
  /\ Goes(w, "releasing", 0)
  /\ failures' = [failures EXCEPT ![w] = AfterSuccess(w)]
  /\ inRow' = [inRow EXCEPT ![w] = 0]
  /\ rested' = [rested EXCEPT ![w] = 0]
  /\ UNCHANGED <<backlog, paused, zombie, lockVars>>

\* record_failure.
RecordFailure(w) ==
  /\ failures' = [failures EXCEPT ![w] = IF Trips(w) THEN 0 ELSE @ + 1]
  /\ paused' = [paused EXCEPT ![w] = IF Trips(w) THEN Pause ELSE @]
  /\ inRow' = [inRow EXCEPT ![w] = IF @ = Threshold THEN 1 ELSE @ + 1]
  /\ rested' = [rested EXCEPT ![w] = 0]

\* fetch_ltsid raises: Chrome has been quit, or, when wait_for gave up on the
\* executor's thread, runs on.
LoginFails(w) ==
  /\ listener[w] = "login"
  /\ RecordFailure(w)
  /\ Goes(w, "releasing", 0)
  /\ zombie' = [zombie EXCEPT ![w] = @ \/ timer[w] = 0]
  /\ UNCHANGED <<backlog, lockVars>>

ZombieEnds(w) ==
  /\ zombie[w]
  /\ zombie' = [zombie EXCEPT ![w] = FALSE]
  /\ UNCHANGED <<taskVars, breakerVars, lockVars, historyVars>>

\* finally: DELETE, whoever's lock it is; a failure is logged.
Release(w) ==
  /\ listener[w] = "releasing"
  /\ \/ DeleteLock
     \/ "redis" \in Faults /\ UNCHANGED lockVars
  /\ Goes(w, "listening", 0)
  /\ UNCHANGED <<backlog, breakerVars, zombie, historyVars>>

\* One poll that finds no lock, or the deadline; a poll that fails counts as
\* "held" and changes nothing.
WaitOver(w) ==
  /\ listener[w] = "waiting"
  /\ lock = 0 \/ timer[w] = 0
  /\ Goes(w, AfterWait(w), 0)
  /\ UNCHANGED <<backlog, breakerVars, zombie, lockVars, historyVars>>
-----------------------------------------------------------------------------
(***************************************************************************)
(* The end of a process; time.                                             *)
(***************************************************************************)

Ends(w) ==
  /\ Goes(w, "down", 0)
  /\ backlog' = [backlog EXCEPT ![w] = 0]
  /\ zombie' = [zombie EXCEPT ![w] = FALSE]
  /\ UNCHANGED <<breakerVars, inRow, rested>>

Crash(w) ==
  /\ "crash" \in Faults
  /\ listener[w] # "down"
  /\ Ends(w)
  /\ UNCHANGED lockVars

\* task.cancel(): CancelledError runs the finally block on its way out.
Stop(w) ==
  /\ "stop" \in Faults
  /\ listener[w] # "down"
  /\ Ends(w)
  /\ IF listener[w] \in {"login", "releasing"} THEN DeleteLock ELSE UNCHANGED lockVars

\* Redis answers SET and DELETE, and wait_for fires, within the tick.
Tick ==
  /\ \A w \in Workers : /\ listener[w] \notin {"locking", "releasing"}
                        /\ listener[w] = "login" => timer[w] > 0
  /\ timer' = [w \in Workers |-> IF timer[w] > 0 THEN timer[w] - 1 ELSE 0]
  /\ paused' = [w \in Workers |-> IF paused[w] > 0 THEN paused[w] - 1 ELSE 0]
  /\ lock' = IF lock > 0 THEN lock - 1 ELSE 0
  /\ owner' = IF lock' = 0 THEN NoWorker ELSE owner
  /\ rested' = [w \in Workers |-> IF rested[w] < Pause THEN rested[w] + 1 ELSE Pause]
  /\ <<timer, paused, lock>>' # <<timer, paused, lock>>
  /\ UNCHANGED <<listener, backlog, failures, zombie, inRow>>
-----------------------------------------------------------------------------
Listen(w) ==
  \/ Subscribe(w) \/ ReconnectOver(w) \/ TakeMessage(w)
  \/ LockTaken(w) \/ LockHeld(w) \/ LoginSucceeds(w) \/ LoginFails(w)
  \/ Release(w) \/ WaitOver(w)

Misfortune(w) == Disconnect(w) \/ LockFails(w) \/ Crash(w) \/ Stop(w)

Next == \/ \E w \in Workers : Start(w) \/ Listen(w) \/ Misfortune(w) \/ ZombieEnds(w)
        \/ Published \/ Tick

Spec == Init /\ [][Next]_vars

(***************************************************************************)
(* Fairness: the event loop runs every ready listener; time passes, which  *)
(* a step that takes no tick can only put off (hence SF on Tick); and      *)
(* outages end, so that a listener which keeps subscribing succeeds.       *)
(***************************************************************************)
FairSpec == /\ Spec
            /\ SF_vars(Tick)
            /\ \A w \in Workers : WF_vars(Listen(w)) /\ SF_vars(Subscribe(w))
-----------------------------------------------------------------------------
(***************************************************************************)
(* Properties.                                                             *)
(***************************************************************************)

LoginStarts(w) == listener[w] # "login" /\ listener'[w] = "login"

\* Two emergency logins never run at once, in however many processes: lines 7-8 of
\* emergency_refresh.py.  The lock outlives every login it was taken for.
OneEmergencyLogin ==
  \A v, w \in Workers : listener[v] = "login" /\ listener[w] = "login" => v = w

\* The DELETE of the finally block, which does not ask whose the lock is, never
\* hits the lock of another worker (140-143).
DeletesOwnLock ==
  \A w \in Workers : listener[w] = "releasing" => owner = w

\* The circuit opens with the Threshold-th failure in a row, no sooner and no
\* later, and then no login of that process starts for the whole pause (line 11).
BreakerHolds ==
  [][\A w \in Workers :
       /\ paused'[w] > paused[w]
            <=> listener[w] = "login" /\ listener'[w] = "releasing" /\ inRow'[w] = Threshold
       /\ LoginStarts(w) /\ inRow[w] = Threshold => rested[w] >= Pause]_vars

\* Whatever Redis does, a listener that runs comes back to listening: lines
\* 187-188, "the service does NOT stop".
ListenerComesBack ==
  \A w \in Workers : listener[w] # "down" ~> listener[w] = "listening"
=============================================================================
