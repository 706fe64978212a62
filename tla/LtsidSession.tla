---------------------------- MODULE LtsidSession ----------------------------
(***************************************************************************)
(* How auth-worker keeps the Redis key aetherion:auth:ltsid alive.  Four   *)
(* kinds of task log in with Chrome and store the cookie, each for itself: *)
(* the startup of the process (main.py), the proactive job of the          *)
(* scheduler, which looks at the key's TTL at fixed intervals              *)
(* (refresh_scheduler.py), the listener of EmergencyRefresh, and calls of  *)
(* POST /admin/ltsid/refresh (admin.py).  Only the listener takes the      *)
(* refresh lock, so nothing here waits for another task.                   *)
(*                                                                         *)
(* Which cookie the key holds matters to SessionRecovery; here only its    *)
(* time to live does.  A tick divides all the intervals.                   *)
(***************************************************************************)
EXTENDS Integers

CONSTANTS Admins,         \* calls of POST /admin/ltsid/refresh
          TTL,            \* ltsid_ttl_hours
          RefreshBelow,   \* ltsid_refresh_threshold_seconds
          CheckInterval,  \* ltsid_proactive_check_interval_seconds
          LoginTimeout,   \* chrome_timeout_seconds + 15
          Faults          \* which misfortunes this instance allows

Tasks == {"startup", "job", "listener"} \cup Admins

ASSUME SessionAssumption ==
  /\ {TTL, RefreshBelow, CheckInterval, LoginTimeout} \subseteq Nat \ {0}
  /\ CheckInterval + LoginTimeout < RefreshBelow
  /\ RefreshBelow < TTL
  /\ LoginTimeout < CheckInterval
  /\ Admins \cap {"startup", "job", "listener"} = {}
  /\ Faults \subseteq {"login", "redis", "lost_reply", "crash"}
-----------------------------------------------------------------------------
VARIABLES
  process,   \* "down", inside _fetch_initial_ltsid, or serving
  task,      \* what each task awaits
  timer,     \* ticks until the login of a task times out
  nextCheck, \* ticks until the scheduler fires the job
  key,       \* ticks left to the Redis key, 0 when there is none
  mode,      \* LtsidStore._mode
  answer,    \* the HTTP status each admin call was answered with
  missed     \* history: 1 if the job has failed since the key was last written

taskVars == <<task, timer>>
vars == <<process, task, timer, nextCheck, key, mode, answer, missed>>

TypeOK ==
  /\ process \in {"down", "starting", "up"}
  /\ task \in [Tasks -> {"idle", "ttl", "login", "set", "reply", "report"}]
  /\ timer \in [Tasks -> 0..LoginTimeout]
  /\ nextCheck \in 0..CheckInterval
  /\ key \in 0..TTL
  /\ mode \in {"missing", "valid", "in_memory_only"}
  /\ answer \in [Admins -> {"none", "200", "503", "500", "dropped"}]
  /\ missed \in {0, 1}

Init ==
  /\ process = "down"
  /\ task = [t \in Tasks |-> "idle"]
  /\ timer = [t \in Tasks |-> 0]
  /\ nextCheck = CheckInterval
  /\ key = 0
  /\ mode = "missing"
  /\ answer = [a \in Admins |-> "none"]
  /\ missed = 1
-----------------------------------------------------------------------------
\* Mutants: a threshold below the interval; an absent key taken for a fresh one; a
\* longer interval.
Mutant_NeedsRefresh == key < CheckInterval
Mutant_SkipsAbsent == 0 < key /\ key < RefreshBelow
Mutant_Interval == CheckInterval + 1

\* not (ttl < threshold) skips; an absent key has TTL -2.
NeedsRefresh == key < RefreshBelow

\* IntervalTrigger.
Interval == CheckInterval

Goes(t, where) == task' = [task EXCEPT ![t] = where]

\* fetch_ltsid: Chrome in an executor thread, at most LoginTimeout.
BeginLogin(t) ==
  /\ task' = [task EXCEPT ![t] = "login"]
  /\ timer' = [timer EXCEPT ![t] = LoginTimeout]

\* The job has done nothing about a key that may need it.
JobFailed(t) == missed' = IF t \in {"job", "startup"} THEN 1 ELSE missed
-----------------------------------------------------------------------------
(***************************************************************************)
(* Who logs in, and when.                                                  *)
(***************************************************************************)

\* lifespan: the login comes before scheduler and listener exist.
Boot ==
  /\ process = "down"
  /\ process' = "starting"
  /\ BeginLogin("startup")
  /\ UNCHANGED <<nextCheck, key, mode, answer, missed>>

\* ... which are started whether it succeeded or not.
Serve ==
  /\ process = "starting"
  /\ task["startup"] = "idle"
  /\ process' = "up"
  /\ nextCheck' = Interval
  /\ UNCHANGED <<taskVars, key, mode, answer, missed>>

\* The scheduler fires; a job still running is not run twice (max_instances).
JobFires ==
  /\ process = "up"
  /\ nextCheck = 0
  /\ nextCheck' = Interval
  /\ \/ task["job"] = "idle" /\ Goes("job", "ttl") /\ UNCHANGED missed
     \/ task["job"] # "idle" /\ JobFailed("job") /\ UNCHANGED task
  /\ UNCHANGED <<process, timer, key, mode, answer>>

JobReadsTTL ==
  /\ task["job"] = "ttl"
  /\ \/ NeedsRefresh /\ BeginLogin("job")
     \/ ~NeedsRefresh /\ Goes("job", "idle") /\ UNCHANGED timer
  /\ UNCHANGED <<process, nextCheck, key, mode, answer, missed>>

\* Redis error: the whole cycle is skipped.
JobReadFails ==
  /\ "redis" \in Faults
  /\ task["job"] = "ttl"
  /\ Goes("job", "idle")
  /\ JobFailed("job")
  /\ UNCHANGED <<process, timer, nextCheck, key, mode, answer>>

\* A refresh request or an admin call, at any time.
Asked(t) ==
  /\ process = "up"
  /\ task[t] = "idle"
  /\ t \in Admins => answer[t] = "none"
  /\ BeginLogin(t)
  /\ UNCHANGED <<process, nextCheck, key, mode, answer, missed>>
-----------------------------------------------------------------------------
(***************************************************************************)
(* fetch_ltsid and LtsidStore.store().                                     *)
(***************************************************************************)

LoginSucceeds(t) ==
  /\ task[t] = "login"
  /\ Goes(t, "set")
  /\ UNCHANGED <<process, timer, nextCheck, key, mode, answer, missed>>

\* Chrome fails or times out: nothing is stored.  Only startup marks the cookie
\* missing, only an admin call tells somebody.
LoginFails(t) ==
  /\ "login" \in Faults
  /\ task[t] = "login"
  /\ Goes(t, "idle")
  /\ JobFailed(t)
  /\ mode' = IF t = "startup" THEN "missing" ELSE mode
  /\ answer' = [a \in Admins |-> IF a = t THEN "503" ELSE answer[a]]
  /\ UNCHANGED <<process, timer, nextCheck, key>>

\* The server executes SET.
SetApplied(t) ==
  /\ task[t] = "set"
  /\ Goes(t, "reply")
  /\ key' = TTL
  /\ missed' = 0
  /\ UNCHANGED <<process, timer, nextCheck, mode, answer>>

\* store() returns: the caller goes on, an admin call to read the TTL.
Stored(t, m) ==
  /\ Goes(t, IF t \in Admins THEN "report" ELSE "idle")
  /\ mode' = m
  /\ UNCHANGED <<process, timer, nextCheck, key, answer>>

SetReply(t) ==
  /\ task[t] = "reply"
  /\ Stored(t, "valid")
  /\ UNCHANGED missed

\* SET refused, or applied and the reply lost: the cookie stays in memory, and
\* nothing writes it to Redis later.
SetFails(t) ==
  /\ \/ "redis" \in Faults /\ task[t] = "set" /\ JobFailed(t)
     \/ "lost_reply" \in Faults /\ task[t] = "reply" /\ UNCHANGED missed
  /\ Stored(t, "in_memory_only")

\* The admin call reads the TTL and answers; a Redis error there is not caught.
Report(a) ==
  /\ task[a] = "report"
  /\ Goes(a, "idle")
  /\ \/ answer' = [answer EXCEPT ![a] = "200"]
     \/ "redis" \in Faults /\ answer' = [answer EXCEPT ![a] = "500"]
  /\ UNCHANGED <<process, timer, nextCheck, key, mode, missed>>
-----------------------------------------------------------------------------
Crash ==
  /\ "crash" \in Faults
  /\ process # "down"
  /\ process' = "down"
  /\ task' = [t \in Tasks |-> "idle"]
  /\ timer' = [t \in Tasks |-> 0]
  /\ answer' = [a \in Admins |-> IF task[a] = "idle" THEN answer[a] ELSE "dropped"]
  /\ mode' = "missing"
  /\ missed' = 1
  /\ UNCHANGED <<nextCheck, key>>

\* A login takes at most LoginTimeout; Redis and the scheduler are prompt.
Tick ==
  /\ \A t \in Tasks : /\ task[t] \in {"idle", "login"}
                      /\ task[t] = "login" => timer[t] > 0
  /\ process = "starting" => task["startup"] # "idle"
  /\ process = "up" => nextCheck > 0
  /\ timer' = [t \in Tasks |-> IF task[t] = "login" THEN timer[t] - 1 ELSE timer[t]]
  /\ nextCheck' = IF process = "up" THEN nextCheck - 1 ELSE nextCheck
  /\ key' = IF key > 0 THEN key - 1 ELSE 0
  /\ UNCHANGED <<process, task, mode, answer, missed>>

Refresh(t) == LoginSucceeds(t) \/ LoginFails(t) \/ SetApplied(t) \/ SetReply(t)
              \/ SetFails(t)

Next == \/ Boot \/ Serve \/ JobFires \/ JobReadsTTL \/ JobReadFails
        \/ \E t \in Admins \cup {"listener"} : Asked(t)
        \/ \E t \in Tasks : Refresh(t)
        \/ \E a \in Admins : Report(a)
        \/ Crash \/ Tick

Spec == Init /\ [][Next]_vars

(***************************************************************************)
(* Fairness: the container is started, the event loop and time go on, and  *)
(* neither every login nor every SET of the job fails.                     *)
(***************************************************************************)
FairSpec ==
  /\ Spec
  /\ WF_vars(Boot) /\ WF_vars(Serve) /\ WF_vars(JobFires) /\ SF_vars(Tick)
  /\ SF_vars(JobReadsTTL) /\ SF_vars(LoginSucceeds("job")) /\ SF_vars(SetApplied("job"))
  /\ \A t \in Tasks : WF_vars(Refresh(t))
  /\ \A a \in Admins : WF_vars(Report(a))
-----------------------------------------------------------------------------
(***************************************************************************)
(* Properties.                                                             *)
(***************************************************************************)

\* The proactive job never lets the key expire: as long as none of its cycles has
\* failed or been skipped since the key was last written, by whomever, there is a
\* key (lines 51-77 of refresh_scheduler.py with the intervals of config.py).
KeyKeptAlive == missed = 0 => key > 0

\* A key that is gone comes back without anybody asking (refresh_scheduler.py:58-60),
\* unless the process is restarted again and again.
KeyComesBack == <>[](process = "up") => (key = 0 ~> key > 0)
=============================================================================
