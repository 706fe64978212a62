------------------------- MODULE LtsidSessionProofs -------------------------
(***************************************************************************)
(* Proof that the proactive job keeps the LTSID key alive, for every       *)
(* choice of intervals that satisfies SessionAssumption, in particular     *)
(* check interval + login time < threshold.                                *)
(*                                                                         *)
(* WhoInv says which tasks exist in which phase of the process; AliveInv   *)
(* says, for each thing the job may be doing, how much of the key's life   *)
(* is left at least.                                                       *)
(***************************************************************************)
EXTENDS LtsidSession, TLAPS

WhoInv ==
  /\ process = "down" => missed = 1
  /\ process # "up" => \A t \in Tasks \ {"startup"} : task[t] = "idle"
  /\ process # "starting" => task["startup"] = "idle"
  /\ \A t \in Tasks : /\ task[t] = "ttl" => t = "job"
                      /\ task[t] = "report" => t \in Admins

AliveInv ==
  missed = 0 =>
    /\ process = "starting" => key = TTL /\ task["startup"] \in {"reply", "idle"}
    /\ process = "up" =>
         /\ task["job"] \in {"idle", "reply"}
              => key >= nextCheck + (RefreshBelow - CheckInterval)
         /\ task["job"] = "ttl" => key >= RefreshBelow - CheckInterval
         /\ task["job"] = "login" => key > timer["job"]
         /\ task["job"] = "set" => key > 0

IInv == TypeOK /\ WhoInv /\ AliveInv
-----------------------------------------------------------------------------
\* The assumption, number by number.
LEMMA Numbers ==
  /\ TTL \in Nat /\ RefreshBelow \in Nat /\ CheckInterval \in Nat /\ LoginTimeout \in Nat
  /\ 0 < LoginTimeout /\ LoginTimeout < CheckInterval
  /\ CheckInterval + LoginTimeout < RefreshBelow /\ RefreshBelow < TTL
  /\ "startup" \notin Admins /\ "job" \notin Admins /\ "listener" \notin Admins
BY SessionAssumption

\* Who the tasks are.
LEMMA Names ==
  /\ "startup" \in Tasks /\ "job" \in Tasks /\ "listener" \in Tasks
  /\ \A t \in Tasks : t \in Admins \/ t \in {"startup", "job", "listener"}
  /\ \A a \in Admins : a \in Tasks /\ a \notin {"startup", "job", "listener"}
BY SessionAssumption DEF Tasks

\* Every step keeps the types.
LEMMA TypeStep == TypeOK /\ [Next]_vars => TypeOK'
<1> SUFFICES ASSUME TypeOK, [Next]_vars PROVE TypeOK'
  OBVIOUS
<1> USE Numbers, Names DEF TypeOK, taskVars, NeedsRefresh, Interval,
        Goes, JobFailed
<1>1. CASE Boot
  BY <1>1 DEF Boot, BeginLogin
<1>2. CASE Serve
  BY <1>2 DEF Serve
<1>3. CASE JobFires
  BY <1>3 DEF JobFires
<1>4. CASE JobReadsTTL
  BY <1>4 DEF JobReadsTTL, BeginLogin
<1>5. CASE JobReadFails
  BY <1>5 DEF JobReadFails
<1>6. ASSUME NEW t \in Admins \cup {"listener"}, Asked(t) PROVE TypeOK'
  BY <1>6 DEF Asked, BeginLogin
<1>7. ASSUME NEW t \in Tasks, LoginSucceeds(t) PROVE TypeOK'
  BY <1>7 DEF LoginSucceeds
<1>8. ASSUME NEW t \in Tasks, LoginFails(t) PROVE TypeOK'
  BY <1>8 DEF LoginFails
<1>9. ASSUME NEW t \in Tasks, SetApplied(t) PROVE TypeOK'
  BY <1>9 DEF SetApplied
<1>10. ASSUME NEW t \in Tasks, SetReply(t) PROVE TypeOK'
  BY <1>10 DEF SetReply, Stored
<1>11. ASSUME NEW t \in Tasks, SetFails(t) PROVE TypeOK'
  BY <1>11 DEF SetFails, Stored
<1>12. ASSUME NEW a \in Admins, Report(a) PROVE TypeOK'
  BY <1>12 DEF Report
<1>13. CASE Crash
  BY <1>13 DEF Crash
<1>14. CASE Tick
  BY <1>14 DEF Tick
<1>15. CASE UNCHANGED vars
  BY <1>15 DEF vars
<1>16. QED
  BY <1>1, <1>2, <1>3, <1>4, <1>5, <1>6, <1>7, <1>8, <1>9, <1>10, <1>11, <1>12,
     <1>13, <1>14, <1>15
  DEF Next, Refresh

\* Every step keeps the phases of the process apart.
LEMMA WhoStep == TypeOK /\ WhoInv /\ [Next]_vars => WhoInv'
<1> SUFFICES ASSUME TypeOK, WhoInv, [Next]_vars PROVE WhoInv'
  OBVIOUS
<1> USE Numbers, Names DEF TypeOK, WhoInv, taskVars, NeedsRefresh, Interval,
        Goes, JobFailed
<1>1. CASE Boot
  BY <1>1 DEF Boot, BeginLogin
<1>2. CASE Serve
  BY <1>2 DEF Serve
<1>3. CASE JobFires
  BY <1>3 DEF JobFires
<1>4. CASE JobReadsTTL
  BY <1>4 DEF JobReadsTTL, BeginLogin
<1>5. CASE JobReadFails
  BY <1>5 DEF JobReadFails
<1>6. ASSUME NEW t \in Admins \cup {"listener"}, Asked(t) PROVE WhoInv'
  BY <1>6 DEF Asked, BeginLogin
<1>7. ASSUME NEW t \in Tasks, LoginSucceeds(t) PROVE WhoInv'
  BY <1>7 DEF LoginSucceeds
<1>8. ASSUME NEW t \in Tasks, LoginFails(t) PROVE WhoInv'
  BY <1>8 DEF LoginFails
<1>9. ASSUME NEW t \in Tasks, SetApplied(t) PROVE WhoInv'
  BY <1>9 DEF SetApplied
<1>10. ASSUME NEW t \in Tasks, SetReply(t) PROVE WhoInv'
  BY <1>10 DEF SetReply, Stored
<1>11. ASSUME NEW t \in Tasks, SetFails(t) PROVE WhoInv'
  BY <1>11 DEF SetFails, Stored
<1>12. ASSUME NEW a \in Admins, Report(a) PROVE WhoInv'
  BY <1>12 DEF Report
<1>13. CASE Crash
  BY <1>13 DEF Crash
<1>14. CASE Tick
  BY <1>14 DEF Tick
<1>15. CASE UNCHANGED vars
  BY <1>15 DEF vars
<1>16. QED
  BY <1>1, <1>2, <1>3, <1>4, <1>5, <1>6, <1>7, <1>8, <1>9, <1>10, <1>11, <1>12,
     <1>13, <1>14, <1>15
  DEF Next, Refresh

\* Every step keeps enough of the life of the key.
LEMMA AliveStep == TypeOK /\ WhoInv /\ AliveInv /\ [Next]_vars => AliveInv'
<1> SUFFICES ASSUME TypeOK, WhoInv, AliveInv, [Next]_vars PROVE AliveInv'
  OBVIOUS
<1> USE Numbers, Names DEF TypeOK, WhoInv, AliveInv, taskVars, NeedsRefresh, Interval,
        Goes, JobFailed
<1>1. CASE Boot
  BY <1>1 DEF Boot, BeginLogin
<1>2. CASE Serve
  BY <1>2 DEF Serve
<1>3. CASE JobFires
  BY <1>3 DEF JobFires
<1>4. CASE JobReadsTTL
  BY <1>4 DEF JobReadsTTL, BeginLogin
<1>5. CASE JobReadFails
  BY <1>5 DEF JobReadFails
<1>6. ASSUME NEW t \in Admins \cup {"listener"}, Asked(t) PROVE AliveInv'
  BY <1>6 DEF Asked, BeginLogin
<1>7. ASSUME NEW t \in Tasks, LoginSucceeds(t) PROVE AliveInv'
  BY <1>7 DEF LoginSucceeds
<1>8. ASSUME NEW t \in Tasks, LoginFails(t) PROVE AliveInv'
  BY <1>8 DEF LoginFails
<1>9. ASSUME NEW t \in Tasks, SetApplied(t) PROVE AliveInv'
  BY <1>9 DEF SetApplied
<1>10. ASSUME NEW t \in Tasks, SetReply(t) PROVE AliveInv'
  BY <1>10 DEF SetReply, Stored
<1>11. ASSUME NEW t \in Tasks, SetFails(t) PROVE AliveInv'
  BY <1>11 DEF SetFails, Stored
<1>12. ASSUME NEW a \in Admins, Report(a) PROVE AliveInv'
  BY <1>12 DEF Report
<1>13. CASE Crash
  BY <1>13 DEF Crash
<1>14. CASE Tick
  BY <1>14 DEF Tick
<1>15. CASE UNCHANGED vars
  BY <1>15 DEF vars
<1>16. QED
  BY <1>1, <1>2, <1>3, <1>4, <1>5, <1>6, <1>7, <1>8, <1>9, <1>10, <1>11, <1>12,
     <1>13, <1>14, <1>15
  DEF Next, Refresh

-----------------------------------------------------------------------------
\* The inductive invariant holds in every reachable state.
THEOREM Invariance == Spec => []IInv
<1>1. Init => IInv
  BY Numbers, Names DEF Init, IInv, TypeOK, WhoInv, AliveInv
<1>2. IInv /\ [Next]_vars => IInv'
  BY TypeStep, WhoStep, AliveStep DEF IInv
<1>3. QED
  BY <1>1, <1>2, PTL DEF Spec

\* Type correctness of the refresh of the LTSID key.
THEOREM TypeCorrect == Spec => []TypeOK
<1>1. IInv => TypeOK
  BY DEF IInv
<1>2. QED
  BY <1>1, Invariance, PTL

\* The key does not expire while the cycles of the proactive job succeed, for every
\* interval, threshold and login time with interval + login time < threshold.
THEOREM JobKeepsKeyAlive == Spec => []KeyKeptAlive
<1>1. IInv => KeyKeptAlive
  <2> SUFFICES ASSUME IInv, missed = 0 PROVE key > 0
    BY DEF KeyKeptAlive
  <2> USE Numbers, Names DEF IInv, TypeOK, WhoInv, AliveInv
  <2>1. CASE process = "starting"
    BY <2>1
  <2>2. CASE process = "up"
    BY <2>2
  <2>3. QED
    BY <2>1, <2>2
<1>2. QED
  BY <1>1, Invariance, PTL
=============================================================================
