------------------------ MODULE SessionRecoveryProofs ------------------------
(***************************************************************************)
(* Proofs about SessionRecovery for every set of requests, every interval, *)
(* every number of attempts and every set of faults.                       *)
(***************************************************************************)
EXTENDS SessionRecovery, FiniteSetTheorems, TLAPS

\* One request runs while an execution awaits something, and none otherwise; an
\* execution sleeps before another attempt only if it has one left, and goes on
\* polling only if it has time left; there is a cookie to send.
PhaseInv ==
  /\ phase = "idle" => \A r \in Requests : ran[r] # "running"
  /\ \A r, q \in Requests : ran[r] = "running" /\ ran[q] = "running" => r = q
  /\ phase = "backoff" => attempt < MaxRetries
  /\ phase = "poll" => elapsed < MaxWait
  /\ phase # "idle" => token # NoToken

\* What the current attempt may have cost so far, on top of the attempts before it.
LoadInv ==
  /\ phase \in {"read_old", "publish", "poll", "delay"} => ~resending
  /\ sends <= 2 * (attempt + 1)
  /\ phase # "idle" => sends <= 2 * attempt + IF resending THEN 2 ELSE 1
  /\ asks <= attempt + 1
  /\ phase \in {"send", "read_old", "publish"} /\ ~resending => asks <= attempt

\* The sleep an execution is in, with the time already passed, covers Lardi's pause.
PauseInv ==
  /\ phase \in {"backoff", "poll"} => left + quiet >= MinInterval
  /\ phase = "delay" => quiet >= MinInterval

\* A cookie that was ever in Redis, or is built into a closure, is not one that
\* auth-worker has still to write.
StoredInv ==
  /\ ltsid <= logins /\ ltsid \notin unstored
  /\ \A r \in Requests :
       /\ seen[r] <= logins /\ seen[r] \notin unstored
       /\ call[r] # "new" => seen[r] # NoToken
       /\ ran[r] # "no" => call[r] # "new"

\* The rejected cookie of an attempt is the one its closure was built over; what
\* Redis holds, if the comparison with old lets it through, is another one.
CookieInv ==
  \A r \in Requests : ran[r] = "running" =>
    /\ phase = "send" /\ ~resending => token = seen[r] /\ rejected = {}
    /\ \/ phase \in {"read_old", "publish", "poll", "delay"}
       \/ phase = "send" /\ resending
       => rejected = {seen[r]}
    /\ phase \in {"publish", "poll"} /\ old # NoToken => old = seen[r] \/ ltsid # seen[r]
    /\ \/ phase = "delay"
       \/ phase = "send" /\ resending
       => (old # NoToken => token # seen[r])

IInv == TypeOK /\ PhaseInv /\ LoadInv /\ PauseInv /\ StoredInv /\ CookieInv
-----------------------------------------------------------------------------
(***************************************************************************)
(* The backoff.                                                            *)
(***************************************************************************)

\* 2 ** attempt is a positive number: the number of subsets of 1..a.
LEMMA PowerOfTwo == ASSUME NEW a \in Nat PROVE 2^a \in Nat /\ 2^a >= 1
<1>1. IsFiniteSet(1..a) /\ Cardinality(1..a) = a
  BY FS_Interval
<1>2. IsFiniteSet(SUBSET (1..a)) /\ Cardinality(SUBSET (1..a)) = 2^a
  BY <1>1, FS_SUBSET
<1>3. 2^a \in Nat
  BY <1>2, FS_CardinalityType
<1>4. 2^a # 0
  BY <1>2, FS_EmptySet
<1>5. QED
  BY <1>3, <1>4

\* Every backoff is at least BACKOFF_BASE_SECONDS (retry_handler.py:193).
LEMMA PauseIsEnough ==
  ASSUME NEW a \in Nat PROVE Pause(a) \in Nat /\ Pause(a) >= MinInterval
<1>1. \A b, p \in Nat : p >= 1 => b * p >= b
  OBVIOUS
<1>2. QED
  BY <1>1, PowerOfTwo, RecoveryAssumption DEF Pause
-----------------------------------------------------------------------------
LEMMA Initially == Init => IInv
<1> SUFFICES ASSUME Init PROVE IInv
  OBVIOUS
<1> USE RecoveryAssumption DEF Init, CInit, NoToken, Tokens
<1>1. resending \in BOOLEAN
  OBVIOUS
<1>2. TypeOK
  BY <1>1 DEF TypeOK, CTypeOK
<1>3. PhaseInv /\ LoadInv /\ PauseInv
  BY DEF PhaseInv, LoadInv, PauseInv
<1>4. StoredInv /\ CookieInv
  BY DEF StoredInv, CookieInv
<1>5. QED
  BY <1>2, <1>3, <1>4 DEF IInv

LEMMA TypeStep == TypeOK /\ PhaseInv /\ StoredInv /\ [Next]_vars => TypeOK'
<1> SUFFICES ASSUME TypeOK, PhaseInv, StoredInv, [Next]_vars PROVE TypeOK'
  OBVIOUS
<1> USE RecoveryAssumption DEF TypeOK, CTypeOK, PhaseInv, StoredInv, Tokens, NoToken,
      Failures, requestVars, waitVars, redisVars, historyVars
<1>1. ASSUME NEW r \in Requests, Refuse(r) PROVE TypeOK'
  BY <1>1 DEF Refuse
<1>2. ASSUME NEW r \in Requests, Accept(r) PROVE TypeOK'
  BY <1>2 DEF Accept, Submit
<1>3. ASSUME NEW r \in Requests, CallEnds(r) PROVE TypeOK'
  BY <1>3 DEF CallEnds, Answer, GiveUp
<1>4. ASSUME NEW r \in Requests, Execute(r) PROVE TypeOK'
  <2>1. resending' \in BOOLEAN
    BY <1>4 DEF Execute, Send
  <2>2. QED
    BY <1>4, <2>1 DEF Execute, Send, Begin
<1>5. ASSUME NEW r \in Requests, Conclude(r) PROVE TypeOK'
  BY <1>5 DEF Conclude, EndAs, End
<1>6. ASSUME NEW r \in Requests, Unauthorized(r) PROVE TypeOK'
  BY <1>6 DEF Unauthorized
<1>7. ASSUME NEW r \in Requests, StillUnauthorized(r) PROVE TypeOK'
  BY <1>7 DEF StillUnauthorized, EndAs, End
<1>8. ASSUME NEW r \in Requests, Throttled(r) PROVE TypeOK'
  <2>1. left' \in Nat
    BY <1>8, PauseIsEnough DEF Throttled, EndAs, End
  <2>2. CTypeOK' /\ outcome' \in [Requests -> {"none", "ok", "no_ltsid"} \cup Failures]
    BY <1>8 DEF Throttled, EndAs, End
  <2>3. QED
    BY <1>8, <2>1, <2>2 DEF Throttled, EndAs, End
<1>9. ASSUME NEW r \in Requests, NextAttempt(r) PROVE TypeOK'
  <2>1. resending' \in BOOLEAN
    BY <1>9 DEF NextAttempt, Send
  <2>2. attempt' \in 0..MaxRetries
    BY <1>9 DEF NextAttempt
  <2>3. QED
    BY <1>9, <2>1, <2>2 DEF NextAttempt, Send
<1>10. ASSUME NEW r \in Requests, ReadOld(r) PROVE TypeOK'
  BY <1>10 DEF ReadOld
<1>11. ASSUME NEW r \in Requests, Publish(r) PROVE TypeOK'
  BY <1>11 DEF Publish
<1>12. ASSUME NEW r \in Requests, PollFindsNew(r) PROVE TypeOK'
  BY <1>12 DEF PollFindsNew, Waited, IsNew
<1>13. ASSUME NEW r \in Requests, PollFindsNothing(r) PROVE TypeOK'
  BY <1>13 DEF PollFindsNothing, Waited, EndAs, End
<1>14. ASSUME NEW r \in Requests, Resend(r) PROVE TypeOK'
  BY <1>14 DEF Resend, Send
<1>15. CASE Tick
  BY <1>15 DEF Tick
<1>16. CASE Crash
  BY <1>16 DEF Crash, Die
<1>17. CASE Login
  BY <1>17 DEF Login
<1>18. CASE KeyExpires
  BY <1>18 DEF KeyExpires
<1>19. ASSUME NEW t \in unstored, Store(t) PROVE TypeOK'
  BY <1>19 DEF Store
<1>20. CASE UNCHANGED vars
  BY <1>20 DEF vars
<1>21. QED BY <1>1, <1>2, <1>3, <1>4, <1>5, <1>6, <1>7, <1>8, <1>9, <1>10, <1>11, <1>12,
      <1>13, <1>14, <1>15, <1>16, <1>17, <1>18, <1>19, <1>20 DEF Next, Executing

LEMMA PhaseStep == TypeOK /\ StoredInv /\ PhaseInv /\ [Next]_vars => PhaseInv'
<1> SUFFICES ASSUME TypeOK, StoredInv, PhaseInv, [Next]_vars PROVE PhaseInv'
  OBVIOUS
<1> USE RecoveryAssumption DEF TypeOK, CTypeOK, PhaseInv, StoredInv, Tokens, NoToken,
      requestVars, waitVars, redisVars, historyVars
<1>1. ASSUME NEW r \in Requests, Refuse(r) PROVE PhaseInv'
  BY <1>1 DEF Refuse
<1>2. ASSUME NEW r \in Requests, Accept(r) PROVE PhaseInv'
  BY <1>2 DEF Accept, Submit
<1>3. ASSUME NEW r \in Requests, CallEnds(r) PROVE PhaseInv'
  BY <1>3 DEF CallEnds, Answer, GiveUp
<1>4. ASSUME NEW r \in Requests, Execute(r) PROVE PhaseInv'
  BY <1>4 DEF Execute, Send, Begin
<1>5. ASSUME NEW r \in Requests, Conclude(r) PROVE PhaseInv'
  BY <1>5 DEF Conclude, EndAs, End
<1>6. ASSUME NEW r \in Requests, Unauthorized(r) PROVE PhaseInv'
  BY <1>6 DEF Unauthorized
<1>7. ASSUME NEW r \in Requests, StillUnauthorized(r) PROVE PhaseInv'
  BY <1>7 DEF StillUnauthorized, EndAs, End
<1>8. ASSUME NEW r \in Requests, Throttled(r) PROVE PhaseInv'
  BY <1>8 DEF Throttled, EndAs, End, MayRetry
<1>9. ASSUME NEW r \in Requests, NextAttempt(r) PROVE PhaseInv'
  BY <1>9 DEF NextAttempt, Send
<1>10. ASSUME NEW r \in Requests, ReadOld(r) PROVE PhaseInv'
  BY <1>10 DEF ReadOld
<1>11. ASSUME NEW r \in Requests, Publish(r) PROVE PhaseInv'
  BY <1>11 DEF Publish
<1>12. ASSUME NEW r \in Requests, PollFindsNew(r) PROVE PhaseInv'
  BY <1>12 DEF PollFindsNew, Waited, IsNew
<1>13. ASSUME NEW r \in Requests, PollFindsNothing(r) PROVE PhaseInv'
  BY <1>13 DEF PollFindsNothing, Waited, EndAs, End
<1>14. ASSUME NEW r \in Requests, Resend(r) PROVE PhaseInv'
  BY <1>14 DEF Resend, Send
<1>15. CASE Tick
  BY <1>15 DEF Tick
<1>16. CASE Crash
  BY <1>16 DEF Crash, Die
<1>17. CASE Login
  BY <1>17 DEF Login
<1>18. CASE KeyExpires
  BY <1>18 DEF KeyExpires
<1>19. ASSUME NEW t \in unstored, Store(t) PROVE PhaseInv'
  BY <1>19 DEF Store
<1>20. CASE UNCHANGED vars
  BY <1>20 DEF vars
<1>21. QED BY <1>1, <1>2, <1>3, <1>4, <1>5, <1>6, <1>7, <1>8, <1>9, <1>10, <1>11, <1>12,
      <1>13, <1>14, <1>15, <1>16, <1>17, <1>18, <1>19, <1>20 DEF Next, Executing

LEMMA LoadStep == TypeOK /\ LoadInv /\ [Next]_vars => LoadInv'
<1> SUFFICES ASSUME TypeOK, LoadInv, [Next]_vars PROVE LoadInv'
  OBVIOUS
<1> USE RecoveryAssumption DEF TypeOK, LoadInv, requestVars, waitVars, redisVars,
      historyVars
<1>1. ASSUME NEW r \in Requests, Refuse(r) PROVE LoadInv'
  BY <1>1 DEF Refuse
<1>2. ASSUME NEW r \in Requests, Accept(r) PROVE LoadInv'
  BY <1>2 DEF Accept, Submit
<1>3. ASSUME NEW r \in Requests, CallEnds(r) PROVE LoadInv'
  BY <1>3 DEF CallEnds, Answer, GiveUp
<1>4. ASSUME NEW r \in Requests, Execute(r) PROVE LoadInv'
  BY <1>4 DEF Execute, Send, Begin
<1>5. ASSUME NEW r \in Requests, Conclude(r) PROVE LoadInv'
  BY <1>5 DEF Conclude, EndAs, End
<1>6. ASSUME NEW r \in Requests, Unauthorized(r) PROVE LoadInv'
  BY <1>6 DEF Unauthorized
<1>7. ASSUME NEW r \in Requests, StillUnauthorized(r) PROVE LoadInv'
  BY <1>7 DEF StillUnauthorized, EndAs, End
<1>8. ASSUME NEW r \in Requests, Throttled(r) PROVE LoadInv'
  BY <1>8 DEF Throttled, EndAs, End, MayRetry
<1>9. ASSUME NEW r \in Requests, NextAttempt(r) PROVE LoadInv'
  BY <1>9 DEF NextAttempt, Send
<1>10. ASSUME NEW r \in Requests, ReadOld(r) PROVE LoadInv'
  BY <1>10 DEF ReadOld
<1>11. ASSUME NEW r \in Requests, Publish(r) PROVE LoadInv'
  BY <1>11 DEF Publish
<1>12. ASSUME NEW r \in Requests, PollFindsNew(r) PROVE LoadInv'
  BY <1>12 DEF PollFindsNew, Waited, IsNew
<1>13. ASSUME NEW r \in Requests, PollFindsNothing(r) PROVE LoadInv'
  BY <1>13 DEF PollFindsNothing, Waited, EndAs, End
<1>14. ASSUME NEW r \in Requests, Resend(r) PROVE LoadInv'
  <2>1. resending' /\ ~resending
    BY <1>14 DEF Resend, Send
  <2>2. phase' = "send" /\ sends' = sends + 1 /\ asks' = asks /\ attempt' = attempt
    BY <1>14 DEF Resend, Send
  <2>3. asks <= attempt + 1 /\ sends <= 2 * attempt + 1
    BY <1>14, <2>1 DEF Resend
  <2>4. QED
    BY <2>1, <2>2, <2>3
<1>15. CASE Tick
  BY <1>15 DEF Tick
<1>16. CASE Crash
  BY <1>16 DEF Crash, Die
<1>17. CASE Login
  BY <1>17 DEF Login
<1>18. CASE KeyExpires
  BY <1>18 DEF KeyExpires
<1>19. ASSUME NEW t \in unstored, Store(t) PROVE LoadInv'
  BY <1>19 DEF Store
<1>20. CASE UNCHANGED vars
  BY <1>20 DEF vars
<1>21. QED BY <1>1, <1>2, <1>3, <1>4, <1>5, <1>6, <1>7, <1>8, <1>9, <1>10, <1>11, <1>12,
      <1>13, <1>14, <1>15, <1>16, <1>17, <1>18, <1>19, <1>20 DEF Next, Executing

LEMMA PauseStep == TypeOK /\ PauseInv /\ [Next]_vars => PauseInv'
<1> SUFFICES ASSUME TypeOK, PauseInv, [Next]_vars PROVE PauseInv'
  OBVIOUS
<1> USE RecoveryAssumption DEF TypeOK, PauseInv, requestVars, waitVars, redisVars,
      historyVars
<1>1. ASSUME NEW r \in Requests, Refuse(r) PROVE PauseInv'
  BY <1>1 DEF Refuse
<1>2. ASSUME NEW r \in Requests, Accept(r) PROVE PauseInv'
  BY <1>2 DEF Accept, Submit
<1>3. ASSUME NEW r \in Requests, CallEnds(r) PROVE PauseInv'
  BY <1>3 DEF CallEnds, Answer, GiveUp
<1>4. ASSUME NEW r \in Requests, Execute(r) PROVE PauseInv'
  BY <1>4 DEF Execute, Send, Begin
<1>5. ASSUME NEW r \in Requests, Conclude(r) PROVE PauseInv'
  BY <1>5 DEF Conclude, EndAs, End
<1>6. ASSUME NEW r \in Requests, Unauthorized(r) PROVE PauseInv'
  BY <1>6 DEF Unauthorized
<1>7. ASSUME NEW r \in Requests, StillUnauthorized(r) PROVE PauseInv'
  BY <1>7 DEF StillUnauthorized, EndAs, End
<1>8. ASSUME NEW r \in Requests, Throttled(r) PROVE PauseInv'
  BY <1>8, PauseIsEnough DEF Throttled, EndAs, End, MayRetry
<1>9. ASSUME NEW r \in Requests, NextAttempt(r) PROVE PauseInv'
  BY <1>9 DEF NextAttempt, Send
<1>10. ASSUME NEW r \in Requests, ReadOld(r) PROVE PauseInv'
  BY <1>10 DEF ReadOld
<1>11. ASSUME NEW r \in Requests, Publish(r) PROVE PauseInv'
  BY <1>11 DEF Publish
<1>12. ASSUME NEW r \in Requests, PollFindsNew(r) PROVE PauseInv'
  BY <1>12 DEF PollFindsNew, Waited, IsNew
<1>13. ASSUME NEW r \in Requests, PollFindsNothing(r) PROVE PauseInv'
  BY <1>13 DEF PollFindsNothing, Waited, EndAs, End
<1>14. ASSUME NEW r \in Requests, Resend(r) PROVE PauseInv'
  BY <1>14 DEF Resend, Send
<1>15. CASE Tick
  BY <1>15 DEF Tick
<1>16. CASE Crash
  BY <1>16 DEF Crash, Die
<1>17. CASE Login
  BY <1>17 DEF Login
<1>18. CASE KeyExpires
  BY <1>18 DEF KeyExpires
<1>19. ASSUME NEW t \in unstored, Store(t) PROVE PauseInv'
  BY <1>19 DEF Store
<1>20. CASE UNCHANGED vars
  BY <1>20 DEF vars
<1>21. QED BY <1>1, <1>2, <1>3, <1>4, <1>5, <1>6, <1>7, <1>8, <1>9, <1>10, <1>11, <1>12,
      <1>13, <1>14, <1>15, <1>16, <1>17, <1>18, <1>19, <1>20 DEF Next, Executing

LEMMA StoredStep == TypeOK /\ StoredInv /\ [Next]_vars => StoredInv'
<1> SUFFICES ASSUME TypeOK, StoredInv, [Next]_vars PROVE StoredInv'
  OBVIOUS
<1> USE RecoveryAssumption DEF TypeOK, CTypeOK, StoredInv, Tokens, NoToken, requestVars,
      waitVars, redisVars, historyVars
<1>1. ASSUME NEW r \in Requests, Refuse(r) PROVE StoredInv'
  BY <1>1 DEF Refuse
<1>2. ASSUME NEW r \in Requests, Accept(r) PROVE StoredInv'
  BY <1>2 DEF Accept, Submit
<1>3. ASSUME NEW r \in Requests, CallEnds(r) PROVE StoredInv'
  BY <1>3 DEF CallEnds, Answer, GiveUp
<1>4. ASSUME NEW r \in Requests, Execute(r) PROVE StoredInv'
  BY <1>4 DEF Execute, Send, Begin
<1>5. ASSUME NEW r \in Requests, Conclude(r) PROVE StoredInv'
  BY <1>5 DEF Conclude, EndAs, End
<1>6. ASSUME NEW r \in Requests, Unauthorized(r) PROVE StoredInv'
  BY <1>6 DEF Unauthorized
<1>7. ASSUME NEW r \in Requests, StillUnauthorized(r) PROVE StoredInv'
  BY <1>7 DEF StillUnauthorized, EndAs, End
<1>8. ASSUME NEW r \in Requests, Throttled(r) PROVE StoredInv'
  BY <1>8 DEF Throttled, EndAs, End, MayRetry
<1>9. ASSUME NEW r \in Requests, NextAttempt(r) PROVE StoredInv'
  BY <1>9 DEF NextAttempt, Send
<1>10. ASSUME NEW r \in Requests, ReadOld(r) PROVE StoredInv'
  BY <1>10 DEF ReadOld
<1>11. ASSUME NEW r \in Requests, Publish(r) PROVE StoredInv'
  BY <1>11 DEF Publish
<1>12. ASSUME NEW r \in Requests, PollFindsNew(r) PROVE StoredInv'
  BY <1>12 DEF PollFindsNew, Waited, IsNew
<1>13. ASSUME NEW r \in Requests, PollFindsNothing(r) PROVE StoredInv'
  BY <1>13 DEF PollFindsNothing, Waited, EndAs, End
<1>14. ASSUME NEW r \in Requests, Resend(r) PROVE StoredInv'
  BY <1>14 DEF Resend, Send
<1>15. CASE Tick
  BY <1>15 DEF Tick
<1>16. CASE Crash
  BY <1>16 DEF Crash, Die
<1>17. CASE Login
  BY <1>17 DEF Login
<1>18. CASE KeyExpires
  BY <1>18 DEF KeyExpires
<1>19. ASSUME NEW t \in unstored, Store(t) PROVE StoredInv'
  BY <1>19 DEF Store
<1>20. CASE UNCHANGED vars
  BY <1>20 DEF vars
<1>21. QED BY <1>1, <1>2, <1>3, <1>4, <1>5, <1>6, <1>7, <1>8, <1>9, <1>10, <1>11, <1>12,
      <1>13, <1>14, <1>15, <1>16, <1>17, <1>18, <1>19, <1>20 DEF Next, Executing

LEMMA CookieStep == TypeOK /\ PhaseInv /\ LoadInv /\ StoredInv /\ CookieInv /\
  [Next]_vars => CookieInv'
<1> SUFFICES ASSUME TypeOK, PhaseInv, LoadInv, StoredInv, CookieInv, [Next]_vars PROVE
      CookieInv'
  OBVIOUS
<1> USE RecoveryAssumption DEF TypeOK, CTypeOK, PhaseInv, StoredInv, CookieInv, Tokens,
      NoToken, requestVars, waitVars, redisVars, historyVars
<1>1. ASSUME NEW r \in Requests, Refuse(r) PROVE CookieInv'
  BY <1>1 DEF Refuse
<1>2. ASSUME NEW r \in Requests, Accept(r) PROVE CookieInv'
  BY <1>2 DEF Accept, Submit
<1>3. ASSUME NEW r \in Requests, CallEnds(r) PROVE CookieInv'
  BY <1>3 DEF CallEnds, Answer, GiveUp
<1>4. ASSUME NEW r \in Requests, Execute(r) PROVE CookieInv'
  BY <1>4 DEF Execute, Send, Begin
<1>5. ASSUME NEW r \in Requests, Conclude(r) PROVE CookieInv'
  BY <1>5 DEF Conclude, EndAs, End
<1>6. ASSUME NEW r \in Requests, Unauthorized(r) PROVE CookieInv'
  BY <1>6 DEF Unauthorized
<1>7. ASSUME NEW r \in Requests, StillUnauthorized(r) PROVE CookieInv'
  BY <1>7 DEF StillUnauthorized, EndAs, End
<1>8. ASSUME NEW r \in Requests, Throttled(r) PROVE CookieInv'
  BY <1>8 DEF Throttled, EndAs, End, MayRetry
<1>9. ASSUME NEW r \in Requests, NextAttempt(r) PROVE CookieInv'
  BY <1>9 DEF NextAttempt, Send
<1>10. ASSUME NEW r \in Requests, ReadOld(r) PROVE CookieInv'
  BY <1>10 DEF ReadOld
<1>11. ASSUME NEW r \in Requests, Publish(r) PROVE CookieInv'
  BY <1>11 DEF Publish
<1>12. ASSUME NEW r \in Requests, PollFindsNew(r) PROVE CookieInv'
  BY <1>12 DEF PollFindsNew, Waited, IsNew
<1>13. ASSUME NEW r \in Requests, PollFindsNothing(r) PROVE CookieInv'
  BY <1>13 DEF PollFindsNothing, Waited, EndAs, End
<1>14. ASSUME NEW r \in Requests, Resend(r) PROVE CookieInv'
  <2>1. resending'
    BY <1>14 DEF Resend, Send
  <2>2. phase = "delay" /\ phase' = "send" /\ UNCHANGED <<ran, seen, token, old, rejected>>
    BY <1>14 DEF Resend, Send
  <2>3. ASSUME NEW q \in Requests, ran[q] = "running"
        PROVE  rejected = {seen[q]} /\ (old # NoToken => token # seen[q])
    BY <2>2, <2>3
  <2>4. QED
    BY <2>1, <2>2, <2>3
<1>15. CASE Tick
  BY <1>15 DEF Tick
<1>16. CASE Crash
  BY <1>16 DEF Crash, Die
<1>17. CASE Login
  BY <1>17 DEF Login
<1>18. CASE KeyExpires
  BY <1>18 DEF KeyExpires
<1>19. ASSUME NEW t \in unstored, Store(t) PROVE CookieInv'
  BY <1>19 DEF Store
<1>20. CASE UNCHANGED vars
  BY <1>20 DEF vars
<1>21. QED BY <1>1, <1>2, <1>3, <1>4, <1>5, <1>6, <1>7, <1>8, <1>9, <1>10, <1>11, <1>12,
      <1>13, <1>14, <1>15, <1>16, <1>17, <1>18, <1>19, <1>20 DEF Next, Executing
-----------------------------------------------------------------------------
(***************************************************************************)
(* The theorems.                                                           *)
(***************************************************************************)

\* The inductive invariant holds in every reachable state.
THEOREM Invariance == Spec => []IInv
<1>1. IInv /\ [Next]_vars => IInv'
  BY TypeStep, PhaseStep, LoadStep, PauseStep, StoredStep, CookieStep DEF IInv
<1>2. QED
  BY Initially, <1>1, PTL DEF Spec

\* Type correctness: in particular the waiting time never outgrows the limit by more
\* than one poll (session_refresh.py:64-66).
THEOREM TypeCorrect == Spec => []TypeOK
<1>1. IInv => TypeOK
  BY DEF IInv
<1>2. QED
  BY <1>1, Invariance, PTL

\* A request costs Lardi at most 2 * (MAX_RETRIES + 1) HTTP requests and auth-worker
\* at most MAX_RETRIES + 1 logins, for every number of attempts.
THEOREM LoadIsBounded == Spec => []BoundedLoad
<1>1. IInv => BoundedLoad
  BY RecoveryAssumption DEF IInv, TypeOK, LoadInv, BoundedLoad
<1>2. QED
  BY <1>1, Invariance, PTL

\* No two HTTP requests to Lardi are closer than the interval of the queue, whichever
\* of the three ways the second one is sent.
THEOREM SendingsAreSpaced == Spec => LardiIsSpared
<1>1. IInv /\ [Next]_vars => [Sends => quiet >= MinInterval]_vars
  <2> SUFFICES ASSUME IInv, Next, Sends PROVE quiet >= MinInterval
    BY DEF Sends, vars
  <2> USE RecoveryAssumption DEF IInv, TypeOK, PauseInv, Sends
  <2>1. ASSUME NEW r \in Requests, Execute(r) PROVE quiet >= MinInterval
    BY <2>1 DEF Execute
  <2>2. ASSUME NEW r \in Requests, NextAttempt(r) PROVE quiet >= MinInterval
    BY <2>2 DEF NextAttempt
  <2>3. ASSUME NEW r \in Requests, Resend(r) PROVE quiet >= MinInterval
    BY <2>3 DEF Resend
  <2>4. QED
    BY <2>1, <2>2, <2>3 DEF Next, Executing, Refuse, Accept, CallEnds, Conclude, EndAs,
       Unauthorized, StillUnauthorized, Throttled, ReadOld, Publish, PollFindsNew,
       PollFindsNothing, Tick, Crash, Login, KeyExpires, Store
<1>2. QED
  BY <1>1, Invariance, PTL DEF Spec, LardiIsSpared

LEMMA Pair ==
  ASSUME NEW a, NEW b, a # b
  PROVE  Cardinality({a, b}) = 2
<1>1. IsFiniteSet({a}) /\ Cardinality({a}) = 1
  BY FS_Singleton
<1>2. b \notin {a}
  OBVIOUS
<1>3. Cardinality({a} \cup {b}) = Cardinality({a}) + 1
  BY <1>1, <1>2, FS_AddElement
<1>4. {a} \cup {b} = {a, b}
  OBVIOUS
<1> QED
  BY <1>1, <1>3, <1>4

\* Two different cookies were rejected before LTSID_REFRESH_FAILED, unless there was
\* no old_ltsid to compare with.
THEOREM FailureNeedsTwoCookies == Spec => FailedMeansTwoCookies
<1> DEFINE Two == \A r \in Requests :
             outcome'[r] = "LTSID_REFRESH_FAILED" /\ outcome[r] # outcome'[r]
               /\ old # NoToken => Cardinality(rejected') = 2
<1>1. IInv /\ [Next]_vars => [Two]_vars
  <2> SUFFICES ASSUME IInv, Next, NEW r \in Requests,
                      outcome'[r] = "LTSID_REFRESH_FAILED", outcome[r] # outcome'[r],
                      old # NoToken
               PROVE  Cardinality(rejected') = 2
    BY DEF vars
  <2> USE DEF IInv, TypeOK
  <2>1. PICK q \in Requests : StillUnauthorized(q)
    BY DEF Next, Executing, Refuse, Accept, Submit, CallEnds, Execute, Conclude, EndAs,
       Unauthorized, Throttled, NextAttempt, ReadOld, Publish, PollFindsNew,
       PollFindsNothing, Resend, Tick, Crash, Login, KeyExpires, Store, requestVars
  <2>2. rejected' = {seen[q], token} /\ token # seen[q]
    BY <2>1 DEF StillUnauthorized, EndAs, End, CookieInv
  <2>3. Cardinality({seen[q], token}) = 2
    BY <2>2, Pair, Zenon
  <2>4. QED
    BY <2>2, <2>3, Zenon
<1>2. QED
  BY <1>1, Invariance, PTL DEF Spec, FailedMeansTwoCookies

\* The executions modelled here are what the queue's contract allows: Begin, End and
\* Die of QueueContract, and nothing else changes call and ran.
THEOREM ObeysTheQueue == Spec => CSpec
<1>1. Init => CInit
  BY DEF Init
<1>2. [Next]_vars => [CNext]_cvars
  <2> SUFFICES ASSUME [Next]_vars PROVE CNext \/ UNCHANGED cvars
    OBVIOUS
  <2> USE DEF cvars, requestVars, EndAs
  <2>1. ASSUME NEW r \in Requests, Refuse(r) \/ Accept(r) \/ CallEnds(r)
        PROVE  CNext \/ UNCHANGED cvars
    BY <2>1 DEF Refuse, Accept, CallEnds, CNext
  <2>2. ASSUME NEW r \in Requests, Executing(r) PROVE CNext \/ UNCHANGED cvars
    BY <2>2 DEF Executing, Execute, Conclude, Unauthorized, StillUnauthorized, Throttled,
       NextAttempt, ReadOld, Publish, PollFindsNew, PollFindsNothing, Resend, CNext
  <2>3. CASE Tick \/ Crash \/ Login \/ KeyExpires \/ \E t \in unstored : Store(t)
    BY <2>3 DEF Tick, Crash, Login, KeyExpires, Store, CNext
  <2>4. CASE UNCHANGED vars
    BY <2>4 DEF vars
  <2>5. QED
    BY <2>1, <2>2, <2>3, <2>4 DEF Next
<1>3. QED
  BY <1>1, <1>2, PTL DEF Spec, CSpec
=============================================================================
