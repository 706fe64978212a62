----------------------- MODULE EmergencyRefreshProofs -----------------------
(***************************************************************************)
(* Proofs about EmergencyRefresh, for every set of workers and every       *)
(* timing in which the lock outlives a login.                              *)
(*                                                                         *)
(* HoldInv carries the argument: a worker inside the critical section is   *)
(* the one whose SET made the lock, and the lock has longer to live than   *)
(* its login.  BreakerInv ties the breaker's counter to the failures in a  *)
(* row, and what is left of the pause to the rest already taken.           *)
(***************************************************************************)
EXTENDS EmergencyRefresh, TLAPS

HoldInv ==
  \A w \in Workers :
    /\ listener[w] \in {"login", "releasing"} => owner = w /\ lock > 0
    /\ listener[w] = "login" => lock > timer[w]

BreakerInv ==
  \A w \in Workers :
    /\ failures[w] = IF inRow[w] = Threshold THEN 0 ELSE inRow[w]
    /\ inRow[w] = Threshold => paused[w] + rested[w] >= Pause
    /\ listener[w] \in {"locking", "login"} => paused[w] = 0

IInv == TypeOK /\ HoldInv /\ BreakerInv
-----------------------------------------------------------------------------
\* Every step keeps the types.
LEMMA TypeStep == TypeOK /\ [Next]_vars => TypeOK'
<1> SUFFICES ASSUME TypeOK, [Next]_vars PROVE TypeOK'
  OBVIOUS
<1> USE RefreshAssumption DEF TypeOK, Subscribed, Goes, taskVars, breakerVars,
        lockVars, historyVars, MayLock, Trips, IsOpen, AfterSuccess, AfterWait,
        AfterError
<1>1. ASSUME NEW w \in Workers, Start(w) PROVE TypeOK'
  BY <1>1 DEF Start
<1>2. ASSUME NEW w \in Workers, Subscribe(w) PROVE TypeOK'
  BY <1>2 DEF Subscribe
<1>3. ASSUME NEW w \in Workers, ReconnectOver(w) PROVE TypeOK'
  BY <1>3 DEF ReconnectOver
<1>4. ASSUME NEW w \in Workers, TakeMessage(w) PROVE TypeOK'
  BY <1>4 DEF TakeMessage
<1>5. ASSUME NEW w \in Workers, LockTaken(w) PROVE TypeOK'
  BY <1>5 DEF LockTaken, SetLock
<1>6. ASSUME NEW w \in Workers, LockHeld(w) PROVE TypeOK'
  BY <1>6 DEF LockHeld
<1>7. ASSUME NEW w \in Workers, LoginSucceeds(w) PROVE TypeOK'
  BY <1>7 DEF LoginSucceeds
<1>8. ASSUME NEW w \in Workers, LoginFails(w) PROVE TypeOK'
  BY <1>8 DEF LoginFails, RecordFailure
<1>9. ASSUME NEW w \in Workers, Release(w) PROVE TypeOK'
  BY <1>9 DEF Release, DeleteLock
<1>10. ASSUME NEW w \in Workers, WaitOver(w) PROVE TypeOK'
  BY <1>10 DEF WaitOver
<1>11. ASSUME NEW w \in Workers, Disconnect(w) PROVE TypeOK'
  BY <1>11 DEF Disconnect
<1>12. ASSUME NEW w \in Workers, LockFails(w) PROVE TypeOK'
  BY <1>12 DEF LockFails, SetLock
<1>13. ASSUME NEW w \in Workers, Crash(w) PROVE TypeOK'
  BY <1>13 DEF Crash, Ends
<1>14. ASSUME NEW w \in Workers, Stop(w) PROVE TypeOK'
  BY <1>14 DEF Stop, Ends, DeleteLock
<1>15. ASSUME NEW w \in Workers, ZombieEnds(w) PROVE TypeOK'
  BY <1>15 DEF ZombieEnds
<1>16. CASE Published
  BY <1>16 DEF Published
<1>17. CASE Tick
  BY <1>17 DEF Tick
<1>18. CASE UNCHANGED vars
  BY <1>18 DEF vars
<1>19. QED
  BY <1>1, <1>2, <1>3, <1>4, <1>5, <1>6, <1>7, <1>8, <1>9, <1>10, <1>11, <1>12,
     <1>13, <1>14, <1>15, <1>16, <1>17, <1>18
  DEF Next, Listen, Misfortune

\* Every step keeps the lock with the worker that logs in under it.
LEMMA HoldStep == TypeOK /\ HoldInv /\ [Next]_vars => HoldInv'
<1> SUFFICES ASSUME TypeOK, HoldInv, [Next]_vars PROVE HoldInv'
  OBVIOUS
<1> USE RefreshAssumption DEF TypeOK, HoldInv, Subscribed, Goes, taskVars, breakerVars,
        lockVars, historyVars, MayLock, Trips, IsOpen, AfterSuccess, AfterWait,
        AfterError
<1>1. ASSUME NEW w \in Workers, Start(w) PROVE HoldInv'
  BY <1>1 DEF Start
<1>2. ASSUME NEW w \in Workers, Subscribe(w) PROVE HoldInv'
  BY <1>2 DEF Subscribe
<1>3. ASSUME NEW w \in Workers, ReconnectOver(w) PROVE HoldInv'
  BY <1>3 DEF ReconnectOver
<1>4. ASSUME NEW w \in Workers, TakeMessage(w) PROVE HoldInv'
  BY <1>4 DEF TakeMessage
<1>5. ASSUME NEW w \in Workers, LockTaken(w) PROVE HoldInv'
  BY <1>5 DEF LockTaken, SetLock
<1>6. ASSUME NEW w \in Workers, LockHeld(w) PROVE HoldInv'
  BY <1>6 DEF LockHeld
<1>7. ASSUME NEW w \in Workers, LoginSucceeds(w) PROVE HoldInv'
  BY <1>7 DEF LoginSucceeds
<1>8. ASSUME NEW w \in Workers, LoginFails(w) PROVE HoldInv'
  BY <1>8 DEF LoginFails, RecordFailure
<1>9. ASSUME NEW w \in Workers, Release(w) PROVE HoldInv'
  BY <1>9 DEF Release, DeleteLock
<1>10. ASSUME NEW w \in Workers, WaitOver(w) PROVE HoldInv'
  BY <1>10 DEF WaitOver
<1>11. ASSUME NEW w \in Workers, Disconnect(w) PROVE HoldInv'
  BY <1>11 DEF Disconnect
<1>12. ASSUME NEW w \in Workers, LockFails(w) PROVE HoldInv'
  BY <1>12 DEF LockFails, SetLock
<1>13. ASSUME NEW w \in Workers, Crash(w) PROVE HoldInv'
  BY <1>13 DEF Crash, Ends
<1>14. ASSUME NEW w \in Workers, Stop(w) PROVE HoldInv'
  BY <1>14 DEF Stop, Ends, DeleteLock
<1>15. ASSUME NEW w \in Workers, ZombieEnds(w) PROVE HoldInv'
  BY <1>15 DEF ZombieEnds
<1>16. CASE Published
  BY <1>16 DEF Published
<1>17. CASE Tick
  BY <1>17 DEF Tick
<1>18. CASE UNCHANGED vars
  BY <1>18 DEF vars
<1>19. QED
  BY <1>1, <1>2, <1>3, <1>4, <1>5, <1>6, <1>7, <1>8, <1>9, <1>10, <1>11, <1>12,
     <1>13, <1>14, <1>15, <1>16, <1>17, <1>18
  DEF Next, Listen, Misfortune

\* Every step keeps the breaker in line with the history of failures.
LEMMA BreakerStep == TypeOK /\ BreakerInv /\ [Next]_vars => BreakerInv'
<1> SUFFICES ASSUME TypeOK, BreakerInv, [Next]_vars PROVE BreakerInv'
  OBVIOUS
<1> USE RefreshAssumption DEF TypeOK, BreakerInv, Subscribed, Goes, taskVars, breakerVars,
        lockVars, historyVars, MayLock, Trips, IsOpen, AfterSuccess, AfterWait,
        AfterError
<1>1. ASSUME NEW w \in Workers, Start(w) PROVE BreakerInv'
  BY <1>1 DEF Start
<1>2. ASSUME NEW w \in Workers, Subscribe(w) PROVE BreakerInv'
  BY <1>2 DEF Subscribe
<1>3. ASSUME NEW w \in Workers, ReconnectOver(w) PROVE BreakerInv'
  BY <1>3 DEF ReconnectOver
<1>4. ASSUME NEW w \in Workers, TakeMessage(w) PROVE BreakerInv'
  BY <1>4 DEF TakeMessage
<1>5. ASSUME NEW w \in Workers, LockTaken(w) PROVE BreakerInv'
  BY <1>5 DEF LockTaken, SetLock
<1>6. ASSUME NEW w \in Workers, LockHeld(w) PROVE BreakerInv'
  BY <1>6 DEF LockHeld
<1>7. ASSUME NEW w \in Workers, LoginSucceeds(w) PROVE BreakerInv'
  BY <1>7 DEF LoginSucceeds
<1>8. ASSUME NEW w \in Workers, LoginFails(w) PROVE BreakerInv'
  BY <1>8 DEF LoginFails, RecordFailure
<1>9. ASSUME NEW w \in Workers, Release(w) PROVE BreakerInv'
  BY <1>9 DEF Release, DeleteLock
<1>10. ASSUME NEW w \in Workers, WaitOver(w) PROVE BreakerInv'
  BY <1>10 DEF WaitOver
<1>11. ASSUME NEW w \in Workers, Disconnect(w) PROVE BreakerInv'
  BY <1>11 DEF Disconnect
<1>12. ASSUME NEW w \in Workers, LockFails(w) PROVE BreakerInv'
  BY <1>12 DEF LockFails, SetLock
<1>13. ASSUME NEW w \in Workers, Crash(w) PROVE BreakerInv'
  BY <1>13 DEF Crash, Ends
<1>14. ASSUME NEW w \in Workers, Stop(w) PROVE BreakerInv'
  BY <1>14 DEF Stop, Ends, DeleteLock
<1>15. ASSUME NEW w \in Workers, ZombieEnds(w) PROVE BreakerInv'
  BY <1>15 DEF ZombieEnds
<1>16. CASE Published
  BY <1>16 DEF Published
<1>17. CASE Tick
  BY <1>17 DEF Tick
<1>18. CASE UNCHANGED vars
  BY <1>18 DEF vars
<1>19. QED
  BY <1>1, <1>2, <1>3, <1>4, <1>5, <1>6, <1>7, <1>8, <1>9, <1>10, <1>11, <1>12,
     <1>13, <1>14, <1>15, <1>16, <1>17, <1>18
  DEF Next, Listen, Misfortune

-----------------------------------------------------------------------------
\* The inductive invariant holds in every reachable state.
THEOREM Invariance == Spec => []IInv
<1>1. Init => IInv
  BY RefreshAssumption DEF Init, IInv, TypeOK, HoldInv, BreakerInv, Subscribed
<1>2. IInv /\ [Next]_vars => IInv'
  BY TypeStep, HoldStep, BreakerStep DEF IInv
<1>3. QED
  BY <1>1, <1>2, PTL DEF Spec

\* Type correctness: in particular the breaker's counter stays below its threshold.
THEOREM TypeCorrect == Spec => []TypeOK
<1>1. IInv => TypeOK
  BY DEF IInv
<1>2. QED
  BY <1>1, Invariance, PTL

\* Emergency logins exclude each other, for any number of auth-worker processes.
THEOREM MutualExclusion == Spec => []OneEmergencyLogin
<1>1. IInv => OneEmergencyLogin
  BY DEF IInv, HoldInv, OneEmergencyLogin
<1>2. QED
  BY <1>1, Invariance, PTL

\* The unconditional DELETE of the finally block deletes the worker's own lock.
THEOREM OwnLockDeleted == Spec => []DeletesOwnLock
<1>1. IInv => DeletesOwnLock
  BY DEF IInv, HoldInv, DeletesOwnLock
<1>2. QED
  BY <1>1, Invariance, PTL

\* The circuit breaker opens at the Threshold-th failure in a row and then keeps its
\* process from logging in for the whole pause.
THEOREM BreakerCorrect == Spec => BreakerHolds
<1> DEFINE Opens(w) ==
      paused'[w] > paused[w]
        <=> listener[w] = "login" /\ listener'[w] = "releasing" /\ inRow'[w] = Threshold
    Waits(w) == LoginStarts(w) /\ inRow[w] = Threshold => rested[w] >= Pause
<1>1. ASSUME IInv, [Next]_vars, NEW v \in Workers PROVE Opens(v) /\ Waits(v)
  <2> USE <1>1, RefreshAssumption DEF IInv, TypeOK, BreakerInv, LoginStarts, Subscribed,
          Goes, taskVars, breakerVars, lockVars, historyVars, MayLock, Trips,
          IsOpen, AfterSuccess, AfterWait, AfterError
  <2>1. ASSUME NEW w \in Workers, Start(w) PROVE Opens(v) /\ Waits(v)
    BY <2>1 DEF Start
  <2>2. ASSUME NEW w \in Workers, Subscribe(w) PROVE Opens(v) /\ Waits(v)
    BY <2>2 DEF Subscribe
  <2>3. ASSUME NEW w \in Workers, ReconnectOver(w) PROVE Opens(v) /\ Waits(v)
    BY <2>3 DEF ReconnectOver
  <2>4. ASSUME NEW w \in Workers, TakeMessage(w) PROVE Opens(v) /\ Waits(v)
    BY <2>4 DEF TakeMessage
  <2>5. ASSUME NEW w \in Workers, LockTaken(w) PROVE Opens(v) /\ Waits(v)
    BY <2>5 DEF LockTaken, SetLock
  <2>6. ASSUME NEW w \in Workers, LockHeld(w) PROVE Opens(v) /\ Waits(v)
    BY <2>6 DEF LockHeld
  <2>7. ASSUME NEW w \in Workers, LoginSucceeds(w) PROVE Opens(v) /\ Waits(v)
    BY <2>7 DEF LoginSucceeds
  <2>8. ASSUME NEW w \in Workers, LoginFails(w) PROVE Opens(v) /\ Waits(v)
    BY <2>8 DEF LoginFails, RecordFailure
  <2>9. ASSUME NEW w \in Workers, Release(w) PROVE Opens(v) /\ Waits(v)
    BY <2>9 DEF Release, DeleteLock
  <2>10. ASSUME NEW w \in Workers, WaitOver(w) PROVE Opens(v) /\ Waits(v)
    BY <2>10 DEF WaitOver
  <2>11. ASSUME NEW w \in Workers, Disconnect(w) PROVE Opens(v) /\ Waits(v)
    BY <2>11 DEF Disconnect
  <2>12. ASSUME NEW w \in Workers, LockFails(w) PROVE Opens(v) /\ Waits(v)
    BY <2>12 DEF LockFails, SetLock
  <2>13. ASSUME NEW w \in Workers, Crash(w) PROVE Opens(v) /\ Waits(v)
    BY <2>13 DEF Crash, Ends
  <2>14. ASSUME NEW w \in Workers, Stop(w) PROVE Opens(v) /\ Waits(v)
    BY <2>14 DEF Stop, Ends, DeleteLock
  <2>15. ASSUME NEW w \in Workers, ZombieEnds(w) PROVE Opens(v) /\ Waits(v)
    BY <2>15 DEF ZombieEnds
  <2>16. CASE Published
    BY <2>16 DEF Published
  <2>17. CASE Tick
    BY <2>17 DEF Tick
  <2>18. CASE UNCHANGED vars
    BY <2>18 DEF vars
  <2>19. QED
    BY <2>1, <2>2, <2>3, <2>4, <2>5, <2>6, <2>7, <2>8, <2>9, <2>10, <2>11, <2>12,
       <2>13, <2>14, <2>15, <2>16, <2>17, <2>18
    DEF Next, Listen, Misfortune
<1>2. IInv /\ [Next]_vars =>
        [\A w \in Workers :
           /\ paused'[w] > paused[w]
                <=> listener[w] = "login" /\ listener'[w] = "releasing"
                      /\ inRow'[w] = Threshold
           /\ LoginStarts(w) /\ inRow[w] = Threshold => rested[w] >= Pause]_vars
  BY <1>1
<1>3. QED
  BY <1>2, Invariance, PTL DEF Spec, BreakerHolds
=============================================================================
