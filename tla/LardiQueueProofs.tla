-------------------------- MODULE LardiQueueProofs --------------------------
(***************************************************************************)
(* Proofs about LardiQueue for every set of requests, every interval and   *)
(* every set of faults.                                                    *)
(***************************************************************************)
EXTENDS LardiQueue, TLAPS

\* The consumer holds an id exactly while it handles one, and only the id it
\* handles can be running.
HandInv ==
  /\ current # NoRequest <=> consumer \in {"popped", "sleep", "running"}
  /\ \A r \in Requests : ran[r] = "running" <=> consumer = "running" /\ current = r

\* The list is in push order, behind the id in hand, behind all that ever ran.
OrderInv ==
  /\ \A i, j \in 1..Len(redisList) : i < j => pushNo[redisList[i]] < pushNo[redisList[j]]
  /\ \A i \in 1..Len(redisList) : lastStarted < pushNo[redisList[i]]
  /\ current # NoRequest =>
       /\ \A i \in 1..Len(redisList) : pushNo[current] < pushNo[redisList[i]]
       /\ consumer # "running" => lastStarted < pushNo[current]
  /\ lastStarted <= pushes
  /\ \A r \in Requests :
       /\ pushNo[r] <= pushes
       /\ caller[r] \in {"new", "llen", "rpush"} => pushNo[r] = 0
       /\ ran[r] # "no" => 0 < pushNo[r] /\ pushNo[r] <= lastStarted

\* What waits to be popped by a live caller is registered, until stop() clears
\* _pending; what the consumer has taken out stays out, for a caller of this process.
RegisterInv ==
  \A r \in Requests :
    /\ (/\ consumer # "stopped"
        /\ caller[r] \in Live
        /\ \/ caller[r] \in {"llen", "rpush"}
           \/ InList(r)
           \/ consumer = "popped" /\ current = r)
       => r \in pending
    /\ r \in pending =>
         /\ caller[r] \in Live \cup {"cancelled"}
         /\ future[r] \notin {"result", "exception"}
         /\ ~(consumer \in {"sleep", "running"} /\ current = r)
    /\ consumer \in {"sleep", "running"} /\ current = r => caller[r] # "dropped"

\* A settled Future and the answer made from it tell how the execution ended.
OutcomeInv ==
  \A r \in Requests : /\ future[r] = "result" => ran[r] = "ok"
                      /\ future[r] = "exception" => ran[r] = "exception"

\* A sleeping consumer wakes no earlier than Lardi has had its pause.
RateInv == consumer = "sleep" => sleepLeft + quiet >= MinInterval

IInv == /\ TypeOK /\ HandInv /\ OrderInv /\ RegisterInv /\ OutcomeInv
        /\ RateInv /\ AnswerIsOwnOutcome /\ WaiterIsQueued /\ PendingIsAccounted
-----------------------------------------------------------------------------
LEMMA HandInit == Init => TypeOK /\ HandInv
BY QueueAssumption DEF Init, TypeOK, HandInv, Working

LEMMA HandStep == TypeOK /\ HandInv /\ [Next]_vars => TypeOK' /\ HandInv'
<1> SUFFICES ASSUME TypeOK, HandInv, [Next]_vars PROVE TypeOK' /\ HandInv'
  OBVIOUS
<1> USE QueueAssumption DEF TypeOK, HandInv, Live, Finished, Working, callVars,
        consumerVars, pushVars, historyVars,
        Registered, Forgotten, Pushed, Nap, Abandoned, SettledAs, AfterBackoff
<1>1. ASSUME NEW r \in Requests, Enqueue(r) PROVE TypeOK' /\ HandInv'
  BY <1>1 DEF Enqueue
<1>2. ASSUME NEW r \in Requests, LlenReply(r) PROVE TypeOK' /\ HandInv'
  BY <1>2 DEF LlenReply
<1>3. ASSUME NEW r \in Requests, RpushApplied(r) PROVE TypeOK' /\ HandInv'
  BY <1>3 DEF RpushApplied
<1>4. ASSUME NEW r \in Requests, RpushReply(r) PROVE TypeOK' /\ HandInv'
  BY <1>4 DEF RpushReply
<1>5. ASSUME NEW r \in Requests, EnqueueFails(r) PROVE TypeOK' /\ HandInv'
  BY <1>5 DEF EnqueueFails
<1>6. ASSUME NEW r \in Requests, EnqueueReturns(r) PROVE TypeOK' /\ HandInv'
  BY <1>6 DEF EnqueueReturns
<1>7. ASSUME NEW r \in Requests, CallerCancelled(r) PROVE TypeOK' /\ HandInv'
  BY <1>7 DEF CallerCancelled
<1>8. CASE Start
  BY <1>8 DEF Start
<1>9. CASE BlpopServed
  BY <1>9 DEF BlpopServed
<1>10. CASE TakeRequest
  BY <1>10 DEF TakeRequest
<1>11. CASE DiscardUnknown
  BY <1>11 DEF DiscardUnknown
<1>12. CASE BlpopFails
  BY <1>12 DEF BlpopFails
<1>13. CASE BackoffOver
  BY <1>13 DEF BackoffOver
<1>14. CASE SkipCancelled
  BY <1>14 DEF SkipCancelled
<1>15. CASE Execute
  BY <1>15 DEF Execute
<1>16. CASE Finish
  BY <1>16 DEF Finish, Settle
<1>17. CASE Tick
  BY <1>17 DEF Tick
<1>18. CASE StopCancelsConsumer
  BY <1>18 DEF StopCancelsConsumer, AbortRun
<1>19. CASE StopCancelsFutures
  BY <1>19 DEF StopCancelsFutures
<1>20. CASE Crash
  BY <1>20 DEF Crash, AbortRun
<1>21. CASE UNCHANGED vars
  BY <1>21 DEF vars
<1>22. QED
  BY <1>1, <1>2, <1>3, <1>4, <1>5, <1>6, <1>7, <1>8, <1>9, <1>10, <1>11, <1>12,
     <1>13, <1>14, <1>15, <1>16, <1>17, <1>18, <1>19, <1>20, <1>21
  DEF Next, Call, Consume

\* Every variable keeps its type, whatever goes wrong: the model never handles an
\* id it does not hold, such as that of no request.
THEOREM TypeCorrect == Spec => [](TypeOK /\ HandInv)
<1>1. QED
  BY HandInit, HandStep, PTL DEF Spec

LEMMA OrderStep == TypeOK /\ HandInv /\ OrderInv /\ [Next]_vars => OrderInv'
<1> SUFFICES ASSUME TypeOK, HandInv, OrderInv, [Next]_vars PROVE OrderInv'
  OBVIOUS
<1> USE QueueAssumption DEF TypeOK, HandInv, OrderInv, Live, Working, callVars,
        consumerVars, pushVars, historyVars,
        Registered, Forgotten, Pushed, Nap, Abandoned, SettledAs, AfterBackoff
<1>1. ASSUME NEW r \in Requests, Enqueue(r) PROVE OrderInv'
  BY <1>1 DEF Enqueue
<1>2. ASSUME NEW r \in Requests, LlenReply(r) PROVE OrderInv'
  BY <1>2 DEF LlenReply
<1>3. ASSUME NEW r \in Requests, RpushApplied(r) PROVE OrderInv'
  <2> USE <1>3 DEF RpushApplied
  <2> DEFINE n == Len(redisList)
  <2>1. /\ n \in Nat /\ Len(redisList') = n + 1
        /\ redisList'[n + 1] = r
        /\ \A i \in 1..n : redisList[i] \in Requests /\ redisList'[i] = redisList[i]
    OBVIOUS
  <2>2. pushNo[r] = 0 /\ \A i \in 1..n : redisList[i] # r
    OBVIOUS
  <2>3. /\ pushNo'[r] = pushes + 1
        /\ \A q \in Requests : q # r => pushNo'[q] = pushNo[q]
    OBVIOUS
  <2>4. current # r
    BY <2>2
  <2>5. /\ \A i \in 1..n + 1 : pushNo'[redisList'[i]] <= pushes + 1
        /\ \A i \in 1..n : pushNo'[redisList'[i]] = pushNo[redisList[i]]
    BY <2>1, <2>2, <2>3
  <2>6. \A i, j \in 1..n + 1 : i < j => pushNo'[redisList'[i]] < pushNo'[redisList'[j]]
    <3>1. TAKE i \in 1..n + 1, j \in 1..n + 1
    <3>2. CASE j = n + 1
      BY <2>1, <2>2, <2>3, <2>5, <3>2
    <3>3. CASE j # n + 1
      <4>1. j \in 1..n
        BY <2>1, <3>1, <3>3
      <4>2. SUFFICES ASSUME i < j PROVE pushNo'[redisList'[i]] < pushNo'[redisList'[j]]
        OBVIOUS
      <4>3. i \in 1..n
        BY <2>1, <3>1, <4>1, <4>2
      <4>4. pushNo[redisList[i]] < pushNo[redisList[j]]
        BY <4>1, <4>2, <4>3
      <4>5. QED
        BY <2>5, <4>1, <4>3, <4>4
    <3>4. QED
      BY <3>2, <3>3
  <2>7. \A i \in 1..n + 1 : lastStarted < pushNo'[redisList'[i]]
    BY <2>1, <2>3, <2>5
  <2>8. current # NoRequest =>
          /\ \A i \in 1..n + 1 : pushNo'[current] < pushNo'[redisList'[i]]
          /\ pushNo'[current] = pushNo[current]
    BY <2>1, <2>3, <2>4, <2>5
  <2>9. \A q \in Requests :
          /\ pushNo'[q] <= pushes'
          /\ caller'[q] \in {"new", "llen", "rpush"} => pushNo'[q] = 0
          /\ ran'[q] # "no" => 0 < pushNo'[q] /\ pushNo'[q] <= lastStarted'
    BY <2>2, <2>3
  <2>10. QED
    BY <2>1, <2>6, <2>7, <2>8, <2>9
<1>4. ASSUME NEW r \in Requests, RpushReply(r) PROVE OrderInv'
  BY <1>4 DEF RpushReply
<1>5. ASSUME NEW r \in Requests, EnqueueFails(r) PROVE OrderInv'
  BY <1>5 DEF EnqueueFails
<1>6. ASSUME NEW r \in Requests, EnqueueReturns(r) PROVE OrderInv'
  BY <1>6 DEF EnqueueReturns
<1>7. ASSUME NEW r \in Requests, CallerCancelled(r) PROVE OrderInv'
  BY <1>7 DEF CallerCancelled
<1>8. CASE Start
  BY <1>8 DEF Start
<1>9. CASE BlpopServed
  BY <1>9 DEF BlpopServed
<1>10. CASE TakeRequest
  BY <1>10 DEF TakeRequest
<1>11. CASE DiscardUnknown
  BY <1>11 DEF DiscardUnknown
<1>12. CASE BlpopFails
  BY <1>12 DEF BlpopFails
<1>13. CASE BackoffOver
  BY <1>13 DEF BackoffOver
<1>14. CASE SkipCancelled
  BY <1>14 DEF SkipCancelled
<1>15. CASE Execute
  BY <1>15 DEF Execute
<1>16. CASE Finish
  BY <1>16 DEF Finish, Settle
<1>17. CASE Tick
  BY <1>17 DEF Tick
<1>18. CASE StopCancelsConsumer
  BY <1>18 DEF StopCancelsConsumer, AbortRun
<1>19. CASE StopCancelsFutures
  BY <1>19 DEF StopCancelsFutures
<1>20. CASE Crash
  BY <1>20 DEF Crash, AbortRun
<1>21. CASE UNCHANGED vars
  BY <1>21 DEF vars
<1>22. QED
  BY <1>1, <1>2, <1>3, <1>4, <1>5, <1>6, <1>7, <1>8, <1>9, <1>10, <1>11, <1>12,
     <1>13, <1>14, <1>15, <1>16, <1>17, <1>18, <1>19, <1>20, <1>21
  DEF Next, Call, Consume

LEMMA RegisterStep ==
  TypeOK /\ HandInv /\ OrderInv /\ RegisterInv /\ [Next]_vars
    => RegisterInv'
<1> SUFFICES ASSUME TypeOK, HandInv, OrderInv, RegisterInv, [Next]_vars
             PROVE  RegisterInv'
  OBVIOUS
<1> USE QueueAssumption DEF TypeOK, HandInv, OrderInv, RegisterInv, InList, Live, Working,
        callVars, consumerVars, pushVars, historyVars,
        Registered, Forgotten, Pushed, Nap, Abandoned, SettledAs, AfterBackoff
<1>1. ASSUME NEW r \in Requests, Enqueue(r) PROVE RegisterInv'
  BY <1>1 DEF Enqueue
<1>2. ASSUME NEW r \in Requests, LlenReply(r) PROVE RegisterInv'
  BY <1>2 DEF LlenReply
<1>3. ASSUME NEW r \in Requests, RpushApplied(r) PROVE RegisterInv'
  BY <1>3 DEF RpushApplied
<1>4. ASSUME NEW r \in Requests, RpushReply(r) PROVE RegisterInv'
  BY <1>4 DEF RpushReply
<1>5. ASSUME NEW r \in Requests, EnqueueFails(r) PROVE RegisterInv'
  BY <1>5 DEF EnqueueFails
<1>6. ASSUME NEW r \in Requests, EnqueueReturns(r) PROVE RegisterInv'
  BY <1>6 DEF EnqueueReturns
<1>7. ASSUME NEW r \in Requests, CallerCancelled(r) PROVE RegisterInv'
  BY <1>7 DEF CallerCancelled
<1>8. CASE Start
  BY <1>8 DEF Start
<1>9. CASE BlpopServed
  BY <1>9 DEF BlpopServed
<1>10. CASE TakeRequest
  BY <1>10 DEF TakeRequest
<1>11. CASE DiscardUnknown
  BY <1>11 DEF DiscardUnknown
<1>12. CASE BlpopFails
  BY <1>12 DEF BlpopFails
<1>13. CASE BackoffOver
  BY <1>13 DEF BackoffOver
<1>14. CASE SkipCancelled
  BY <1>14 DEF SkipCancelled
<1>15. CASE Execute
  BY <1>15 DEF Execute
<1>16. CASE Finish
  BY <1>16 DEF Finish, Settle
<1>17. CASE Tick
  BY <1>17 DEF Tick
<1>18. CASE StopCancelsConsumer
  BY <1>18 DEF StopCancelsConsumer, AbortRun
<1>19. CASE StopCancelsFutures
  BY <1>19 DEF StopCancelsFutures
<1>20. CASE Crash
  BY <1>20 DEF Crash, AbortRun
<1>21. CASE UNCHANGED vars
  BY <1>21 DEF vars
<1>22. QED
  BY <1>1, <1>2, <1>3, <1>4, <1>5, <1>6, <1>7, <1>8, <1>9, <1>10, <1>11, <1>12,
     <1>13, <1>14, <1>15, <1>16, <1>17, <1>18, <1>19, <1>20, <1>21
  DEF Next, Call, Consume

LEMMA OutcomeStep ==
  TypeOK /\ HandInv /\ OrderInv /\ OutcomeInv /\ [Next]_vars
    => OutcomeInv'
<1> SUFFICES ASSUME TypeOK, HandInv, OrderInv, OutcomeInv, [Next]_vars
             PROVE  OutcomeInv'
  OBVIOUS
<1> USE QueueAssumption DEF TypeOK, HandInv, OrderInv, OutcomeInv, Live, Working,
        callVars, consumerVars, pushVars, historyVars,
        Registered, Forgotten, Pushed, Nap, Abandoned, SettledAs, AfterBackoff
<1>1. ASSUME NEW r \in Requests, Enqueue(r) PROVE OutcomeInv'
  BY <1>1 DEF Enqueue
<1>2. ASSUME NEW r \in Requests, LlenReply(r) PROVE OutcomeInv'
  BY <1>2 DEF LlenReply
<1>3. ASSUME NEW r \in Requests, RpushApplied(r) PROVE OutcomeInv'
  BY <1>3 DEF RpushApplied
<1>4. ASSUME NEW r \in Requests, RpushReply(r) PROVE OutcomeInv'
  BY <1>4 DEF RpushReply
<1>5. ASSUME NEW r \in Requests, EnqueueFails(r) PROVE OutcomeInv'
  BY <1>5 DEF EnqueueFails
<1>6. ASSUME NEW r \in Requests, EnqueueReturns(r) PROVE OutcomeInv'
  BY <1>6 DEF EnqueueReturns
<1>7. ASSUME NEW r \in Requests, CallerCancelled(r) PROVE OutcomeInv'
  BY <1>7 DEF CallerCancelled
<1>8. CASE Start
  BY <1>8 DEF Start
<1>9. CASE BlpopServed
  BY <1>9 DEF BlpopServed
<1>10. CASE TakeRequest
  BY <1>10 DEF TakeRequest
<1>11. CASE DiscardUnknown
  BY <1>11 DEF DiscardUnknown
<1>12. CASE BlpopFails
  BY <1>12 DEF BlpopFails
<1>13. CASE BackoffOver
  BY <1>13 DEF BackoffOver
<1>14. CASE SkipCancelled
  BY <1>14 DEF SkipCancelled
<1>15. CASE Execute
  BY <1>15 DEF Execute
<1>16. CASE Finish
  BY <1>16 DEF Finish, Settle
<1>17. CASE Tick
  BY <1>17 DEF Tick
<1>18. CASE StopCancelsConsumer
  BY <1>18 DEF StopCancelsConsumer, AbortRun
<1>19. CASE StopCancelsFutures
  BY <1>19 DEF StopCancelsFutures
<1>20. CASE Crash
  BY <1>20 DEF Crash, AbortRun
<1>21. CASE UNCHANGED vars
  BY <1>21 DEF vars
<1>22. QED
  BY <1>1, <1>2, <1>3, <1>4, <1>5, <1>6, <1>7, <1>8, <1>9, <1>10, <1>11, <1>12,
     <1>13, <1>14, <1>15, <1>16, <1>17, <1>18, <1>19, <1>20, <1>21
  DEF Next, Call, Consume

LEMMA RateStep == TypeOK /\ HandInv /\ RateInv /\ [Next]_vars => RateInv'
<1> SUFFICES ASSUME TypeOK, HandInv, RateInv, [Next]_vars PROVE RateInv'
  OBVIOUS
<1> USE QueueAssumption DEF TypeOK, HandInv, RateInv, Working,
        callVars, consumerVars, pushVars, historyVars,
        Registered, Forgotten, Pushed, Nap, Abandoned, SettledAs, AfterBackoff
<1>1. ASSUME NEW r \in Requests, Enqueue(r) PROVE RateInv'
  BY <1>1 DEF Enqueue
<1>2. ASSUME NEW r \in Requests, LlenReply(r) PROVE RateInv'
  BY <1>2 DEF LlenReply
<1>3. ASSUME NEW r \in Requests, RpushApplied(r) PROVE RateInv'
  BY <1>3 DEF RpushApplied
<1>4. ASSUME NEW r \in Requests, RpushReply(r) PROVE RateInv'
  BY <1>4 DEF RpushReply
<1>5. ASSUME NEW r \in Requests, EnqueueFails(r) PROVE RateInv'
  BY <1>5 DEF EnqueueFails
<1>6. ASSUME NEW r \in Requests, EnqueueReturns(r) PROVE RateInv'
  BY <1>6 DEF EnqueueReturns
<1>7. ASSUME NEW r \in Requests, CallerCancelled(r) PROVE RateInv'
  BY <1>7 DEF CallerCancelled
<1>8. CASE Start
  BY <1>8 DEF Start
<1>9. CASE BlpopServed
  BY <1>9 DEF BlpopServed
<1>10. CASE TakeRequest
  BY <1>10 DEF TakeRequest
<1>11. CASE DiscardUnknown
  BY <1>11 DEF DiscardUnknown
<1>12. CASE BlpopFails
  BY <1>12 DEF BlpopFails
<1>13. CASE BackoffOver
  BY <1>13 DEF BackoffOver
<1>14. CASE SkipCancelled
  BY <1>14 DEF SkipCancelled
<1>15. CASE Execute
  BY <1>15 DEF Execute
<1>16. CASE Finish
  BY <1>16 DEF Finish, Settle
<1>17. CASE Tick
  BY <1>17 DEF Tick
<1>18. CASE StopCancelsConsumer
  BY <1>18 DEF StopCancelsConsumer, AbortRun
<1>19. CASE StopCancelsFutures
  BY <1>19 DEF StopCancelsFutures
<1>20. CASE Crash
  BY <1>20 DEF Crash, AbortRun
<1>21. CASE UNCHANGED vars
  BY <1>21 DEF vars
<1>22. QED
  BY <1>1, <1>2, <1>3, <1>4, <1>5, <1>6, <1>7, <1>8, <1>9, <1>10, <1>11, <1>12,
     <1>13, <1>14, <1>15, <1>16, <1>17, <1>18, <1>19, <1>20, <1>21
  DEF Next, Call, Consume

LEMMA AnswerStep ==
  TypeOK /\ HandInv /\ OrderInv /\ OutcomeInv /\ AnswerIsOwnOutcome /\ [Next]_vars
    => AnswerIsOwnOutcome'
<1> SUFFICES ASSUME TypeOK, HandInv, OrderInv, OutcomeInv, AnswerIsOwnOutcome, [Next]_vars
             PROVE  AnswerIsOwnOutcome'
  OBVIOUS
<1> USE QueueAssumption DEF TypeOK, HandInv, OrderInv, OutcomeInv,
        AnswerIsOwnOutcome, Live, Working, callVars, consumerVars, pushVars, historyVars,
        Registered, Forgotten, Pushed, Nap, Abandoned, SettledAs, AfterBackoff
<1>1. ASSUME NEW r \in Requests, Enqueue(r) PROVE AnswerIsOwnOutcome'
  BY <1>1 DEF Enqueue
<1>2. ASSUME NEW r \in Requests, LlenReply(r) PROVE AnswerIsOwnOutcome'
  BY <1>2 DEF LlenReply
<1>3. ASSUME NEW r \in Requests, RpushApplied(r) PROVE AnswerIsOwnOutcome'
  BY <1>3 DEF RpushApplied
<1>4. ASSUME NEW r \in Requests, RpushReply(r) PROVE AnswerIsOwnOutcome'
  BY <1>4 DEF RpushReply
<1>5. ASSUME NEW r \in Requests, EnqueueFails(r) PROVE AnswerIsOwnOutcome'
  BY <1>5 DEF EnqueueFails
<1>6. ASSUME NEW r \in Requests, EnqueueReturns(r) PROVE AnswerIsOwnOutcome'
  BY <1>6 DEF EnqueueReturns
<1>7. ASSUME NEW r \in Requests, CallerCancelled(r) PROVE AnswerIsOwnOutcome'
  BY <1>7 DEF CallerCancelled
<1>8. CASE Start
  BY <1>8 DEF Start
<1>9. CASE BlpopServed
  BY <1>9 DEF BlpopServed
<1>10. CASE TakeRequest
  BY <1>10 DEF TakeRequest
<1>11. CASE DiscardUnknown
  BY <1>11 DEF DiscardUnknown
<1>12. CASE BlpopFails
  BY <1>12 DEF BlpopFails
<1>13. CASE BackoffOver
  BY <1>13 DEF BackoffOver
<1>14. CASE SkipCancelled
  BY <1>14 DEF SkipCancelled
<1>15. CASE Execute
  BY <1>15 DEF Execute
<1>16. CASE Finish
  BY <1>16 DEF Finish, Settle
<1>17. CASE Tick
  BY <1>17 DEF Tick
<1>18. CASE StopCancelsConsumer
  BY <1>18 DEF StopCancelsConsumer, AbortRun
<1>19. CASE StopCancelsFutures
  BY <1>19 DEF StopCancelsFutures
<1>20. CASE Crash
  BY <1>20 DEF Crash, AbortRun
<1>21. CASE UNCHANGED vars
  BY <1>21 DEF vars
<1>22. QED
  BY <1>1, <1>2, <1>3, <1>4, <1>5, <1>6, <1>7, <1>8, <1>9, <1>10, <1>11, <1>12,
     <1>13, <1>14, <1>15, <1>16, <1>17, <1>18, <1>19, <1>20, <1>21
  DEF Next, Call, Consume

\* RPUSH lists the id and keeps the others listed.
LEMMA PushedIsListed ==
  ASSUME TypeOK, NEW r \in Requests, RpushApplied(r)
  PROVE  InList(r)' /\ \A q \in Requests : InList(q) => InList(q)'
<1> USE DEF TypeOK, RpushApplied, Pushed
<1>1. /\ Len(redisList') = Len(redisList) + 1
      /\ redisList'[Len(redisList) + 1] = r
      /\ \A i \in 1..Len(redisList) : redisList'[i] = redisList[i]
  OBVIOUS
<1>2. InList(r)'
  BY <1>1 DEF InList
<1>3. ASSUME NEW q \in Requests, InList(q) PROVE InList(q)'
  <2>1. PICK i \in 1..Len(redisList) : redisList[i] = q
    BY <1>3 DEF InList
  <2>2. i \in 1..Len(redisList') /\ redisList'[i] = q
    BY <1>1, <2>1
  <2>3. QED
    BY <2>2 DEF InList
<1>4. QED
  BY <1>2, <1>3

\* Popping the head takes no other id out of the list.
LEMMA PoppedOrListed ==
  ASSUME TypeOK, BlpopServed, NEW q \in Requests, InList(q)
  PROVE  q = current' \/ InList(q)'
<1> USE DEF TypeOK, BlpopServed, InList
<1>1. PICK i \in 1..Len(redisList) : redisList[i] = q
  OBVIOUS
<1>2. CASE i = 1
  BY <1>1, <1>2
<1>3. CASE i # 1
  <2>1. i - 1 \in 1..Len(Tail(redisList)) /\ Tail(redisList)[i - 1] = redisList[i]
    BY <1>3
  <2>2. QED
    BY <1>1, <2>1
<1>4. QED
  BY <1>2, <1>3

LEMMA WaiterStep ==
  TypeOK /\ HandInv /\ RegisterInv /\ WaiterIsQueued /\ [Next]_vars
    => WaiterIsQueued'
<1> SUFFICES ASSUME TypeOK, HandInv, RegisterInv, WaiterIsQueued, [Next]_vars
             PROVE  WaiterIsQueued'
  OBVIOUS
<1> USE QueueAssumption DEF TypeOK, HandInv, RegisterInv, WaiterIsQueued,
        InList, Live, Working, callVars, consumerVars, pushVars, historyVars,
        Registered, Forgotten, Pushed, Nap, Abandoned, SettledAs, AfterBackoff
<1>1. ASSUME NEW r \in Requests, Enqueue(r) PROVE WaiterIsQueued'
  BY <1>1 DEF Enqueue
<1>2. ASSUME NEW r \in Requests, LlenReply(r) PROVE WaiterIsQueued'
  BY <1>2 DEF LlenReply
<1>3. ASSUME NEW r \in Requests, RpushApplied(r) PROVE WaiterIsQueued'
  <2> HIDE DEF InList
  <2>1. InList(r)' /\ \A q \in Requests : InList(q) => InList(q)'
    BY <1>3, PushedIsListed
  <2>2. QED
    BY <1>3, <2>1 DEF RpushApplied
<1>4. ASSUME NEW r \in Requests, RpushReply(r) PROVE WaiterIsQueued'
  BY <1>4 DEF RpushReply
<1>5. ASSUME NEW r \in Requests, EnqueueFails(r) PROVE WaiterIsQueued'
  BY <1>5 DEF EnqueueFails
<1>6. ASSUME NEW r \in Requests, EnqueueReturns(r) PROVE WaiterIsQueued'
  BY <1>6 DEF EnqueueReturns
<1>7. ASSUME NEW r \in Requests, CallerCancelled(r) PROVE WaiterIsQueued'
  BY <1>7 DEF CallerCancelled
<1>8. CASE Start
  BY <1>8 DEF Start
<1>9. CASE BlpopServed
  <2> HIDE DEF InList
  <2>1. \A q \in Requests : InList(q) => q = current' \/ InList(q)'
    BY <1>9, PoppedOrListed
  <2>2. QED
    BY <1>9, <2>1 DEF BlpopServed
<1>10. CASE TakeRequest
  BY <1>10 DEF TakeRequest
<1>11. CASE DiscardUnknown
  BY <1>11 DEF DiscardUnknown
<1>12. CASE BlpopFails
  BY <1>12 DEF BlpopFails
<1>13. CASE BackoffOver
  BY <1>13 DEF BackoffOver
<1>14. CASE SkipCancelled
  BY <1>14 DEF SkipCancelled
<1>15. CASE Execute
  BY <1>15 DEF Execute
<1>16. CASE Finish
  BY <1>16 DEF Finish, Settle
<1>17. CASE Tick
  BY <1>17 DEF Tick
<1>18. CASE StopCancelsConsumer
  BY <1>18 DEF StopCancelsConsumer, AbortRun
<1>19. CASE StopCancelsFutures
  BY <1>19 DEF StopCancelsFutures
<1>20. CASE Crash
  BY <1>20 DEF Crash, AbortRun
<1>21. CASE UNCHANGED vars
  BY <1>21 DEF vars
<1>22. QED
  BY <1>1, <1>2, <1>3, <1>4, <1>5, <1>6, <1>7, <1>8, <1>9, <1>10, <1>11, <1>12,
     <1>13, <1>14, <1>15, <1>16, <1>17, <1>18, <1>19, <1>20, <1>21
  DEF Next, Call, Consume

LEMMA PendingStep ==
  TypeOK /\ HandInv /\ OrderInv /\ RegisterInv /\ PendingIsAccounted /\ [Next]_vars
    => PendingIsAccounted'
<1> SUFFICES ASSUME TypeOK, HandInv, OrderInv, RegisterInv, PendingIsAccounted, [Next]_vars
             PROVE  PendingIsAccounted'
  OBVIOUS
<1> USE QueueAssumption DEF TypeOK, HandInv, OrderInv, RegisterInv,
        PendingIsAccounted, InList, Live, Working,
        callVars, consumerVars, pushVars, historyVars,
        Registered, Forgotten, Pushed, Nap, Abandoned, SettledAs, AfterBackoff
<1>1. ASSUME NEW r \in Requests, Enqueue(r) PROVE PendingIsAccounted'
  BY <1>1 DEF Enqueue
<1>2. ASSUME NEW r \in Requests, LlenReply(r) PROVE PendingIsAccounted'
  BY <1>2 DEF LlenReply
<1>3. ASSUME NEW r \in Requests, RpushApplied(r) PROVE PendingIsAccounted'
  <2> HIDE DEF InList
  <2>1. InList(r)' /\ \A q \in Requests : InList(q) => InList(q)'
    BY <1>3, PushedIsListed
  <2>2. QED
    BY <1>3, <2>1 DEF RpushApplied
<1>4. ASSUME NEW r \in Requests, RpushReply(r) PROVE PendingIsAccounted'
  BY <1>4 DEF RpushReply
<1>5. ASSUME NEW r \in Requests, EnqueueFails(r) PROVE PendingIsAccounted'
  BY <1>5 DEF EnqueueFails
<1>6. ASSUME NEW r \in Requests, EnqueueReturns(r) PROVE PendingIsAccounted'
  BY <1>6 DEF EnqueueReturns
<1>7. ASSUME NEW r \in Requests, CallerCancelled(r) PROVE PendingIsAccounted'
  BY <1>7 DEF CallerCancelled
<1>8. CASE Start
  BY <1>8 DEF Start
<1>9. CASE BlpopServed
  <2> HIDE DEF InList
  <2>1. \A q \in Requests : InList(q) => q = current' \/ InList(q)'
    BY <1>9, PoppedOrListed
  <2>2. QED
    BY <1>9, <2>1 DEF BlpopServed
<1>10. CASE TakeRequest
  BY <1>10 DEF TakeRequest
<1>11. CASE DiscardUnknown
  BY <1>11 DEF DiscardUnknown
<1>12. CASE BlpopFails
  BY <1>12 DEF BlpopFails
<1>13. CASE BackoffOver
  BY <1>13 DEF BackoffOver
<1>14. CASE SkipCancelled
  BY <1>14 DEF SkipCancelled
<1>15. CASE Execute
  BY <1>15 DEF Execute
<1>16. CASE Finish
  BY <1>16 DEF Finish, Settle
<1>17. CASE Tick
  BY <1>17 DEF Tick
<1>18. CASE StopCancelsConsumer
  BY <1>18 DEF StopCancelsConsumer, AbortRun
<1>19. CASE StopCancelsFutures
  BY <1>19 DEF StopCancelsFutures
<1>20. CASE Crash
  BY <1>20 DEF Crash, AbortRun
<1>21. CASE UNCHANGED vars
  BY <1>21 DEF vars
<1>22. QED
  BY <1>1, <1>2, <1>3, <1>4, <1>5, <1>6, <1>7, <1>8, <1>9, <1>10, <1>11, <1>12,
     <1>13, <1>14, <1>15, <1>16, <1>17, <1>18, <1>19, <1>20, <1>21
  DEF Next, Call, Consume
-----------------------------------------------------------------------------
(***************************************************************************)
(* The inductive invariant and what follows from it.                       *)
(***************************************************************************)
LEMMA InvInit == Init => IInv
<1> SUFFICES ASSUME Init PROVE IInv
  OBVIOUS
<1>1. TypeOK /\ HandInv
  BY HandInit
<1>2. OrderInv /\ RegisterInv /\ OutcomeInv /\ RateInv
  BY QueueAssumption DEF Init, OrderInv, RegisterInv, OutcomeInv, RateInv, InList, Live
<1>3. AnswerIsOwnOutcome /\ WaiterIsQueued /\ PendingIsAccounted
  BY DEF Init, AnswerIsOwnOutcome, WaiterIsQueued, PendingIsAccounted
<1>4. QED
  BY <1>1, <1>2, <1>3 DEF IInv

LEMMA InvStep == IInv /\ [Next]_vars => IInv'
BY HandStep, OrderStep, RegisterStep, OutcomeStep, RateStep, AnswerStep, WaiterStep,
   PendingStep DEF IInv

\* The invariant of the queue, for any number of callers and any faults.
THEOREM Invariance == Spec => []IInv
BY InvInit, InvStep, PTL DEF Spec

\* No caller ever gets the outcome of somebody else's execution, or of none.
THEOREM AnswersAreOwn == Spec => []AnswerIsOwnOutcome
<1>1. IInv => AnswerIsOwnOutcome
  BY DEF IInv
<1>2. QED
  BY <1>1, Invariance, PTL

\* A caller can be left waiting for ever only through an id lost after BLPOP.
THEOREM NobodyForgotten == Spec => []WaiterIsQueued
<1>1. IInv => WaiterIsQueued
  BY DEF IInv
<1>2. QED
  BY <1>1, Invariance, PTL

\* _pending keeps no entry of a call that was answered or refused.
THEOREM PendingBounded == Spec => []PendingIsAccounted
<1>1. IInv => PendingIsAccounted
  BY DEF IInv
<1>2. QED
  BY <1>1, Invariance, PTL

-----------------------------------------------------------------------------
(***************************************************************************)
(* Action properties: what a step may never do.                            *)
(***************************************************************************)

\* Only Execute sends a request to Lardi, and it sends the one in hand.
LEMMA OnlyExecuteStarts == TypeOK /\ HandInv /\ [Next]_vars =>
  \A q \in Requests : Starts(q) => Execute /\ current = q
<1> SUFFICES ASSUME TypeOK, HandInv, [Next]_vars, NEW q \in Requests, Starts(q)
             PROVE  Execute /\ current = q
  OBVIOUS
<1> USE QueueAssumption DEF TypeOK, HandInv, Starts, Live, Working,
        callVars, consumerVars, pushVars, historyVars,
        Registered, Forgotten, Pushed, Nap, Abandoned, SettledAs, AfterBackoff
<1>1. ASSUME NEW r \in Requests, Enqueue(r) PROVE FALSE
  BY <1>1 DEF Enqueue
<1>2. ASSUME NEW r \in Requests, LlenReply(r) PROVE FALSE
  BY <1>2 DEF LlenReply
<1>3. ASSUME NEW r \in Requests, RpushApplied(r) PROVE FALSE
  BY <1>3 DEF RpushApplied
<1>4. ASSUME NEW r \in Requests, RpushReply(r) PROVE FALSE
  BY <1>4 DEF RpushReply
<1>5. ASSUME NEW r \in Requests, EnqueueFails(r) PROVE FALSE
  BY <1>5 DEF EnqueueFails
<1>6. ASSUME NEW r \in Requests, EnqueueReturns(r) PROVE FALSE
  BY <1>6 DEF EnqueueReturns
<1>7. ASSUME NEW r \in Requests, CallerCancelled(r) PROVE FALSE
  BY <1>7 DEF CallerCancelled
<1>8. ASSUME Start PROVE FALSE
  BY <1>8 DEF Start
<1>9. ASSUME BlpopServed PROVE FALSE
  BY <1>9 DEF BlpopServed
<1>10. ASSUME TakeRequest PROVE FALSE
  BY <1>10 DEF TakeRequest
<1>11. ASSUME DiscardUnknown PROVE FALSE
  BY <1>11 DEF DiscardUnknown
<1>12. ASSUME BlpopFails PROVE FALSE
  BY <1>12 DEF BlpopFails
<1>13. ASSUME BackoffOver PROVE FALSE
  BY <1>13 DEF BackoffOver
<1>14. ASSUME SkipCancelled PROVE FALSE
  BY <1>14 DEF SkipCancelled
<1>15. CASE Execute
  BY <1>15 DEF Execute
<1>16. ASSUME Finish PROVE FALSE
  BY <1>16 DEF Finish, Settle
<1>17. ASSUME Tick PROVE FALSE
  BY <1>17 DEF Tick
<1>18. ASSUME StopCancelsConsumer PROVE FALSE
  BY <1>18 DEF StopCancelsConsumer, AbortRun
<1>19. ASSUME StopCancelsFutures PROVE FALSE
  BY <1>19 DEF StopCancelsFutures
<1>20. ASSUME Crash PROVE FALSE
  BY <1>20 DEF Crash, AbortRun
<1>21. ASSUME UNCHANGED vars PROVE FALSE
  BY <1>21 DEF vars
<1>22. QED
  BY <1>1, <1>2, <1>3, <1>4, <1>5, <1>6, <1>7, <1>8, <1>9, <1>10, <1>11, <1>12,
     <1>13, <1>14, <1>15, <1>16, <1>17, <1>18, <1>19, <1>20, <1>21
  DEF Next, Call, Consume

LEMMA FifoStep == IInv /\ [Next]_vars =>
  [\A r \in Requests : Starts(r) => ran[r] = "no" /\ pushNo[r] > lastStarted]_vars
<1> SUFFICES ASSUME IInv, [Next]_vars, NEW r \in Requests, Starts(r)
             PROVE  ran[r] = "no" /\ pushNo[r] > lastStarted
  OBVIOUS
<1>1. Execute /\ current = r
  BY OnlyExecuteStarts DEF IInv
<1>2. QED
  BY <1>1, QueueAssumption DEF Execute, IInv, TypeOK, HandInv, OrderInv

\* Requests are sent in the order Redis accepted them and never twice.
THEOREM SentInOrder == Spec => FifoAtMostOnce
BY Invariance, FifoStep, PTL DEF Spec, FifoAtMostOnce

LEMMA RateLimitStep == IInv /\ [Next]_vars =>
  [(\E r \in Requests : Starts(r)) => quiet >= MinInterval]_vars
<1> SUFFICES ASSUME IInv, [Next]_vars, NEW r \in Requests, Starts(r)
             PROVE  quiet >= MinInterval
  OBVIOUS
<1>1. Execute
  BY OnlyExecuteStarts DEF IInv
<1>2. QED
  BY <1>1, QueueAssumption DEF Execute, IInv, TypeOK, RateInv

\* Lardi gets its pause before every request, restarts included.
THEOREM PauseKept == Spec => RateLimited
BY Invariance, RateLimitStep, PTL DEF Spec, RateLimited

LEMMA CancelledStep == IInv /\ [Next]_vars =>
  [\A r \in Requests : Starts(r) => future[r] # "cancelled"]_vars
<1> SUFFICES ASSUME IInv, [Next]_vars, NEW r \in Requests, Starts(r)
             PROVE  future[r] # "cancelled"
  OBVIOUS
<1>1. Execute /\ current = r
  BY OnlyExecuteStarts DEF IInv
<1>2. QED
  BY <1>1 DEF Execute, Abandoned

\* A request given up before its turn is not sent.
THEOREM CancelledStaysUnsent == Spec => CancelledNeverSent
BY Invariance, CancelledStep, PTL DEF Spec, CancelledNeverSent

LEMMA DiscardStep == IInv /\ [Next]_vars =>
  [consumer = "popped" /\ consumer' = "blpop" => caller[current] \notin Live]_vars
<1> SUFFICES ASSUME IInv, [Next]_vars, consumer = "popped", consumer' = "blpop"
             PROVE  caller[current] \notin Live
  OBVIOUS
<1> USE QueueAssumption DEF IInv, TypeOK, HandInv, RegisterInv, InList, Live, Working,
        callVars, consumerVars, pushVars, historyVars,
        Registered, Forgotten, Pushed, Nap, Abandoned, SettledAs, AfterBackoff
<1>1. ASSUME NEW r \in Requests, Enqueue(r) PROVE FALSE
  BY <1>1 DEF Enqueue
<1>2. ASSUME NEW r \in Requests, LlenReply(r) PROVE FALSE
  BY <1>2 DEF LlenReply
<1>3. ASSUME NEW r \in Requests, RpushApplied(r) PROVE FALSE
  BY <1>3 DEF RpushApplied
<1>4. ASSUME NEW r \in Requests, RpushReply(r) PROVE FALSE
  BY <1>4 DEF RpushReply
<1>5. ASSUME NEW r \in Requests, EnqueueFails(r) PROVE FALSE
  BY <1>5 DEF EnqueueFails
<1>6. ASSUME NEW r \in Requests, EnqueueReturns(r) PROVE FALSE
  BY <1>6 DEF EnqueueReturns
<1>7. ASSUME NEW r \in Requests, CallerCancelled(r) PROVE FALSE
  BY <1>7 DEF CallerCancelled
<1>8. ASSUME Start PROVE FALSE
  BY <1>8 DEF Start
<1>9. ASSUME BlpopServed PROVE FALSE
  BY <1>9 DEF BlpopServed
<1>10. ASSUME TakeRequest PROVE FALSE
  BY <1>10 DEF TakeRequest
<1>11. CASE DiscardUnknown
  BY <1>11 DEF DiscardUnknown
<1>12. ASSUME BlpopFails PROVE FALSE
  BY <1>12 DEF BlpopFails
<1>13. ASSUME BackoffOver PROVE FALSE
  BY <1>13 DEF BackoffOver
<1>14. ASSUME SkipCancelled PROVE FALSE
  BY <1>14 DEF SkipCancelled
<1>15. ASSUME Execute PROVE FALSE
  BY <1>15 DEF Execute
<1>16. ASSUME Finish PROVE FALSE
  BY <1>16 DEF Finish, Settle
<1>17. ASSUME Tick PROVE FALSE
  BY <1>17 DEF Tick
<1>18. ASSUME StopCancelsConsumer PROVE FALSE
  BY <1>18 DEF StopCancelsConsumer, AbortRun
<1>19. ASSUME StopCancelsFutures PROVE FALSE
  BY <1>19 DEF StopCancelsFutures
<1>20. ASSUME Crash PROVE FALSE
  BY <1>20 DEF Crash, AbortRun
<1>21. ASSUME UNCHANGED vars PROVE FALSE
  BY <1>21 DEF vars
<1>22. QED
  BY <1>1, <1>2, <1>3, <1>4, <1>5, <1>6, <1>7, <1>8, <1>9, <1>10, <1>11, <1>12,
     <1>13, <1>14, <1>15, <1>16, <1>17, <1>18, <1>19, <1>20, <1>21
  DEF Next, Call, Consume

\* The consumer never throws away a request somebody waits for.
THEOREM WaitersNotDiscarded == Spec => OnlyDeadIdsDiscarded
BY Invariance, DiscardStep, PTL DEF Spec, OnlyDeadIdsDiscarded
-----------------------------------------------------------------------------
(***************************************************************************)
(* LardiQueue implements QueueContract.                                    *)
(***************************************************************************)
LEMMA ContractInit == Init => Contract!CInit
BY DEF Init, Contract!CInit, Live

LEMMA ContractStep == IInv /\ [Next]_vars => [Contract!CNext]_Contract!cvars
<1> SUFFICES ASSUME IInv, [Next]_vars
             PROVE  Contract!CNext \/ UNCHANGED Contract!cvars
  OBVIOUS
<1> USE DEF IInv, TypeOK, HandInv, Live, Finished, Working, callVars, consumerVars,
        pushVars, historyVars,
        Registered, Forgotten, Pushed, Nap, Abandoned, SettledAs, AfterBackoff
<1>1. ASSUME NEW r \in Requests, Enqueue(r) PROVE Contract!Submit(r)
  BY <1>1 DEF Enqueue, Contract!Submit
<1>2. ASSUME NEW r \in Requests, LlenReply(r) PROVE UNCHANGED Contract!cvars
  BY <1>2 DEF LlenReply, Contract!cvars
<1>3. ASSUME NEW r \in Requests, RpushApplied(r) PROVE UNCHANGED Contract!cvars
  BY <1>3 DEF RpushApplied, Contract!cvars
<1>4. ASSUME NEW r \in Requests, RpushReply(r) PROVE UNCHANGED Contract!cvars
  BY <1>4 DEF RpushReply, Contract!cvars
<1>5. ASSUME NEW r \in Requests, EnqueueFails(r) PROVE Contract!GiveUp(r)
  BY <1>5 DEF EnqueueFails, Contract!GiveUp
<1>6. ASSUME NEW r \in Requests, EnqueueReturns(r)
      PROVE  Contract!Answer(r) \/ Contract!GiveUp(r)
  <2>1. CASE future[r] = "result"
    BY <1>6, <2>1 DEF EnqueueReturns, OutcomeInv, Contract!Answer
  <2>2. CASE future[r] = "exception"
    BY <1>6, <2>2 DEF EnqueueReturns, OutcomeInv, Contract!Answer
  <2>3. CASE future[r] = "cancelled"
    BY <1>6, <2>3 DEF EnqueueReturns, Contract!GiveUp
  <2>4. QED
    BY <1>6, <2>1, <2>2, <2>3 DEF EnqueueReturns
<1>7. ASSUME NEW r \in Requests, CallerCancelled(r) PROVE Contract!GiveUp(r)
  BY <1>7 DEF CallerCancelled, Contract!GiveUp
<1>8. ASSUME Start PROVE UNCHANGED Contract!cvars
  BY <1>8 DEF Start, Contract!cvars
<1>9. ASSUME BlpopServed PROVE UNCHANGED Contract!cvars
  BY <1>9 DEF BlpopServed, Contract!cvars
<1>10. ASSUME TakeRequest PROVE UNCHANGED Contract!cvars
  BY <1>10 DEF TakeRequest, Contract!cvars
<1>11. ASSUME DiscardUnknown PROVE UNCHANGED Contract!cvars
  BY <1>11 DEF DiscardUnknown, Contract!cvars
<1>12. ASSUME BlpopFails PROVE UNCHANGED Contract!cvars
  BY <1>12 DEF BlpopFails, Contract!cvars
<1>13. ASSUME BackoffOver PROVE UNCHANGED Contract!cvars
  BY <1>13 DEF BackoffOver, Contract!cvars
<1>14. ASSUME SkipCancelled PROVE UNCHANGED Contract!cvars
  BY <1>14 DEF SkipCancelled, Contract!cvars
<1>15. ASSUME Tick PROVE UNCHANGED Contract!cvars
  BY <1>15 DEF Tick, Contract!cvars
<1>16. ASSUME StopCancelsFutures PROVE UNCHANGED Contract!cvars
  BY <1>16 DEF StopCancelsFutures, Contract!cvars
<1>17. ASSUME Execute PROVE \E r \in Requests : Contract!Begin(r)
  <2>1. current \in Requests /\ ran[current] = "no"
          /\ caller[current] \notin {"new", "dropped"}
    BY <1>17, QueueAssumption DEF Execute, OrderInv, RegisterInv
  <2>2. \A q \in Requests : ran[q] # "running"
    BY <1>17 DEF Execute
  <2>3. Contract!Begin(current)
    BY <1>17, <2>1, <2>2 DEF Execute, Contract!Begin
  <2>4. QED
    BY <2>1, <2>3
<1>18. ASSUME Finish PROVE \E r \in Requests : Contract!End(r)
  <2>1. current \in Requests /\ ran[current] = "running"
    BY <1>18, QueueAssumption DEF Finish, Settle
  <2>2. Contract!End(current)
    BY <1>18, <2>1 DEF Finish, Settle, Contract!End
  <2>3. QED
    BY <2>1, <2>2
<1>19. ASSUME StopCancelsConsumer
       PROVE  (\E r \in Requests : Contract!End(r)) \/ UNCHANGED Contract!cvars
  <2>1. CASE consumer = "running"
    <3>1. current \in Requests /\ ran[current] = "running"
      BY <2>1, QueueAssumption
    <3>2. Contract!End(current)
      BY <1>19, <2>1, <3>1 DEF StopCancelsConsumer, AbortRun, Contract!End
    <3>3. QED
      BY <3>1, <3>2
  <2>2. CASE consumer # "running"
    BY <1>19, <2>2 DEF StopCancelsConsumer, AbortRun, Contract!cvars
  <2>3. QED
    BY <2>1, <2>2
<1>20. ASSUME Crash PROVE Contract!Die
  <2>1. ran' = [r \in Requests |-> IF ran[r] = "running" THEN "aborted" ELSE ran[r]]
    BY <1>20, QueueAssumption DEF Crash, AbortRun
  <2>2. QED
    BY <1>20, <2>1 DEF Crash, Contract!Die
<1>21. ASSUME UNCHANGED vars PROVE UNCHANGED Contract!cvars
  BY <1>21 DEF vars, Contract!cvars
<1>22. QED
  BY <1>1, <1>2, <1>3, <1>4, <1>5, <1>6, <1>7, <1>8, <1>9, <1>10, <1>11, <1>12,
     <1>13, <1>14, <1>15, <1>16, <1>17, <1>18, <1>19, <1>20, <1>21
  DEF Next, Call, Consume, Contract!CNext

\* The queue, with its list, dictionary, Futures, stop and restarts, does what
\* QueueContract promises to each caller.
THEOREM Refinement == Spec => ImplementsContract
BY ContractInit, ContractStep, Invariance, PTL
DEF Spec, ImplementsContract, Contract!CSpec
=============================================================================
