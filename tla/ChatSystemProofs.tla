-------------------------- MODULE ChatSystemProofs --------------------------
(***************************************************************************)
(* Proofs about ChatSystem for every set of tabs and chats, every number   *)
(* of messages and tokens, every size of wire and history and every set of *)
(* faults.                                                                 *)
(*                                                                         *)
(* What is said of one message is changed by the steps of its own handler  *)
(* and its own run; Onward is what those steps promise to everything else. *)
(***************************************************************************)
EXTENDS ChatSystem, FiniteSetTheorems, WellFoundedInduction, TLAPS

CallType == [at : Working \cup {"idle", "over"}, chat : Chats \cup {NoChat},
             online : BOOLEAN, status : Settled, content : 0..MaxTokens,
             history : SUBSET ({"user", "assistant"} \X Messages)]
AgentType == [at : Running \cup {"none", "over"}, sent : 0..MaxTokens]
AnswerType == [status : Settled \cup {"none", "streaming"}, content : 0..MaxTokens]

Leading == {"idle", "check", "store", "history", "connect"}
Stored == {"history", "connect", "relay", "persist"}

\* Before the relay nothing has been said; a browser that left early has hurt its message.
Begun(m) ==
  /\ call[m].at \in Leading => /\ call[m].status = "incomplete" /\ call[m].content = 0
                               /\ agent[m].at = "none" /\ agent[m].sent = 0
  /\ call[m].at # "idle" => call[m].chat \in Chats
  /\ call[m].at \in Working /\ ~call[m].online => m \in hurt
  /\ call[m].at \in {"idle", "over"} => ~call[m].online
  /\ call[m].at = "idle" => call[m].history = {}
  /\ call[m].at # "relay" => wire[m] = << >>

TokensFirst(s, k) == k \in 0..Len(s) /\ \A i \in DOMAIN s : s[i] = "token" <=> i <= k

\* What the agent has sent is what the gateway has counted and what is on its way, and no
\* token follows another event.
Counted(m) ==
  /\ call[m].at = "relay" =>
       /\ agent[m].at \in Running \cup {"over"}
       /\ \E k \in 0..MaxTokens :
            /\ TokensFirst(wire[m], k) /\ agent[m].sent = call[m].content + k
            /\ agent[m].at \in {"lock", "run"} => k = Len(wire[m])
       /\ agent[m].at \in {"lock", "run"} => call[m].status = "incomplete"
  /\ call[m].at \in {"relay", "persist"} /\ call[m].status = "complete" =>
       call[m].content = agent[m].sent

\* The row of the answer follows the handler.
Answered(m) ==
  /\ call[m].at \in {"idle", "check", "store"} => answer[m].status = "none"
  /\ call[m].at \in Stored => answer[m].status = "streaming"
  /\ call[m].at = "over" /\ answer[m].status = "streaming" => m \in hurt
  /\ answer[m].status = "complete" => answer[m].content = agent[m].sent

Local(m) ==
  /\ call[m] \in CallType /\ agent[m] \in AgentType /\ wire[m] \in Seq(Events)
  /\ answer[m] \in AnswerType
  /\ Begun(m) /\ Counted(m) /\ Answered(m)

\* The agent adds no token.
Quiet(m) == /\ call[m].at \in {"relay", "persist", "over"}
            /\ call[m].at = "relay" => agent[m].at \in {"unlock", "over"}

\* What a step promises about a message.
Onward(m) ==
  /\ call[m].at # "idle" => call'[m].at # "idle" /\ call'[m].chat = call[m].chat
  /\ call[m].at \in Stored \cup {"over"} => call'[m].at \in Stored \cup {"over"}
  /\ answer[m].status \in Settled => answer'[m] = answer[m]
  /\ m \in hurt => m \in hurt'
  /\ Quiet(m) => agent'[m].sent = agent[m].sent /\ Quiet(m)'
  /\ call[m].at \in {"relay", "persist"} /\ call[m].status = "complete" =>
       \/ /\ call'[m].at \in {"relay", "persist"}
          /\ call'[m].status = "complete" /\ call'[m].content = call[m].content
       \/ answer'[m] = [status |-> "complete", content |-> call[m].content]
       \/ m \in hurt'
  /\ \/ call'[m].history = {} /\ call'[m].at # "connect"
     \/ /\ call'[m].history = call[m].history
        /\ call'[m].at = "connect" => call[m].at = "connect"
     \/ ReadHistory(m)

\* A step that does not touch the message.
Same(m) == /\ call'[m] = call[m] /\ agent'[m] = agent[m] /\ wire'[m] = wire[m]
           /\ answer'[m] = answer[m] /\ (m \in hurt => m \in hurt')

\* The four functions are functions.
Shape == /\ call = [m \in Messages |-> call[m]] /\ agent = [m \in Messages |-> agent[m]]
         /\ wire = [m \in Messages |-> wire[m]] /\ answer = [m \in Messages |-> answer[m]]

StreamInv == Shape /\ \A m \in Messages : Local(m)

\* A message has one row, from its insertion on.
RowsInv ==
  /\ \A i \in DOMAIN rows : call[rows[i]].at \in Stored \cup {"over"}
  /\ \A i, j \in DOMAIN rows : rows[i] = rows[j] => i = j

\* HistoryIsSettled; what a history holds has been sent.
HistoryInv ==
  /\ HistoryIsSettled
  /\ \A m \in Messages : \A e \in call[m].history : call[e[2]].at # "idle"

\* What follows the end of the agent's stream has been said before it.
Final == {"done", "error"}
Told(s) == \E j \in DOMAIN s : s[j] \in Final
EofIsLast(s) == \A i \in DOMAIN s : s[i] = "eof" => \E j \in DOMAIN s : j < i /\ s[j] \in Final

\* A reader has read what the gateway has counted, and will be told how its stream ends.
Reading(m) ==
  IF m \in readers
  THEN /\ call[m].at \in Working \ {"persist"} /\ call[m].online
       /\ received[m] = call[m].content
       /\ streamingContent[TabOfMessage(m)] <= received[m]
       /\ EofIsLast(wire[m])
       /\ agent[m].at = "unlock" => Told(wire[m])
  ELSE received[m] = 0

TabInv == \A t \in Tabs : chatId[t] # NoId => TabOf(chatId[t]) = t

StoreInv == StoreTypeOK /\ TabInv /\ OneReader /\ \A m \in Messages : Reading(m)

\* ShownIsStored; and the agent adds nothing to an answer that a tab shows as finished.
Backed(m, content) ==
  /\ Quiet(m) /\ content = agent[m].sent
  /\ \/ answer[m] = [status |-> "complete", content |-> content]
     \/ /\ call[m].at \in {"relay", "persist"}
        /\ call[m].status = "complete" /\ call[m].content = content
     \/ m \in hurt

ShownInv ==
  \A t \in Tabs : \A i \in DOMAIN messages[t] :
    messages[t][i].role = "assistant" => Backed(messages[t][i].of, messages[t][i].content)

\* The other types of ChatStream.
RestInv ==
  /\ busy \in BOOLEAN /\ rows \in Seq(Messages) /\ hurt \subseteq Messages
  /\ chatRow \in [Chats -> {"none", "asked", "answered", "there", "lost"}]
-----------------------------------------------------------------------------
LEMMA Untouched ==
  ASSUME NEW m \in Messages, Local(m), Same(m)
  PROVE  Local(m)' /\ Onward(m)
<1>1. /\ call[m]' = call[m] /\ agent[m]' = agent[m] /\ wire[m]' = wire[m]
      /\ answer[m]' = answer[m] /\ (m \in hurt => m \in hurt')
  BY DEF Same
<1>2. CallType' = CallType /\ AgentType' = AgentType /\ AnswerType' = AnswerType
  BY DEF CallType, AgentType, AnswerType
<1>3. Begun(m)' /\ Answered(m)'
  BY <1>1 DEF Local, Begun, Answered
<1>4. Counted(m)'
  BY <1>1 DEF Local, Counted, TokensFirst
<1>5. Local(m)'
  BY <1>1, <1>2, <1>3, <1>4, Zenon DEF Local
<1>6. Onward(m)
  BY <1>1, Zenon DEF Onward, Quiet
<1> QED
  BY <1>5, <1>6

\* A step of one message.
LEMMA OneMoves ==
  ASSUME StreamInv, NEW m \in Messages,
         Shape', Local(m)', Onward(m), \A n \in Messages \ {m} : Same(n)
  PROVE  StreamInv' /\ \A n \in Messages : Onward(n)
<1>1. ASSUME NEW n \in Messages PROVE Local(n)' /\ Onward(n)
  <2>1. CASE n = m
    BY <2>1, Zenon
  <2>2. CASE n # m
    <3>1. Local(n) /\ Same(n)
      BY <2>2, Zenon DEF StreamInv
    <3> QED
      BY <3>1, Untouched, Zenon
  <2> QED
    BY <2>1, <2>2
<1>2. Messages' = Messages
  BY DEF Messages
<1> QED
  BY <1>1, <1>2, Zenon DEF StreamInv
-----------------------------------------------------------------------------
(***************************************************************************)
(* The wire.                                                               *)
(***************************************************************************)
LEMMA Popped ==
  ASSUME NEW s \in Seq(Events), s # << >>, NEW k \in Nat, TokensFirst(s, k)
  PROVE  /\ Head(s) \in Events /\ Tail(s) \in Seq(Events) /\ Len(Tail(s)) = Len(s) - 1
         /\ Head(s) = "token" => k > 0 /\ TokensFirst(Tail(s), k - 1)
         /\ Head(s) # "token" => k = 0 /\ TokensFirst(Tail(s), 0)
<1>1. /\ Len(s) \in Nat \ {0} /\ Head(s) = s[1] /\ 1 \in DOMAIN s /\ s[1] \in Events
      /\ Tail(s) \in Seq(Events) /\ Len(Tail(s)) = Len(s) - 1
      /\ DOMAIN Tail(s) = 1..(Len(s) - 1)
      /\ \A i \in DOMAIN Tail(s) : i \in Nat /\ Tail(s)[i] = s[i + 1] /\ i + 1 \in DOMAIN s
  OBVIOUS
<1>2. (s[1] = "token" <=> 1 <= k) /\ k <= Len(s)
  BY <1>1 DEF TokensFirst
<1>3. ASSUME NEW i \in DOMAIN Tail(s) PROVE Tail(s)[i] = "token" <=> i + 1 <= k
  BY <1>1, <1>3 DEF TokensFirst
<1>4. CASE Head(s) = "token"
  <2>1. k > 0 /\ k - 1 \in 0..Len(Tail(s))
    BY <1>1, <1>2, <1>4
  <2>2. \A i \in DOMAIN Tail(s) : Tail(s)[i] = "token" <=> i <= k - 1
    BY <1>1, <1>3
  <2> QED
    BY <1>1, <1>4, <2>1, <2>2 DEF TokensFirst
<1>5. CASE Head(s) # "token"
  <2>1. k = 0
    BY <1>1, <1>2, <1>5
  <2>2. \A i \in DOMAIN Tail(s) : Tail(s)[i] = "token" <=> i <= 0
    BY <1>1, <1>3, <2>1
  <2>3. 0 \in 0..Len(Tail(s))
    BY <1>1
  <2> QED
    BY <1>1, <1>5, <2>1, <2>2, <2>3 DEF TokensFirst
<1> QED
  BY <1>4, <1>5

LEMMA Pushed ==
  ASSUME NEW s \in Seq(Events), NEW e \in Events, NEW k \in Nat, TokensFirst(s, k)
  PROVE  /\ s \o <<e>> \in Seq(Events) /\ Len(s \o <<e>>) = Len(s) + 1
         /\ s \o <<e>> = Append(s, e)
         /\ e # "token" => TokensFirst(s \o <<e>>, k)
         /\ e = "token" /\ k = Len(s) => TokensFirst(s \o <<e>>, k + 1)
<1> DEFINE r == s \o <<e>>
<1>1. /\ r \in Seq(Events) /\ Len(r) = Len(s) + 1 /\ Len(s) \in Nat /\ r = Append(s, e)
      /\ DOMAIN r = 1..(Len(s) + 1) /\ DOMAIN s = 1..Len(s)
      /\ \A i \in DOMAIN s : r[i] = s[i]
      /\ r[Len(s) + 1] = e
  OBVIOUS
<1>2. k \in 0..Len(s) /\ \A i \in DOMAIN s : s[i] = "token" <=> i <= k
  BY DEF TokensFirst
<1> HIDE DEF r
<1>3. ASSUME NEW i \in DOMAIN r PROVE i \in DOMAIN s \/ i = Len(s) + 1
  BY <1>1
<1>4. CASE e # "token"
  <2>1. ASSUME NEW i \in DOMAIN r PROVE r[i] = "token" <=> i <= k
    <3>1. CASE i \in DOMAIN s
      BY <1>1, <1>2, <3>1
    <3>2. CASE i = Len(s) + 1
      BY <1>1, <1>2, <1>4, <3>2
    <3> QED
      BY <1>3, <3>1, <3>2
  <2>2. k \in 0..Len(r)
    BY <1>1, <1>2
  <2>3. TokensFirst(r, k)
    BY <2>1, <2>2 DEF TokensFirst
  <2> QED
    BY <1>1, <1>4, <2>3 DEF r
<1>5. CASE e = "token" /\ k = Len(s)
  <2>1. ASSUME NEW i \in DOMAIN r PROVE r[i] = "token" <=> i <= k + 1
    <3>1. CASE i \in DOMAIN s
      BY <1>1, <1>2, <1>5, <3>1
    <3>2. CASE i = Len(s) + 1
      BY <1>1, <1>2, <1>5, <3>2
    <3> QED
      BY <1>3, <3>1, <3>2
  <2> QED
    BY <1>1, <1>2, <1>5, <2>1 DEF TokensFirst, r
<1>6. CASE e = "token" /\ k # Len(s)
  BY <1>1, <1>6 DEF r
<1> QED
  BY <1>4, <1>5, <1>6
-----------------------------------------------------------------------------
(***************************************************************************)
(* Updates.                                                                *)
(***************************************************************************)
LEMMA Updated ==
  ASSUME NEW S, NEW f, f = [y \in S |-> f[y]], NEW x \in S, NEW v, NEW g,
         g = [f EXCEPT ![x] = v]
  PROVE  g[x] = v /\ (\A y \in S \ {x} : g[y] = f[y]) /\ g = [y \in S |-> g[y]]
OBVIOUS

LEMMA CallFacts ==
  ASSUME NEW c \in CallType
  PROVE  /\ c.at \in Working \cup {"idle", "over"} /\ c.chat \in Chats \cup {NoChat}
         /\ c.online \in BOOLEAN /\ c.status \in Settled /\ c.content \in 0..MaxTokens
         /\ c.history \subseteq {"user", "assistant"} \X Messages
BY DEF CallType

LEMMA Going ==
  ASSUME StreamInv, NEW m \in Messages, NEW where \in Working, Goes(m, where)
  PROVE  /\ call'[m].at = where /\ call'[m].chat = call[m].chat
         /\ call'[m].online = call[m].online /\ call'[m].status = call[m].status
         /\ call'[m].content = call[m].content /\ call'[m].history = call[m].history
         /\ call'[m] \in CallType /\ (\A n \in Messages \ {m} : call'[n] = call[n])
         /\ call' = [n \in Messages |-> call'[n]]
<1> DEFINE v == [call[m] EXCEPT !.at = where]
<1>1. call[m] \in CallType
  BY DEF StreamInv, Local
<1>2. call' = [call EXCEPT ![m] = v]
  BY DEF Goes
<1>3. call'[m] = v /\ (\A n \in Messages \ {m} : call'[n] = call[n])
      /\ call' = [n \in Messages |-> call'[n]]
  <2> HIDE DEF v
  <2> QED
    BY <1>2, Updated DEF StreamInv, Shape
<1>4. v \in CallType
  BY <1>1 DEF CallType
<1>5. /\ v.at = where /\ v.chat = call[m].chat /\ v.online = call[m].online
      /\ v.status = call[m].status /\ v.content = call[m].content
      /\ v.history = call[m].history
  BY <1>1 DEF CallType
<1> QED
  BY <1>3, <1>4, <1>5, Zenon

LEMMA Ended ==
  ASSUME NEW m \in Messages, call[m] \in CallType
  PROVE  /\ OverCall(m) \in CallType /\ OverCall(m).at = "over"
         /\ OverCall(m).chat = call[m].chat /\ OverCall(m).online = FALSE
         /\ OverCall(m).status = "incomplete" /\ OverCall(m).content = 0
         /\ OverCall(m).history = {}
<1>1. call[m].chat \in Chats \cup {NoChat} /\ 0 \in 0..MaxTokens
  BY IdsAssumption DEF CallType
<1>2. Idle \in [at : {"idle"}, chat : {NoChat}, online : {FALSE}, status : {"incomplete"},
                content : {0}, history : {{}}]
  BY DEF Idle, DefaultStatus
<1>3. OverCall(m) \in [at : {"over"}, chat : {call[m].chat}, online : {FALSE},
                       status : {"incomplete"}, content : {0}, history : {{}}]
  BY <1>2 DEF OverCall
<1>4. OverCall(m) \in CallType
  BY <1>1, <1>3 DEF CallType, Settled
<1> QED
  BY <1>3, <1>4

LEMMA Ending ==
  ASSUME StreamInv, NEW m \in Messages, Ends(m)
  PROVE  /\ call'[m].at = "over" /\ call'[m].chat = call[m].chat
         /\ call'[m].online = FALSE /\ call'[m].status = "incomplete"
         /\ call'[m].content = 0 /\ call'[m].history = {}
         /\ call'[m] \in CallType /\ (\A n \in Messages \ {m} : call'[n] = call[n])
         /\ call' = [n \in Messages |-> call'[n]]
<1> DEFINE v == OverCall(m)
<1>1. call[m] \in CallType
  BY DEF StreamInv, Local
<1>2. call' = [call EXCEPT ![m] = v]
  BY DEF Ends
<1> HIDE DEF v
<1>3. call'[m] = v /\ (\A n \in Messages \ {m} : call'[n] = call[n])
      /\ call' = [n \in Messages |-> call'[n]]
  BY <1>2, Updated DEF StreamInv, Shape
<1> QED
  BY <1>1, <1>3, Ended DEF v

LEMMA Moving ==
  ASSUME StreamInv, NEW m \in Messages, NEW where \in Running \cup {"over"}, Moves(m, where)
  PROVE  /\ agent'[m].at = where /\ agent'[m].sent = agent[m].sent
         /\ agent'[m] \in AgentType /\ (\A n \in Messages \ {m} : agent'[n] = agent[n])
         /\ agent' = [n \in Messages |-> agent'[n]]
<1> DEFINE v == [agent[m] EXCEPT !.at = where]
<1>1. agent[m] \in AgentType
  BY DEF StreamInv, Local
<1>2. agent' = [agent EXCEPT ![m] = v]
  BY DEF Moves
<1>3. agent'[m] = v /\ (\A n \in Messages \ {m} : agent'[n] = agent[n])
      /\ agent' = [n \in Messages |-> agent'[n]]
  <2> HIDE DEF v
  <2> QED
    BY <1>2, Updated DEF StreamInv, Shape
<1>4. v \in AgentType /\ v.at = where /\ v.sent = agent[m].sent
  BY <1>1 DEF AgentType
<1> QED
  BY <1>3, <1>4, Zenon

LEMMA Yielding ==
  ASSUME StreamInv, NEW m \in Messages, NEW events, Yields(m, events)
  PROVE  /\ wire'[m] = wire[m] \o events /\ (\A n \in Messages \ {m} : wire'[n] = wire[n])
         /\ wire' = [n \in Messages |-> wire'[n]]
<1> DEFINE v == wire[m] \o events
<1>1. wire' = [wire EXCEPT ![m] = v]
  BY DEF Yields
<1> HIDE DEF v
<1>2. wire'[m] = v /\ (\A n \in Messages \ {m} : wire'[n] = wire[n])
      /\ wire' = [n \in Messages |-> wire'[n]]
  BY <1>1, Updated DEF StreamInv, Shape
<1> QED
  BY <1>2 DEF v
-----------------------------------------------------------------------------
(***************************************************************************)
(* The steps of one message.                                               *)
(***************************************************************************)
LEMMA StepOf ==
  ASSUME StreamInv, NEW m \in Messages,
         call' = [n \in Messages |-> call'[n]], agent' = [n \in Messages |-> agent'[n]],
         wire' = [n \in Messages |-> wire'[n]], answer' = [n \in Messages |-> answer'[n]],
         \A n \in Messages \ {m} : /\ call'[n] = call[n] /\ agent'[n] = agent[n]
                                    /\ wire'[n] = wire[n] /\ answer'[n] = answer[n],
         hurt \subseteq hurt',
         call'[m] \in CallType, agent'[m] \in AgentType, wire'[m] \in Seq(Events),
         answer'[m] \in AnswerType,
         Begun(m)', Counted(m)', Answered(m)', Onward(m)
  PROVE  StreamInv' /\ \A n \in Messages : Onward(n)
<1>1. CallType' = CallType /\ AgentType' = AgentType /\ AnswerType' = AnswerType
  BY DEF CallType, AgentType, AnswerType
<1>2. Shape'
  <2>1. Messages' = Messages
    BY DEF Messages
  <2> QED
    BY <2>1, Zenon DEF Shape
<1>3. Local(m)'
  BY <1>1, Zenon DEF Local
<1>4. \A n \in Messages \ {m} : Same(n)
  BY DEF Same
<1> QED
  BY <1>2, <1>3, <1>4, OneMoves, Zenon

LEMMA Locals ==
  ASSUME StreamInv, NEW m \in Messages
  PROVE  /\ call[m] \in CallType /\ agent[m] \in AgentType /\ wire[m] \in Seq(Events)
         /\ answer[m] \in AnswerType
         /\ call = [n \in Messages |-> call[n]] /\ agent = [n \in Messages |-> agent[n]]
         /\ wire = [n \in Messages |-> wire[n]] /\ answer = [n \in Messages |-> answer[n]]
         /\ Begun(m) /\ Counted(m) /\ Answered(m)
BY Zenon DEF StreamInv, Local, Shape

LEMMA SendStep ==
  ASSUME StreamInv, NEW m \in Messages, NEW c \in Chats, Send(m, c)
  PROVE  StreamInv' /\ \A n \in Messages : Onward(n)
<1> DEFINE v == [Idle EXCEPT !.at = "check", !.chat = c, !.online = TRUE]
<1>1. call' = [call EXCEPT ![m] = v] /\ call[m].at = "idle"
  BY DEF Send
<1>2. UNCHANGED <<agent, wire, answer, hurt>>
  BY DEF Send, dbVars
<1>3. Idle \in [at : {"idle"}, chat : {NoChat}, online : {FALSE}, status : {"incomplete"},
                content : {0}, history : {{}}]
  BY DEF Idle, DefaultStatus
<1>4. v \in [at : {"check"}, chat : {c}, online : {TRUE}, status : {"incomplete"},
             content : {0}, history : {{}}]
  BY <1>3
<1>5. 0 \in 0..MaxTokens
  BY IdsAssumption
<1>6. v \in CallType
  BY <1>4, <1>5 DEF CallType, Settled, Working
<1>7. /\ v.at = "check" /\ v.chat = c /\ v.online = TRUE /\ v.status = "incomplete"
      /\ v.content = 0 /\ v.history = {}
  BY <1>4
<1> HIDE DEF v
<1>8. call'[m] = v /\ (\A n \in Messages \ {m} : call'[n] = call[n])
      /\ call' = [n \in Messages |-> call'[n]]
  BY <1>1, Updated DEF StreamInv, Shape
<1>9. Begun(m)' /\ Answered(m)'
  BY <1>1, <1>2, <1>7, <1>8, Locals DEF Begun, Answered, Leading, Stored, Working
<1>10. Counted(m)'
  BY <1>7, <1>8 DEF Counted
<1>11. Onward(m)
  BY <1>1, <1>2, <1>7, <1>8, Locals DEF Onward, Stored, Quiet, Settled, Answered
<1> QED
  BY <1>2, <1>6, <1>8, <1>9, <1>10, <1>11, Locals, StepOf

LEMMA AdmitStep ==
  ASSUME StreamInv, NEW m \in Messages, Admit(m)
  PROVE  StreamInv' /\ \A n \in Messages : Onward(n)
<1>1. Goes(m, "store") /\ call[m].at = "check" /\ UNCHANGED <<agent, wire, answer, hurt>>
  BY DEF Admit, dbVars
<1>2. /\ call'[m].at = "store" /\ call'[m].chat = call[m].chat
      /\ call'[m].online = call[m].online /\ call'[m].status = call[m].status
      /\ call'[m].content = call[m].content /\ call'[m].history = call[m].history
      /\ call'[m] \in CallType
      /\ \A n \in Messages \ {m} : call'[n] = call[n]
      /\ call' = [n \in Messages |-> call'[n]]
  BY <1>1, Going DEF Working
<1>3. Begun(m)' /\ Answered(m)'
  BY <1>1, <1>2, Locals DEF Begun, Answered, Leading, Stored, Working
<1>4. Counted(m)'
  BY <1>2 DEF Counted
<1>5. Onward(m)
  BY <1>1, <1>2, Locals DEF Onward, Stored, Quiet, Settled, Answered
<1> QED
  BY <1>1, <1>2, <1>3, <1>4, <1>5, Locals, StepOf

\* Every way to be over but the update of the row.
LEMMA EndStep ==
  ASSUME StreamInv, NEW m \in Messages, Ends(m), call[m].at \in Working,
         call[m].at # "relay", UNCHANGED <<agent, wire, answer>>, hurt \subseteq hurt',
         call[m].at \in {"check", "store"} \/ m \in hurt'
  PROVE  StreamInv' /\ \A n \in Messages : Onward(n)
<1>1. /\ call'[m].at = "over" /\ call'[m].chat = call[m].chat
      /\ call'[m].online = FALSE /\ call'[m].status = "incomplete"
      /\ call'[m].content = 0 /\ call'[m].history = {} /\ call'[m] \in CallType
      /\ \A n \in Messages \ {m} : call'[n] = call[n]
      /\ call' = [n \in Messages |-> call'[n]]
  BY Ending
<1>2. Begun(m)' /\ Answered(m)'
  BY <1>1, Locals DEF Begun, Answered, Leading, Stored, Working
<1>3. Counted(m)'
  BY <1>1 DEF Counted
<1>4. Onward(m)
  BY <1>1, Locals DEF Onward, Stored, Quiet, Settled, Answered, Working
<1> QED
  BY <1>1, <1>2, <1>3, <1>4, Locals, StepOf

LEMMA FailureStep ==
  ASSUME StreamInv, NEW m \in Messages,
         Refuse(m) \/ StoreFails(m) \/ HistoryFails(m) \/ PersistFails(m)
  PROVE  StreamInv' /\ \A n \in Messages : Onward(n)
<1>1. /\ Ends(m) /\ call[m].at \in Working /\ call[m].at # "relay"
      /\ UNCHANGED <<agent, wire, answer>> /\ hurt \subseteq hurt'
      /\ call[m].at \in {"check", "store"} \/ m \in hurt'
  BY DEF Refuse, StoreFails, HistoryFails, PersistFails, dbVars, Working
<1> QED
  BY <1>1, EndStep

LEMMA StoreStep ==
  ASSUME StreamInv, NEW m \in Messages, Store(m)
  PROVE  StreamInv' /\ \A n \in Messages : Onward(n)
<1> DEFINE v == [answer[m] EXCEPT !.status = "streaming"]
<1>1. /\ Goes(m, "history") /\ call[m].at = "store" /\ UNCHANGED <<agent, wire, hurt>>
      /\ answer' = [answer EXCEPT ![m] = v]
  BY DEF Store
<1>2. /\ call'[m].at = "history" /\ call'[m].chat = call[m].chat
      /\ call'[m].online = call[m].online /\ call'[m].status = call[m].status
      /\ call'[m].content = call[m].content /\ call'[m].history = call[m].history
      /\ call'[m] \in CallType
      /\ \A n \in Messages \ {m} : call'[n] = call[n]
      /\ call' = [n \in Messages |-> call'[n]]
  BY <1>1, Going DEF Working
<1>3. v \in AnswerType /\ v.status = "streaming"
  BY Locals DEF AnswerType
<1> HIDE DEF v
<1>4. answer'[m] = v /\ (\A n \in Messages \ {m} : answer'[n] = answer[n])
      /\ answer' = [n \in Messages |-> answer'[n]]
  BY <1>1, Updated, Locals
<1>5. Begun(m)' /\ Answered(m)'
  BY <1>1, <1>2, <1>3, <1>4, Locals DEF Begun, Answered, Leading, Stored, Working
<1>6. Counted(m)'
  BY <1>2 DEF Counted
<1>7. Onward(m)
  BY <1>1, <1>2, Locals DEF Onward, Stored, Quiet, Settled, Answered
<1> QED
  BY <1>1, <1>2, <1>3, <1>4, <1>5, <1>6, <1>7, Locals, StepOf

LEMMA HistoryStep ==
  ASSUME StreamInv, NEW m \in Messages, ReadHistory(m)
  PROVE  /\ StreamInv' /\ \A n \in Messages : Onward(n)
         /\ call'[m].history = History(call[m].chat) \ {<<"user", m>>}
         /\ \A n \in Messages \ {m} : call'[n] = call[n]
<1> DEFINE h == History(call[m].chat) \ {<<"user", m>>}
           v == [call[m] EXCEPT !.at = "connect", !.history = h]
<1>1. /\ call[m].at = "history" /\ UNCHANGED <<agent, wire, answer, hurt>>
      /\ call' = [call EXCEPT ![m].at = "connect", ![m].history = h]
  BY DEF ReadHistory, dbVars
<1>2. h \subseteq {"user", "assistant"} \X Messages
  BY DEF History, Entries
<1> HIDE DEF h
<1>3. call' = [call EXCEPT ![m] = v]
  BY <1>1, Locals
<1>4. v \in CallType
  BY <1>2, Locals DEF CallType, Working
<1>5. /\ v.at = "connect" /\ v.chat = call[m].chat /\ v.online = call[m].online
      /\ v.status = call[m].status /\ v.content = call[m].content /\ v.history = h
  BY Locals DEF CallType
<1> HIDE DEF v
<1>6. call'[m] = v /\ (\A n \in Messages \ {m} : call'[n] = call[n])
      /\ call' = [n \in Messages |-> call'[n]]
  BY <1>3, Updated, Locals
<1>7. Begun(m)' /\ Answered(m)'
  BY <1>1, <1>5, <1>6, Locals DEF Begun, Answered, Leading, Stored, Working
<1>8. Counted(m)'
  BY <1>5, <1>6 DEF Counted
<1>9. Onward(m)
  BY <1>1, <1>5, <1>6, Locals DEF Onward, Stored, Quiet, Settled, Answered
<1>10. StreamInv' /\ \A n \in Messages : Onward(n)
  BY <1>1, <1>4, <1>6, <1>7, <1>8, <1>9, Locals, StepOf
<1> QED
  BY <1>5, <1>6, <1>10 DEF h

LEMMA ConnectStep ==
  ASSUME StreamInv, NEW m \in Messages, Connect(m)
  PROVE  StreamInv' /\ \A n \in Messages : Onward(n)
<1> DEFINE v == [call[m] EXCEPT !.at = "relay", !.history = {}]
<1>1. /\ call[m].at = "connect" /\ UNCHANGED <<wire, answer, hurt>> /\ Moves(m, "lock")
      /\ call' = [call EXCEPT ![m].at = "relay", ![m].history = {}] /\ call[m].online
  BY DEF Connect, dbVars, Moves
<1>2. call' = [call EXCEPT ![m] = v]
  BY <1>1, Locals
<1>3. v \in CallType
  BY Locals DEF CallType, Working
<1>4. /\ v.at = "relay" /\ v.chat = call[m].chat /\ v.online = call[m].online
      /\ v.status = call[m].status /\ v.content = call[m].content /\ v.history = {}
  BY Locals DEF CallType
<1> HIDE DEF v
<1>5. call'[m] = v /\ (\A n \in Messages \ {m} : call'[n] = call[n])
      /\ call' = [n \in Messages |-> call'[n]]
  BY <1>2, Updated, Locals
<1>6. /\ agent'[m].at = "lock" /\ agent'[m].sent = agent[m].sent
      /\ agent'[m] \in AgentType /\ (\A n \in Messages \ {m} : agent'[n] = agent[n])
      /\ agent' = [n \in Messages |-> agent'[n]]
  BY <1>1, Moving DEF Running
<1>7. Begun(m)' /\ Answered(m)'
  BY <1>1, <1>4, <1>5, Locals DEF Begun, Answered, Leading, Stored, Working
<1>8. Counted(m)'
  <2>1. /\ call[m].status = "incomplete" /\ call[m].content = 0 /\ agent[m].sent = 0
        /\ wire[m] = << >>
    BY <1>1, Locals DEF Begun, Leading
  <2>2. TokensFirst(wire'[m], 0) /\ Len(wire'[m]) = 0 /\ 0 \in 0..MaxTokens
    BY <1>1, <2>1, IdsAssumption DEF TokensFirst
  <2> QED
    BY <1>4, <1>5, <1>6, <2>1, <2>2 DEF Counted, Running, TokensFirst
<1>9. Onward(m)
  BY <1>1, <1>4, <1>5, <1>6, Locals DEF Onward, Stored, Quiet, Settled, Answered
<1> QED
  BY <1>1, <1>3, <1>5, <1>6, <1>7, <1>8, <1>9, Locals, StepOf

\* One event is taken off the wire.
LEMMA Relaying ==
  ASSUME StreamInv, NEW m \in Messages, Relay(m)
  PROVE  LET e == NextEvent(m) IN
         /\ wire[m] # << >> /\ e = Head(wire[m]) /\ e \in {"token", "error", "done"}
         /\ call[m].at = "relay" /\ call'[m].at = "relay"
         /\ call'[m].chat = call[m].chat /\ call'[m].online = call[m].online
         /\ call'[m].content = Counts(m, e) /\ call'[m].status = StatusAfter(m, e)
         /\ call'[m].history = call[m].history
         /\ (\A n \in Messages \ {m} : call'[n] = call[n])
         /\ call' = [n \in Messages |-> call'[n]]
         /\ wire'[m] = Tail(wire[m]) /\ (\A n \in Messages \ {m} : wire'[n] = wire[n])
         /\ wire' = [n \in Messages |-> wire'[n]]
         /\ call[m].content \in Nat /\ agent[m].sent \in 0..MaxTokens
         /\ \E k \in 0..MaxTokens :
              /\ TokensFirst(wire[m], k) /\ agent[m].sent = call[m].content + k
              /\ agent[m].at \in {"lock", "run"} => k = Len(wire[m])
<1> DEFINE e == NextEvent(m)
           v == [call[m] EXCEPT !.content = Counts(m, e), !.status = StatusAfter(m, e)]
           w == Tail(wire[m])
<1>1. /\ call[m].at = "relay" /\ e \in {"token", "error", "done"}
      /\ wire' = [wire EXCEPT ![m] = w]
      /\ call' = [call EXCEPT ![m].content = Counts(m, e), ![m].status = StatusAfter(m, e)]
  BY DEF Relay
<1>2. wire[m] # << >> /\ e = Head(wire[m])
  BY <1>1 DEF NextEvent
<1> HIDE DEF e, w
<1>3. call' = [call EXCEPT ![m] = v]
  BY <1>1, Locals
<1>4. /\ v.at = call[m].at /\ v.chat = call[m].chat /\ v.online = call[m].online
      /\ v.status = StatusAfter(m, e) /\ v.content = Counts(m, e)
      /\ v.history = call[m].history
  BY Locals DEF CallType
<1> HIDE DEF v
<1>5. call'[m] = v /\ (\A n \in Messages \ {m} : call'[n] = call[n])
      /\ call' = [n \in Messages |-> call'[n]]
  BY <1>3, Updated, Locals
<1>6. wire'[m] = w /\ (\A n \in Messages \ {m} : wire'[n] = wire[n])
      /\ wire' = [n \in Messages |-> wire'[n]]
  BY <1>1, Updated, Locals
<1>7. call[m].content \in Nat /\ agent[m].sent \in 0..MaxTokens
  BY Locals, IdsAssumption DEF CallType, AgentType
<1>8. \E k \in 0..MaxTokens :
              /\ TokensFirst(wire[m], k) /\ agent[m].sent = call[m].content + k
              /\ agent[m].at \in {"lock", "run"} => k = Len(wire[m])
  BY <1>1, Locals, Zenon DEF Counted
<1> QED
  BY <1>1, <1>2, <1>4, <1>5, <1>6, <1>7, <1>8, Zenon DEF e, w

LEMMA RelayStep ==
  ASSUME StreamInv, NEW m \in Messages, Relay(m)
  PROVE  StreamInv' /\ \A n \in Messages : Onward(n)
<1> DEFINE e == NextEvent(m)
<1>1. /\ wire[m] # << >> /\ e = Head(wire[m]) /\ e \in {"token", "error", "done"}
      /\ call[m].at = "relay" /\ call'[m].at = "relay"
      /\ call'[m].chat = call[m].chat /\ call'[m].online = call[m].online
      /\ call'[m].content = Counts(m, e) /\ call'[m].status = StatusAfter(m, e)
      /\ call'[m].history = call[m].history
      /\ wire'[m] = Tail(wire[m])
      /\ call[m].content \in Nat /\ agent[m].sent \in 0..MaxTokens
  BY Relaying, Zenon
<1>2. PICK k \in 0..MaxTokens :
        /\ TokensFirst(wire[m], k) /\ agent[m].sent = call[m].content + k
        /\ agent[m].at \in {"lock", "run"} => k = Len(wire[m])
  BY Relaying, Zenon
<1>3. UNCHANGED <<agent, answer, hurt>> /\ k \in Nat /\ MaxTokens \in Nat
  BY IdsAssumption DEF Relay, dbVars
<1> HIDE DEF e
<1>4. /\ Head(wire[m]) \in Events /\ Tail(wire[m]) \in Seq(Events)
      /\ Len(Tail(wire[m])) = Len(wire[m]) - 1 /\ Len(wire[m]) \in Nat /\ Len(wire[m]) > 0
      /\ e = "token" => k > 0 /\ TokensFirst(Tail(wire[m]), k - 1)
      /\ e # "token" => k = 0 /\ TokensFirst(Tail(wire[m]), 0)
  <2>1. wire[m] \in Seq(Events)
    BY Locals, Zenon
  <2>2. Len(wire[m]) \in Nat /\ Len(wire[m]) > 0
    BY <1>1, <2>1
  <2> QED
    BY <1>1, <1>2, <1>3, <2>1, <2>2, Popped, Zenon
<1>5. /\ e = "token" => call'[m].content = call[m].content + 1
      /\ e # "token" => call'[m].content = call[m].content
      /\ e = "done" => call'[m].status = "complete"
      /\ e # "done" => call'[m].status = call[m].status
  BY <1>1, Zenon DEF Counts, StatusAfter
<1>6. call[m].status = "complete" => k = 0 /\ e # "token"
  BY <1>1, <1>2, <1>3, <1>4, Locals DEF Counted
<1>7. agent[m].at \in {"lock", "run"} => e = "token"
  BY <1>2, <1>3, <1>4
<1>8. call'[m] \in CallType
  <2>1. call'[m].content \in 0..MaxTokens /\ call'[m].status \in Settled
    BY <1>1, <1>2, <1>3, <1>4, <1>5, Locals, CallFacts DEF Settled
  <2>2. call' = [call EXCEPT ![m].content = Counts(m, e), ![m].status = StatusAfter(m, e)]
    BY DEF Relay, e
  <2>3. call'[m] = [call[m] EXCEPT !.content = Counts(m, e), !.status = StatusAfter(m, e)]
    BY <2>2, Locals
  <2>4. Counts(m, e) \in 0..MaxTokens /\ StatusAfter(m, e) \in Settled
    BY <1>1, <2>1, Zenon
  <2> QED
    BY <2>3, <2>4, Locals DEF CallType
<1>9. Begun(m)'
  BY <1>1, <1>3, Locals DEF Begun, Leading, Working
<1>10. Answered(m)'
  BY <1>1, <1>3, Locals DEF Answered, Stored
<1>11. Counted(m)'
  <2>1. \E j \in 0..MaxTokens :
          /\ TokensFirst(wire'[m], j) /\ agent'[m].sent = call'[m].content + j
          /\ agent'[m].at \in {"lock", "run"} => j = Len(wire'[m])
    <3>1. CASE e = "token"
      <4>1. TokensFirst(wire'[m], k - 1)
        BY <1>1, <1>4, <3>1, Zenon
      <4>2. k - 1 \in 0..MaxTokens
        BY <1>2, <1>3, <1>4, <3>1
      <4>3. agent'[m].sent = call'[m].content + (k - 1)
        <5>1. /\ agent'[m].sent = call[m].content + k
              /\ call'[m].content = call[m].content + 1
          BY <1>2, <1>3, <1>5, <3>1
        <5> QED
          BY <1>1, <1>3, <5>1
      <4>4. agent'[m].at \in {"lock", "run"} => k - 1 = Len(wire'[m])
        <5>1. Len(wire'[m]) = Len(wire[m]) - 1
          BY <1>1, <1>4
        <5>2. agent'[m].at \in {"lock", "run"} => k = Len(wire[m])
          BY <1>2, <1>3
        <5> QED
          BY <5>1, <5>2
      <4> QED
        BY <4>1, <4>2, <4>3, <4>4, Zenon
    <3>2. CASE e # "token"
      <4>1. /\ 0 \in 0..MaxTokens /\ TokensFirst(wire'[m], 0)
            /\ agent'[m].sent = call'[m].content + 0
            /\ agent'[m].at \notin {"lock", "run"}
        BY <1>1, <1>2, <1>3, <1>4, <1>5, <1>7, <3>2
      <4> QED
        BY <4>1, Zenon
    <3> QED
      BY <3>1, <3>2
  <2>2. call'[m].status = "complete" => call'[m].content = agent'[m].sent
    <3>1. e = "done" => call[m].content = agent[m].sent
      BY <1>1, <1>2, <1>4
    <3> QED
      BY <1>1, <1>3, <1>5, <1>6, <3>1, Locals DEF Counted
  <2>3. agent'[m].at \in Running \cup {"over"}
    BY <1>1, <1>3, Locals DEF Counted
  <2>4. agent'[m].at \in {"lock", "run"} => call'[m].status = "incomplete"
    BY <1>1, <1>3, <1>5, <1>7, Locals DEF Counted
  <2> QED
    BY <2>1, <2>2, <2>3, <2>4, Zenon DEF Counted, TokensFirst
<1>12. Onward(m)
  <2>1. Quiet(m) => agent'[m].sent = agent[m].sent /\ Quiet(m)'
    BY <1>1, <1>3 DEF Quiet
  <2>2. call[m].status = "complete" =>
          call'[m].status = "complete" /\ call'[m].content = call[m].content
    BY <1>5, <1>6
  <2> QED
    BY <1>1, <1>3, <2>1, <2>2 DEF Onward, Stored
<1>13. /\ \A n \in Messages \ {m} : call'[n] = call[n] /\ wire'[n] = wire[n]
       /\ call' = [n \in Messages |-> call'[n]] /\ wire' = [n \in Messages |-> wire'[n]]
  BY Relaying, Zenon
<1>14. wire'[m] \in Seq(Events)
  BY <1>1, <1>4
<1> QED
  BY <1>3, <1>8, <1>9, <1>10, <1>11, <1>12, <1>13, <1>14, Locals, StepOf

\* The stream is over, whatever ended it.
LEMMA StreamEndStep ==
  ASSUME StreamInv, NEW m \in Messages, NEW events, ConnectFails(m) \/ StreamEnds(m, events)
  PROVE  /\ StreamInv' /\ \A n \in Messages : Onward(n)
         /\ call'[m].at = "persist" /\ \A n \in Messages \ {m} : call'[n] = call[n]
<1>1. /\ Goes(m, "persist") /\ call[m].at \in {"connect", "relay"}
      /\ UNCHANGED <<agent, answer, hurt>>
  BY DEF ConnectFails, StreamEnds, dbVars
<1>2. /\ call'[m].at = "persist" /\ call'[m].chat = call[m].chat
      /\ call'[m].online = call[m].online /\ call'[m].status = call[m].status
      /\ call'[m].content = call[m].content /\ call'[m].history = call[m].history
      /\ call'[m] \in CallType
      /\ \A n \in Messages \ {m} : call'[n] = call[n]
      /\ call' = [n \in Messages |-> call'[n]]
  BY <1>1, Going DEF Working
<1>3. /\ wire'[m] = << >> /\ (\A n \in Messages \ {m} : wire'[n] = wire[n])
      /\ wire' = [n \in Messages |-> wire'[n]]
  <2>1. CASE ConnectFails(m)
    BY <2>1, Locals DEF ConnectFails, Begun
  <2>2. CASE StreamEnds(m, events)
    BY <2>2, Updated, Locals DEF StreamEnds
  <2> QED
    BY <2>1, <2>2
<1>4. Begun(m)' /\ Answered(m)'
  BY <1>1, <1>2, <1>3, Locals DEF Begun, Answered, Leading, Stored, Working
<1>5. call'[m].status = "complete" => call[m].at = "relay"
  BY <1>1, <1>2, Locals DEF Begun, Leading
<1>6. Counted(m)'
  BY <1>1, <1>2, <1>5, Locals DEF Counted
<1>7. Onward(m)
  BY <1>1, <1>2, Locals DEF Onward, Stored, Quiet
<1>8. << >> \in Seq(Events)
  OBVIOUS
<1>9. StreamInv' /\ \A n \in Messages : Onward(n)
  BY <1>1, <1>2, <1>3, <1>4, <1>6, <1>7, <1>8, Locals, StepOf
<1> QED
  BY <1>2, <1>9, Zenon

LEMMA PersistStep ==
  ASSUME StreamInv, NEW m \in Messages, Persist(m)
  PROVE  StreamInv' /\ \A n \in Messages : Onward(n)
<1> DEFINE v == [status |-> call[m].status, content |-> call[m].content]
<1>1. /\ Ends(m) /\ call[m].at = "persist" /\ UNCHANGED <<agent, wire, hurt>>
      /\ answer' = [answer EXCEPT ![m] = v]
  BY DEF Persist
<1>2. /\ call'[m].at = "over" /\ call'[m].chat = call[m].chat
      /\ call'[m].online = FALSE /\ call'[m].status = "incomplete"
      /\ call'[m].content = 0 /\ call'[m].history = {} /\ call'[m] \in CallType
      /\ \A n \in Messages \ {m} : call'[n] = call[n]
      /\ call' = [n \in Messages |-> call'[n]]
  BY <1>1, Ending
<1>3. v \in AnswerType /\ v.status \in Settled
  BY Locals, CallFacts DEF AnswerType
<1>4. v.status = "complete" => v.content = agent[m].sent
  BY <1>1, Locals DEF Counted
<1>5. answer'[m] = v /\ (\A n \in Messages \ {m} : answer'[n] = answer[n])
      /\ answer' = [n \in Messages |-> answer'[n]]
  <2> HIDE DEF v
  <2> QED
    BY <1>1, Updated, Locals
<1>6. Begun(m)'
  BY <1>1, <1>2, Locals DEF Begun, Leading, Working
<1>7. Answered(m)'
  BY <1>1, <1>2, <1>3, <1>4, <1>5 DEF Answered, Stored, Settled
<1>8. Counted(m)'
  BY <1>2 DEF Counted
<1>9. Onward(m)
  <2>1. answer[m].status = "streaming"
    BY <1>1, Locals DEF Answered, Stored
  <2>2. call[m].status = "complete" =>
          answer'[m] = [status |-> "complete", content |-> call[m].content]
    BY <1>5
  <2> HIDE DEF v
  <2> QED
    BY <1>1, <1>2, <2>1, <2>2 DEF Onward, Stored, Quiet, Settled
<1> HIDE DEF v
<1> QED
  BY <1>1, <1>2, <1>3, <1>5, <1>6, <1>7, <1>8, <1>9, Locals, StepOf

\* A handler whose browser has gone.
LEMMA StoppedOne ==
  ASSUME NEW m \in Messages, Local(m), NEW cut \in BOOLEAN, call[m].at \in Working,
         call'[m] = Stopped(m, cut), wire'[m] = << >>, agent'[m] = agent[m],
         answer'[m] = answer[m], m \in hurt'
  PROVE  Local(m)' /\ Onward(m) /\ call'[m].chat = call[m].chat
<1>1. /\ call[m] \in CallType /\ agent[m] \in AgentType /\ answer[m] \in AnswerType
      /\ Begun(m) /\ Counted(m) /\ Answered(m)
  BY Zenon DEF Local
<1>2. /\ call'[m] \in CallType /\ call'[m].chat = call[m].chat /\ call'[m].online = FALSE
      /\ \/ call'[m].history = {} /\ call'[m].at # "connect"
         \/ call'[m].history = call[m].history /\ call'[m].at = call[m].at
      /\ \/ /\ call'[m].at = call[m].at /\ call[m].at \in {"check", "store", "history"}
            /\ call'[m].status = call[m].status /\ call'[m].content = call[m].content
         \/ /\ call[m].at \in {"connect", "relay", "persist"} /\ call'[m].at = "persist"
            /\ call'[m].status = call[m].status /\ call'[m].content = call[m].content
         \/ /\ call[m].at \in {"connect", "relay", "persist"} /\ call'[m].at = "over"
            /\ call'[m].status = "incomplete" /\ call'[m].content = 0
  <2>1. CASE call[m].at \notin {"connect", "relay", "persist"}
    <3>1. call'[m] = [call[m] EXCEPT !.online = FALSE]
      BY <2>1, Zenon DEF Stopped
    <3>2. call[m].at \in {"check", "store", "history"}
      BY <2>1 DEF Working
    <3>3. call'[m] \in CallType
      BY <1>1, <3>1 DEF CallType
    <3> QED
      BY <1>1, <3>1, <3>2, <3>3 DEF CallType
  <2>2. CASE call[m].at \in {"connect", "relay", "persist"} /\ cut
    <3>1. call'[m] = OverCall(m)
      BY <2>2, Zenon DEF Stopped
    <3> QED
      BY <1>1, <2>2, <3>1, Ended, Zenon
  <2>3. CASE call[m].at \in {"connect", "relay", "persist"} /\ ~cut
    <3>1. call'[m] = [call[m] EXCEPT !.at = "persist", !.history = {}, !.online = FALSE]
      BY <2>3, Zenon DEF Stopped
    <3>2. call'[m] \in CallType
      BY <1>1, <3>1 DEF CallType, Working
    <3> QED
      BY <1>1, <2>3, <3>1, <3>2 DEF CallType
  <2> QED
    BY <2>1, <2>2, <2>3, Zenon
<1>3. Begun(m)'
  BY <1>1, <1>2 DEF Begun, Leading, Working
<1>4. Answered(m)'
  BY <1>1, <1>2 DEF Answered, Stored
<1>5. Counted(m)'
  BY <1>1, <1>2 DEF Counted, Begun, Leading
<1>6. Onward(m)
  BY <1>1, <1>2 DEF Onward, Stored, Quiet
<1>7. CallType' = CallType /\ AgentType' = AgentType /\ AnswerType' = AnswerType
  BY DEF CallType, AgentType, AnswerType
<1>8. wire'[m] \in Seq(Events)
  OBVIOUS
<1>9. Local(m)'
  BY <1>1, <1>2, <1>3, <1>4, <1>5, <1>7, <1>8, Zenon DEF Local
<1> QED
  BY <1>2, <1>6, <1>9, Zenon

LEMMA LeftStep ==
  ASSUME StreamInv, NEW m \in Messages, StopsEarly(m)
  PROVE  StreamInv' /\ \A n \in Messages : Onward(n)
<1>1. PICK cut \in BOOLEAN : call' = [call EXCEPT ![m] = Stopped(m, cut)]
  BY DEF StopsEarly
<1>2. /\ call[m].at = "connect" /\ ~call[m].online
      /\ UNCHANGED <<agent, wire, answer, hurt>>
  BY DEF StopsEarly, dbVars
<1>3. /\ call'[m] = Stopped(m, cut) /\ (\A n \in Messages \ {m} : call'[n] = call[n])
      /\ call' = [n \in Messages |-> call'[n]]
  BY <1>1, Updated, Locals
<1>4. m \in hurt' /\ wire'[m] = << >> /\ call[m].at \in Working
  BY <1>2, Locals DEF Begun, Working
<1>5. Local(m)
  BY DEF StreamInv
<1>6. Local(m)' /\ Onward(m)
  BY <1>2, <1>3, <1>4, <1>5, StoppedOne
<1>7. Shape'
  <2>1. Messages' = Messages
    BY DEF Messages
  <2> QED
    BY <1>2, <1>3, <2>1, Locals DEF Shape
<1>8. \A n \in Messages \ {m} : Same(n)
  BY <1>2, <1>3 DEF Same
<1> QED
  BY <1>6, <1>7, <1>8, OneMoves, Zenon

LEMMA DisconnectStep ==
  ASSUME StreamInv, NEW lost \in SUBSET Messages, Disconnect(lost)
  PROVE  StreamInv' /\ \A n \in Messages : Onward(n)
<1>1. PICK cut \in SUBSET lost :
        call' = [m \in Messages |-> IF m \in lost THEN Stopped(m, m \in cut) ELSE call[m]]
  BY Zenon DEF Disconnect
<1>2. /\ wire' = [m \in Messages |-> IF m \in lost THEN << >> ELSE wire[m]]
      /\ hurt' = hurt \cup lost /\ UNCHANGED <<agent, answer>>
      /\ \A m \in lost : call[m].online
  BY DEF Disconnect, dbVars
<1>3. ASSUME NEW m \in Messages PROVE Local(m)' /\ Onward(m)
  <2>1. Local(m)
    BY DEF StreamInv
  <2>2. CASE m \in lost
    <3>1. call'[m] = Stopped(m, m \in cut) /\ (m \in cut) \in BOOLEAN
      BY <1>1, <2>2
    <3>2. /\ wire'[m] = << >> /\ agent'[m] = agent[m] /\ answer'[m] = answer[m]
          /\ m \in hurt'
      BY <1>2, <2>2
    <3>3. call[m].at \in Working
      BY <1>2, <2>2, Locals, CallFacts DEF Begun
    <3> QED
      BY <2>1, <3>1, <3>2, <3>3, StoppedOne, Zenon
  <2>3. CASE m \notin lost
    <3>1. Same(m)
      BY <1>1, <1>2, <2>3 DEF Same
    <3> QED
      BY <2>1, <3>1, Untouched, Zenon
  <2> QED
    BY <2>2, <2>3
<1>4. Messages' = Messages
  BY DEF Messages
<1>5. Shape'
  BY <1>1, <1>2, <1>4 DEF Shape, StreamInv
<1> QED
  BY <1>3, <1>4, <1>5, Zenon DEF StreamInv

LEMMA GatewayCrashStep ==
  ASSUME StreamInv, GatewayCrash
  PROVE  StreamInv' /\ \A n \in Messages : Onward(n)
<1> DEFINE dead == {m \in Messages : call[m].at \in Working}
<1>1. /\ call' = [m \in Messages |-> IF m \in dead THEN OverCall(m) ELSE call[m]]
      /\ wire' = [m \in Messages |-> << >>] /\ hurt' = hurt \cup dead
      /\ UNCHANGED <<agent, answer>>
  BY DEF GatewayCrash
<1>2. ASSUME NEW m \in Messages PROVE Local(m)' /\ Onward(m)
  <2>1. Local(m)
    BY DEF StreamInv
  <2>2. CASE call[m].at \in Working
    <3>1. /\ call'[m] = OverCall(m) /\ wire'[m] = << >> /\ agent'[m] = agent[m]
          /\ answer'[m] = answer[m] /\ m \in hurt'
      BY <1>1, <2>2
    <3>2. /\ call'[m].at = "over" /\ call'[m].chat = call[m].chat
          /\ call'[m].online = FALSE /\ call'[m] \in CallType /\ call'[m].history = {}
      BY <3>1, Locals, Ended
    <3>3. Begun(m)' /\ Answered(m)'
      BY <2>2, <3>1, <3>2, Locals DEF Begun, Answered, Leading, Stored, Working
    <3>4. Counted(m)'
      BY <3>2 DEF Counted
    <3>5. Onward(m)
      BY <2>2, <3>1, <3>2, Locals DEF Onward, Stored, Quiet, Settled, Answered, Working
    <3>6. CallType' = CallType /\ AgentType' = AgentType /\ AnswerType' = AnswerType
      BY DEF CallType, AgentType, AnswerType
    <3>7. wire'[m] \in Seq(Events) /\ agent'[m] \in AgentType /\ answer'[m] \in AnswerType
      BY <3>1, Locals
    <3> QED
      BY <3>2, <3>3, <3>4, <3>5, <3>6, <3>7, Zenon DEF Local
  <2>3. CASE call[m].at \notin Working
    <3>1. wire[m] = << >>
      BY <2>3, Locals DEF Begun, Working
    <3>2. Same(m)
      BY <1>1, <2>3, <3>1 DEF Same
    <3> QED
      BY <2>1, <3>2, Untouched, Zenon
  <2> QED
    BY <2>2, <2>3
<1>3. Messages' = Messages
  BY DEF Messages
<1>4. Shape'
  BY <1>1, <1>3 DEF Shape, StreamInv
<1> QED
  BY <1>2, <1>3, <1>4, Zenon DEF StreamInv
-----------------------------------------------------------------------------
(***************************************************************************)
(* The steps of a run.                                                     *)
(***************************************************************************)

\* A run that is relayed and does not send tokens any more, or not yet.
LEMMA RunStep ==
  ASSUME StreamInv, NEW m \in Messages, NEW where \in Running \cup {"over"},
         Moves(m, where), UNCHANGED <<call, answer, hurt>>,
         wire' = [n \in Messages |-> wire'[n]],
         \A n \in Messages \ {m} : wire'[n] = wire[n], wire'[m] \in Seq(Events),
         call[m].at = "relay", agent[m].at \in Running,
         where = "run" => agent[m].at = "lock" /\ wire'[m] = wire[m], where # "lock",
         agent[m].at = "unlock" => where = "over",
         \A k \in Nat : TokensFirst(wire[m], k) => TokensFirst(wire'[m], k)
  PROVE  StreamInv' /\ \A n \in Messages : Onward(n)
<1>1. /\ agent'[m].at = where /\ agent'[m].sent = agent[m].sent
      /\ agent'[m] \in AgentType /\ (\A n \in Messages \ {m} : agent'[n] = agent[n])
      /\ agent' = [n \in Messages |-> agent'[n]]
  BY Moving
<1>2. Begun(m)' /\ Answered(m)'
  BY <1>1, Locals DEF Begun, Answered, Leading, Stored, Working
<1>3. Counted(m)'
  <2>1. PICK k \in 0..MaxTokens :
          /\ TokensFirst(wire[m], k) /\ agent[m].sent = call[m].content + k
          /\ agent[m].at \in {"lock", "run"} => k = Len(wire[m])
    BY Locals, Zenon DEF Counted
  <2>2. TokensFirst(wire'[m], k)
    BY <2>1, IdsAssumption
  <2>3. agent'[m].at \in {"lock", "run"} => k = Len(wire'[m])
    BY <1>1, <2>1
  <2>4. \E j \in 0..MaxTokens :
          /\ TokensFirst(wire'[m], j) /\ agent'[m].sent = call'[m].content + j
          /\ agent'[m].at \in {"lock", "run"} => j = Len(wire'[m])
    <3>1. agent'[m].sent = call'[m].content + k
      BY <1>1, <2>1
    <3> QED
      BY <2>2, <2>3, <3>1, Zenon
  <2>5. agent'[m].at \in {"lock", "run"} => call'[m].status = "incomplete"
    BY <1>1, Locals DEF Counted
  <2>6. call'[m].status = "complete" => call'[m].content = agent'[m].sent
    BY <1>1, Locals DEF Counted
  <2> QED
    BY <1>1, <2>4, <2>5, <2>6, Zenon DEF Counted, TokensFirst
<1>4. Onward(m)
  BY <1>1, Locals DEF Onward, Stored, Quiet, Running
<1> QED
  BY <1>1, <1>2, <1>3, <1>4, Locals, StepOf

LEMMA TokenStep ==
  ASSUME StreamInv, NEW m \in Messages, Token(m)
  PROVE  StreamInv' /\ \A n \in Messages : Onward(n)
<1> DEFINE v == [agent[m] EXCEPT !.sent = @ + 1]
<1>1. /\ call[m].at = "relay" /\ agent[m].at = "run" /\ agent[m].sent < MaxTokens
      /\ Yields(m, <<"token">>) /\ UNCHANGED <<call, answer, hurt>>
      /\ agent' = [agent EXCEPT ![m].sent = @ + 1]
  BY DEF Token, At, dbVars
<1>2. agent' = [agent EXCEPT ![m] = v]
  BY <1>1, Locals
<1>3. v \in AgentType /\ v.at = "run" /\ v.sent = agent[m].sent + 1
  <2>1. agent[m] \in AgentType /\ agent[m].sent \in 0..MaxTokens /\ MaxTokens \in Nat
    BY Locals, IdsAssumption DEF AgentType
  <2>2. agent[m].sent + 1 \in 0..MaxTokens
    BY <1>1, <2>1
  <2> QED
    BY <1>1, <2>1, <2>2 DEF AgentType
<1> HIDE DEF v
<1>4. agent'[m] = v /\ (\A n \in Messages \ {m} : agent'[n] = agent[n])
      /\ agent' = [n \in Messages |-> agent'[n]]
  BY <1>2, Updated, Locals
<1>5. /\ wire'[m] = wire[m] \o <<"token">> /\ (\A n \in Messages \ {m} : wire'[n] = wire[n])
      /\ wire' = [n \in Messages |-> wire'[n]]
  BY <1>1, Yielding
<1>6. PICK k \in 0..MaxTokens :
        /\ TokensFirst(wire[m], k) /\ agent[m].sent = call[m].content + k
        /\ agent[m].at \in {"lock", "run"} => k = Len(wire[m])
  BY <1>1, Locals, Zenon DEF Counted
<1>7. k \in Nat /\ "token" \in Events /\ k = Len(wire[m]) /\ wire[m] \in Seq(Events)
  BY <1>1, <1>6, IdsAssumption, Locals DEF Events
<1>8. /\ wire'[m] \in Seq(Events) /\ Len(wire'[m]) = Len(wire[m]) + 1
      /\ TokensFirst(wire'[m], k + 1)
  BY <1>5, <1>6, <1>7, Pushed, Zenon
<1>9. Begun(m)' /\ Answered(m)'
  BY <1>1, Locals DEF Begun, Answered, Leading, Stored, Working
<1>10. call[m].status = "incomplete" /\ call[m].content \in Nat /\ agent[m].sent \in Nat
  BY <1>1, Locals, CallFacts, IdsAssumption DEF Counted, AgentType
<1>11. Counted(m)'
  <2>1. k + 1 \in 0..MaxTokens /\ agent'[m].sent = call'[m].content + (k + 1)
    <3>1. agent'[m].sent = agent[m].sent + 1 /\ call'[m].content = call[m].content
      BY <1>1, <1>3, <1>4
    <3>2. agent[m].sent = call[m].content + k /\ MaxTokens \in Nat
      BY <1>6, IdsAssumption
    <3>3. k <= agent[m].sent
      BY <1>7, <1>10, <3>2
    <3>4. k + 1 \in 0..MaxTokens
      BY <1>1, <1>7, <1>10, <3>2, <3>3
    <3>5. agent'[m].sent = call'[m].content + (k + 1)
      BY <1>7, <1>10, <3>1, <3>2
    <3> QED
      BY <3>4, <3>5
  <2>2. k + 1 = Len(wire'[m])
    BY <1>7, <1>8
  <2>3. \E j \in 0..MaxTokens :
          /\ TokensFirst(wire'[m], j) /\ agent'[m].sent = call'[m].content + j
          /\ agent'[m].at \in {"lock", "run"} => j = Len(wire'[m])
    BY <1>8, <2>1, <2>2, Zenon
  <2>4. agent'[m].at = "run" /\ call'[m].status = "incomplete"
    BY <1>1, <1>3, <1>4, <1>10
  <2>5. agent'[m].at \in Running /\ call'[m].status # "complete"
    BY <2>4 DEF Running
  <2> QED
    BY <2>3, <2>4, <2>5, Zenon DEF Counted, TokensFirst
<1>12. Onward(m)
  BY <1>1, <1>10 DEF Onward, Stored, Quiet
<1> QED
  BY <1>1, <1>3, <1>4, <1>5, <1>8, <1>9, <1>11, <1>12, Locals, StepOf

LEMMA AgentStep ==
  ASSUME StreamInv, NEW m \in Messages,
         Lock(m) \/ LockFails(m) \/ Finish(m) \/ Fail(m) \/ Unlock(m)
  PROVE  StreamInv' /\ \A n \in Messages : Onward(n)
<1>1. /\ wire[m] \in Seq(Events) /\ {"abort", "done", "error", "eof"} \subseteq Events
      /\ call[m].at = "relay" /\ agent[m].at \in Running /\ UNCHANGED <<call, answer, hurt>>
  BY Locals DEF Lock, LockFails, Finish, Fail, Unlock, At, Running, Events, dbVars
<1>2. \A k \in Nat : \A e \in Events \ {"token"} :
        TokensFirst(wire[m], k) => /\ TokensFirst(wire[m] \o <<e>>, k)
                                   /\ wire[m] \o <<e>> \in Seq(Events)
  BY <1>1, Pushed, Zenon
<1>3. \A e \in Events : wire[m] \o <<e>> \in Seq(Events)
  BY <1>1
<1>4. CASE Lock(m)
  <2>1. /\ Moves(m, "run") /\ agent[m].at = "lock" /\ wire' = wire
    BY <1>4 DEF Lock, At
  <2>2. \A k \in Nat : TokensFirst(wire[m], k) => TokensFirst(wire'[m], k)
    BY <2>1, Zenon
  <2>3. "run" \in Running \cup {"over"}
    BY DEF Running
  <2> QED
    BY <1>1, <2>1, <2>2, <2>3, Locals, RunStep
<1>5. CASE LockFails(m)
  <2>1. Moves(m, "over") /\ Yields(m, <<"abort">>)
    BY <1>5 DEF LockFails
  <2>2. /\ wire'[m] = wire[m] \o <<"abort">>
        /\ \A n \in Messages \ {m} : wire'[n] = wire[n]
        /\ wire' = [n \in Messages |-> wire'[n]]
    BY <2>1, Yielding
  <2>3. \A k \in Nat : TokensFirst(wire[m], k) => TokensFirst(wire'[m], k)
    BY <1>1, <1>2, <2>2
  <2>4. wire'[m] \in Seq(Events)
    BY <1>1, <1>3, <2>2
  <2> QED
    BY <1>1, <2>1, <2>2, <2>3, <2>4, RunStep
<1>6. CASE Finish(m)
  <2>1. Moves(m, "unlock") /\ Yields(m, <<"done">>) /\ agent[m].at = "run"
    BY <1>6 DEF Finish, At
  <2>2. /\ wire'[m] = wire[m] \o <<"done">>
        /\ \A n \in Messages \ {m} : wire'[n] = wire[n]
        /\ wire' = [n \in Messages |-> wire'[n]]
    BY <2>1, Yielding
  <2>3. \A k \in Nat : TokensFirst(wire[m], k) => TokensFirst(wire'[m], k)
    BY <1>1, <1>2, <2>2
  <2>4. wire'[m] \in Seq(Events) /\ "unlock" \in Running \cup {"over"}
    BY <1>1, <1>3, <2>2 DEF Running
  <2> QED
    BY <1>1, <2>1, <2>2, <2>3, <2>4, RunStep
<1>7. CASE Fail(m)
  <2>1. Moves(m, "unlock") /\ Yields(m, <<"error", "done">>) /\ agent[m].at = "run"
    BY <1>7 DEF Fail, At
  <2>2. /\ wire'[m] = wire[m] \o <<"error", "done">>
        /\ \A n \in Messages \ {m} : wire'[n] = wire[n]
        /\ wire' = [n \in Messages |-> wire'[n]]
    BY <2>1, Yielding
  <2>3. wire'[m] = (wire[m] \o <<"error">>) \o <<"done">>
    BY <1>1, <2>2
  <2>4. wire[m] \o <<"error">> \in Seq(Events)
    BY <1>1, <1>3
  <2>5. \A k \in Nat : TokensFirst(wire[m], k) => TokensFirst(wire'[m], k)
    <3> SUFFICES ASSUME NEW k \in Nat, TokensFirst(wire[m], k)
                 PROVE  TokensFirst(wire'[m], k)
      OBVIOUS
    <3>1. TokensFirst(wire[m] \o <<"error">>, k)
      BY <1>1, <1>2
    <3>2. "done" \in Events /\ "done" # "token"
      BY <1>1
    <3> QED
      BY <2>3, <2>4, <3>1, <3>2, Pushed, Zenon
  <2>6. wire'[m] \in Seq(Events) /\ "unlock" \in Running \cup {"over"}
    BY <1>1, <2>3, <2>4 DEF Running
  <2> QED
    BY <1>1, <2>1, <2>2, <2>5, <2>6, RunStep
<1>8. CASE Unlock(m)
  <2>1. Moves(m, "over") /\ Yields(m, <<"eof">>)
    BY <1>8 DEF Unlock
  <2>2. /\ wire'[m] = wire[m] \o <<"eof">>
        /\ \A n \in Messages \ {m} : wire'[n] = wire[n]
        /\ wire' = [n \in Messages |-> wire'[n]]
    BY <2>1, Yielding
  <2>3. \A k \in Nat : TokensFirst(wire[m], k) => TokensFirst(wire'[m], k)
    BY <1>1, <1>2, <2>2
  <2>4. wire'[m] \in Seq(Events)
    BY <1>1, <1>3, <2>2
  <2> QED
    BY <1>1, <2>1, <2>2, <2>3, <2>4, RunStep
<1> QED
  BY <1>4, <1>5, <1>6, <1>7, <1>8

\* A run that is stopped, or dies with its service.
LEMMA RunEnds ==
  ASSUME NEW m \in Messages, Local(m), agent[m].at \in Running,
         agent'[m] = [agent[m] EXCEPT !.at = "over"],
         call'[m] = call[m], answer'[m] = answer[m], m \in hurt => m \in hurt',
         wire'[m] = IF call[m].at = "relay" THEN Append(wire[m], "abort") ELSE wire[m]
  PROVE  Local(m)' /\ Onward(m)
<1>1. /\ call[m] \in CallType /\ agent[m] \in AgentType /\ answer[m] \in AnswerType
      /\ wire[m] \in Seq(Events) /\ Begun(m) /\ Counted(m) /\ Answered(m)
  BY Zenon DEF Local
<1>2. agent'[m] \in AgentType /\ agent'[m].at = "over" /\ agent'[m].sent = agent[m].sent
  BY <1>1 DEF AgentType
<1>3. "abort" \in Events
  BY DEF Events
<1>4. wire'[m] \in Seq(Events)
  BY <1>1, <1>3
<1>5. Begun(m)' /\ Answered(m)'
  BY <1>1, <1>2 DEF Begun, Answered, Leading, Stored, Working, Running
<1>6. Counted(m)'
  <2>1. CASE call[m].at = "relay"
    <3>1. PICK k \in 0..MaxTokens :
            TokensFirst(wire[m], k) /\ agent[m].sent = call[m].content + k
      BY <1>1, <2>1, Zenon DEF Counted
    <3>2. k \in Nat
      BY <3>1, IdsAssumption
    <3>3. wire'[m] = wire[m] \o <<"abort">>
      BY <1>1, <2>1
    <3>4. TokensFirst(wire[m] \o <<"abort">>, k)
      <4>1. "abort" # "token" /\ TokensFirst(wire[m], k)
        BY <3>1
      <4> QED
        BY <1>1, <1>3, <3>2, <4>1, Pushed, Zenon
    <3>5. \E j \in 0..MaxTokens :
            /\ TokensFirst(wire'[m], j) /\ agent'[m].sent = call'[m].content + j
            /\ agent'[m].at \in {"lock", "run"} => j = Len(wire'[m])
      BY <1>2, <3>1, <3>3, <3>4
    <3> QED
      BY <1>1, <1>2, <3>5 DEF Counted, TokensFirst
  <2>2. CASE call[m].at # "relay"
    BY <1>1, <1>2, <2>2 DEF Counted
  <2> QED
    BY <2>1, <2>2
<1>7. Onward(m)
  BY <1>1, <1>2 DEF Onward, Stored, Quiet
<1>8. CallType' = CallType /\ AgentType' = AgentType /\ AnswerType' = AnswerType
  BY DEF CallType, AgentType, AnswerType
<1> QED
  BY <1>1, <1>2, <1>4, <1>5, <1>6, <1>7, <1>8, Zenon DEF Local

LEMMA CancelStep ==
  ASSUME StreamInv, NEW m \in Messages, AgentCancelled(m)
  PROVE  StreamInv' /\ \A n \in Messages : Onward(n)
<1>1. /\ agent[m].at \in Running /\ call[m].at # "relay"
      /\ Moves(m, "over") /\ UNCHANGED <<call, wire, answer, hurt>>
  BY DEF AgentCancelled, dbVars
<1>2. agent' = [agent EXCEPT ![m] = [agent[m] EXCEPT !.at = "over"]]
  BY <1>1 DEF Moves
<1>3. /\ agent'[m] = [agent[m] EXCEPT !.at = "over"]
      /\ \A n \in Messages \ {m} : agent'[n] = agent[n]
      /\ agent' = [n \in Messages |-> agent'[n]]
  BY <1>2, Locals
<1>4. Local(m)
  BY DEF StreamInv
<1>5. Local(m)' /\ Onward(m)
  BY <1>1, <1>3, <1>4, RunEnds
<1>6. Shape'
  <2>1. Messages' = Messages
    BY DEF Messages
  <2> QED
    BY <1>1, <1>3, <2>1, Locals DEF Shape
<1>7. \A n \in Messages \ {m} : Same(n)
  BY <1>1, <1>3 DEF Same
<1> QED
  BY <1>5, <1>6, <1>7, OneMoves, Zenon

LEMMA AgentCrashStep ==
  ASSUME StreamInv, AgentCrash
  PROVE  StreamInv' /\ \A n \in Messages : Onward(n)
<1> DEFINE dead == {m \in Messages : agent[m].at \in Running}
<1>1. /\ agent' = [m \in Messages |-> IF m \in dead THEN [agent[m] EXCEPT !.at = "over"]
                                                     ELSE agent[m]]
      /\ wire' = [m \in Messages |-> IF m \in dead /\ call[m].at = "relay"
                                     THEN Append(wire[m], "abort") ELSE wire[m]]
      /\ UNCHANGED <<call, answer, hurt>>
  BY DEF AgentCrash, dbVars
<1>2. ASSUME NEW m \in Messages PROVE Local(m)' /\ Onward(m)
  <2>1. Local(m)
    BY DEF StreamInv
  <2>2. CASE agent[m].at \in Running
    <3>1. /\ agent'[m] = [agent[m] EXCEPT !.at = "over"]
          /\ wire'[m] = IF call[m].at = "relay" THEN Append(wire[m], "abort") ELSE wire[m]
      BY <1>1, <2>2
    <3> QED
      BY <1>1, <2>1, <2>2, <3>1, RunEnds
  <2>3. CASE agent[m].at \notin Running
    <3>1. Same(m)
      BY <1>1, <2>3 DEF Same
    <3> QED
      BY <2>1, <3>1, Untouched, Zenon
  <2> QED
    BY <2>2, <2>3
<1>3. Messages' = Messages
  BY DEF Messages
<1>4. Shape'
  BY <1>1, <1>3 DEF Shape, StreamInv
<1> QED
  BY <1>2, <1>3, <1>4, Zenon DEF StreamInv

LEMMA NothingMoves ==
  ASSUME StreamInv, UNCHANGED <<call, agent, wire, answer, hurt>>
  PROVE  StreamInv' /\ \A n \in Messages : Onward(n)
<1>1. ASSUME NEW m \in Messages PROVE Local(m)' /\ Onward(m)
  <2>1. Local(m) /\ Same(m)
    BY Zenon DEF StreamInv, Same
  <2> QED
    BY <2>1, Untouched, Zenon
<1>2. Messages' = Messages
  BY DEF Messages
<1>3. Shape'
  BY <1>2 DEF Shape, StreamInv
<1> QED
  BY <1>1, <1>2, <1>3, Zenon DEF StreamInv

LEMMA StreamStep ==
  ASSUME StreamInv, StoreTypeOK, Next
  PROVE  StreamInv' /\ \A n \in Messages : Onward(n)
<1>1. CASE \E c \in Chats : \/ Mount(c) \/ NewChat(c) \/ ChatShown(c) \/ ChatNotShown(c)
                            \/ ChatCommitted(c)
  <2>1. UNCHANGED <<call, agent, wire, answer, hurt>>
    BY <1>1 DEF Mount, NewChat, ChatShown, ChatNotShown, ChatCommitted, AskChat, AnswerChat,
       RefuseChat, CommitChat, ChatBecomes
  <2> QED
    BY <2>1, NothingMoves
<1>2. CASE \E t \in Tabs, m \in Messages : SendMessage(t, m)
  <2>1. PICK t \in Tabs, m \in Messages : Submit(t, m) /\ Send(m, chatId[t])
    BY <1>2 DEF SendMessage
  <2>2. chatId[t] \in Chats
    BY <2>1 DEF Submit, StoreTypeOK
  <2> QED
    BY <2>1, <2>2, SendStep
<1>3. ASSUME NEW m \in Messages, Rejected(m) PROVE StreamInv' /\ \A n \in Messages : Onward(n)
  BY <1>3, FailureStep, Zenon DEF Rejected
<1>4. ASSUME NEW m \in Messages, Serving(m) PROVE StreamInv' /\ \A n \in Messages : Onward(n)
  BY <1>4, AdmitStep, StoreStep, HistoryStep, ConnectStep, StreamEndStep, PersistStep,
     FailureStep, Zenon DEF Serving, EndOfStream
<1>5. ASSUME NEW m \in Messages, Relayed(m) PROVE StreamInv' /\ \A n \in Messages : Onward(n)
  BY <1>5, RelayStep, Zenon DEF Relayed
<1>6. ASSUME NEW m \in Messages, Broken(m) PROVE StreamInv' /\ \A n \in Messages : Onward(n)
  BY <1>6, StreamEndStep, Zenon DEF Broken, StreamBreaks
<1>7. ASSUME NEW m \in Messages, Left(m) PROVE StreamInv' /\ \A n \in Messages : Onward(n)
  BY <1>7, LeftStep, Zenon DEF Left
<1>8. ASSUME NEW m \in Messages, ConnectionLost(m)
      PROVE  StreamInv' /\ \A n \in Messages : Onward(n)
  <2>1. {m} \in SUBSET Messages /\ Disconnect({m})
    BY <1>8 DEF ConnectionLost
  <2> QED
    BY <2>1, DisconnectStep, Zenon
<1>9. ASSUME NEW m \in Messages, AgentRuns(m) PROVE StreamInv' /\ \A n \in Messages : Onward(n)
  BY <1>9, AgentStep, TokenStep, CancelStep, Zenon DEF AgentRuns
<1>10. CASE \E t \in Tabs : PageReloaded(t)
  <2>1. PICK t \in Tabs : PageReloaded(t)
    BY <1>10, Zenon
  <2> DEFINE open == {m \in Messages : call[m].online /\ TabOfMessage(m) = t}
  <2>2. Disconnect(open) /\ open \in SUBSET Messages
    BY <2>1 DEF PageReloaded
  <2> HIDE DEF open
  <2> QED
    BY <2>2, DisconnectStep, Zenon
<1>11. CASE GatewayDies
  BY <1>11, GatewayCrashStep, Zenon DEF GatewayDies
<1>12. CASE AgentDies
  BY <1>12, AgentCrashStep, Zenon DEF AgentDies
<1>13. CASE LockExpires
  <2>1. UNCHANGED <<call, agent, wire, answer, hurt>>
    BY <1>13 DEF LockExpires, Expire, dbVars
  <2> QED
    BY <2>1, NothingMoves
<1> QED
  BY <1>1, <1>2, <1>3, <1>4, <1>5, <1>6, <1>7, <1>8, <1>9, <1>10, <1>11, <1>12, <1>13, Zenon
     DEF Next

\* Rows are only added.
LEMMA RowsStep ==
  ASSUME Next
  PROVE  rows' = rows \/ \E m \in Messages : Store(m)
<1>1. CASE \E c \in Chats : \/ Mount(c) \/ NewChat(c) \/ ChatShown(c) \/ ChatNotShown(c)
                            \/ ChatCommitted(c)
  BY <1>1 DEF Mount, NewChat, ChatShown, ChatNotShown, ChatCommitted, AskChat, AnswerChat,
     RefuseChat, CommitChat, ChatBecomes
<1>2. CASE \E t \in Tabs, m \in Messages : SendMessage(t, m)
  BY <1>2 DEF SendMessage, Send, dbVars
<1>3. ASSUME NEW m \in Messages,
             Rejected(m) \/ Relayed(m) \/ Broken(m) \/ Left(m) \/ ConnectionLost(m)
      PROVE  rows' = rows
  BY <1>3 DEF Rejected, Relayed, Broken, Left, ConnectionLost, Refuse, StoreFails,
     HistoryFails, Relay, ConnectFails, StreamBreaks, StreamEnds, StopsEarly, Disconnect, dbVars
<1>4. ASSUME NEW m \in Messages, Serving(m) PROVE rows' = rows \/ Store(m)
  BY <1>4 DEF Serving, Admit, ReadHistory, Connect, EndOfStream, StreamEnds, Persist,
     PersistFails, dbVars
<1>5. ASSUME NEW m \in Messages, AgentRuns(m) PROVE rows' = rows
  BY <1>5 DEF AgentRuns, Lock, LockFails, Token, Finish, Fail, Unlock, AgentCancelled, dbVars
<1>6. CASE (\E t \in Tabs : PageReloaded(t)) \/ GatewayDies \/ AgentDies \/ LockExpires
  BY <1>6 DEF PageReloaded, GatewayDies, AgentDies, LockExpires, Disconnect, GatewayCrash,
     AgentCrash, Expire, dbVars
<1> QED
  BY <1>1, <1>2, <1>3, <1>4, <1>5, <1>6, Zenon DEF Next
-----------------------------------------------------------------------------
(***************************************************************************)
(* The rows and the history.                                               *)
(***************************************************************************)
LEMMA RowAppended ==
  ASSUME NEW S, NEW s \in Seq(S), NEW x \in S
  PROVE  /\ Append(s, x) \in Seq(S) /\ DOMAIN s \subseteq Nat
         /\ DOMAIN Append(s, x) = DOMAIN s \cup {Len(s) + 1} /\ Len(s) + 1 \notin DOMAIN s
         /\ Append(s, x)[Len(s) + 1] = x
         /\ \A i \in DOMAIN s : i < Len(s) + 1 /\ s[i] \in S /\ Append(s, x)[i] = s[i]
OBVIOUS

LEMMA RowsKept ==
  ASSUME StreamInv, RestInv, RowsInv, StoreTypeOK, Next
  PROVE  /\ rows' \in Seq(Messages) /\ RowsInv'
         /\ \A j \in DOMAIN rows' :
              \/ j \in DOMAIN rows /\ rows'[j] = rows[j]
              \/ call[rows'[j]].at = "store" /\ \A i \in DOMAIN rows : i < j
         /\ DOMAIN rows \subseteq DOMAIN rows'
<1>1. rows \in Seq(Messages) /\ \A i \in DOMAIN rows : rows[i] \in Messages
  BY DEF RestInv
<1>2. \A i \in DOMAIN rows : call'[rows[i]].at \in Stored \cup {"over"}
  BY <1>1, StreamStep DEF RowsInv, Onward
<1>3. CASE rows' = rows
  BY <1>1, <1>2, <1>3 DEF RowsInv
<1>4. CASE \E m \in Messages : Store(m)
  <2>1. PICK m \in Messages : Store(m)
    BY <1>4
  <2>2. rows' = Append(rows, m) /\ call[m].at = "store"
    BY <2>1 DEF Store
  <2>3. call'[m].at = "history"
    BY <2>1, Going DEF Store, Working
  <2>4. /\ rows' \in Seq(Messages)
        /\ DOMAIN rows' = DOMAIN rows \cup {Len(rows) + 1} /\ Len(rows) + 1 \notin DOMAIN rows
        /\ rows'[Len(rows) + 1] = m
        /\ \A i \in DOMAIN rows : i < Len(rows) + 1 /\ rows'[i] = rows[i]
    <3>1. /\ Append(rows, m) \in Seq(Messages)
          /\ DOMAIN Append(rows, m) = DOMAIN rows \cup {Len(rows) + 1}
          /\ Len(rows) + 1 \notin DOMAIN rows /\ Append(rows, m)[Len(rows) + 1] = m
          /\ \A i \in DOMAIN rows : /\ i < Len(rows) + 1
                                     /\ Append(rows, m)[i] = rows[i]
      BY <1>1, RowAppended
    <3> QED
      BY <2>2, <3>1, Zenon
  <2>5. \A i \in DOMAIN rows : rows[i] # m
    BY <2>2 DEF RowsInv, Stored
  <2>6. \A i \in DOMAIN rows' : call'[rows'[i]].at \in Stored \cup {"over"}
    BY <1>2, <2>3, <2>4 DEF Stored
  <2>7. \A i, j \in DOMAIN rows' : rows'[i] = rows'[j] => i = j
    BY <2>4, <2>5 DEF RowsInv
  <2> QED
    BY <2>2, <2>4, <2>6, <2>7 DEF RowsInv
<1> QED
  BY <1>3, <1>4, RowsStep

LEMMA Largest ==
  ASSUME NEW n \in Nat, NEW S \in SUBSET (1..n), S # {}
  PROVE  \E x \in S : \A y \in S : y <= x
<1> DEFINE R == OpToRel(<, Nat)
           T == {n - x : x \in S}
<1>1. T \subseteq Nat /\ T # {}
  <2>1. ASSUME NEW x \in S PROVE n - x \in Nat
    OBVIOUS
  <2> QED
    BY <2>1
<1>2. PICK t \in T : \A u \in T : <<u, t>> \notin R
  <2> HIDE DEF R, T
  <2>1. IsWellFoundedOn(R, Nat)
    BY NatLessThanWellFounded DEF R
  <2> QED
    BY <1>1, <2>1, WFMin
<1>3. PICK x \in S : t = n - x
  BY <1>2
<1>4. ASSUME NEW y \in S PROVE y <= x
  <2>1. n - y \in T /\ n - y \in Nat /\ t \in Nat
    BY <1>1
  <2>2. ~(n - y < t)
    BY <1>2, <2>1 DEF OpToRel
  <2> QED
    BY <1>3, <2>2
<1> QED
  BY <1>4

\* What get_chat_history returns is more than the message itself if the chat has other rows:
\* at most that message is newer than the newest of them, and the limit is at least two.
LEMMA HistoryHolds ==
  ASSUME rows \in Seq(Messages), \A i, j \in DOMAIN rows : rows[i] = rows[j] => i = j,
         NEW m \in Messages, ~InHistory(m),
         NEW c, NEW k \in DOMAIN rows, rows[k] # m, call[rows[k]].chat = c
  PROVE  History(c) \ {<<"user", m>>} # {}
<1> DEFINE P == {i \in DOMAIN rows : rows[i] # m /\ call[rows[i]].chat = c}
<1>1. PICK p \in P : \A i \in P : i <= p
  <2>1. DOMAIN rows = 1..Len(rows) /\ Len(rows) \in Nat /\ k \in P
    OBVIOUS
  <2>2. P \in SUBSET (1..Len(rows)) /\ P # {}
    BY <2>1
  <2> HIDE DEF P
  <2> QED
    BY <2>1, <2>2, Largest
<1> DEFINE r == IF InHistory(rows[p]) THEN "assistant" ELSE "user"
           e == <<r, rows[p]>>
           F == {f \in Entries(c) : Newer(f, e)}
<1>2. /\ rows[p] \in Messages /\ p \in DOMAIN rows /\ rows[p] # m /\ DOMAIN rows \subseteq Nat
      /\ call[rows[p]].chat = c
  OBVIOUS
<1>3. r \in {"user", "assistant"} /\ (r = "assistant" <=> InHistory(rows[p]))
  BY Zenon
<1> HIDE DEF r
<1>4. e \in Entries(c) /\ e[1] = r /\ e[2] = rows[p]
  BY <1>2, <1>3 DEF Entries
<1>5. ASSUME NEW f \in F PROVE f = <<"user", m>>
  <2>1. /\ f \in {"user", "assistant"} \X Messages /\ call[f[2]].chat = c
        /\ f[1] = "assistant" => InHistory(f[2])
    BY DEF Entries
  <2>2. PICK i \in DOMAIN rows, j \in DOMAIN rows :
          /\ rows[i] = f[2] /\ rows[j] = e[2]
          /\ i > j \/ (i = j /\ f[1] = "assistant" /\ e[1] = "user")
    BY DEF Newer
  <2>3. j = p
    BY <1>2, <1>4, <2>2
  <2>4. CASE i > j
    <3>1. i \notin P
      BY <1>1, <1>2, <2>2, <2>3, <2>4
    <3>2. f[2] = m
      BY <2>1, <2>2, <3>1
    <3>3. f[1] = "user"
      BY <2>1, <3>2
    <3> QED
      BY <2>1, <3>2, <3>3
  <2>5. CASE i = j /\ f[1] = "assistant" /\ e[1] = "user"
    <3>1. InHistory(rows[p])
      BY <2>1, <2>2, <2>3, <2>5
    <3> QED
      BY <1>3, <1>4, <2>5, <3>1
  <2> QED
    BY <2>2, <2>4, <2>5
<1>6. IsFiniteSet(F) /\ Cardinality(F) \in Nat /\ Cardinality(F) <= 1
  <2> DEFINE one == {<<"user", m>>}
  <2>1. IsFiniteSet(one) /\ Cardinality(one) = 1
    BY FS_Singleton
  <2>2. F \subseteq one
    BY <1>5
  <2> HIDE DEF F, one
  <2>3. IsFiniteSet(F) /\ Cardinality(F) <= Cardinality(one)
    BY <2>1, <2>2, FS_Subset
  <2> QED
    BY <2>1, <2>3, FS_CardinalityType
<1>7. Cardinality(F) < HistoryLimit
  <2>1. HistoryLimit \in Nat \ {0, 1}
    BY StreamAssumption
  <2> HIDE DEF F
  <2> QED
    BY <1>6, <2>1
<1>8. e \in History(c)
  BY <1>4, <1>7 DEF History
<1>9. e # <<"user", m>>
  BY <1>2, <1>4
<1> QED
  BY <1>8, <1>9

LEMMA HistoryKept ==
  ASSUME StreamInv, RestInv, RowsInv, HistoryInv, StoreTypeOK, Next
  PROVE  HistoryInv'
<1> DEFINE Own(n) ==
             LET h == call[n].history IN
             /\ \A e \in h : /\ e[2] # n /\ call[e[2]].chat = call[n].chat
                             /\ e[1] = "assistant" => answer[e[2]].status \in Settled
                             /\ call[e[2]].at # "idle"
             /\ call[n].at = "connect" /\ h = {} =>
                  \A i, j \in DOMAIN rows :
                    i < j /\ rows[j] = n => call[rows[i]].chat # call[n].chat
<1>1. \A n \in Messages : Own(n)
  BY Zenon DEF HistoryInv, HistoryIsSettled
<1>2. /\ rows \in Seq(Messages) /\ \A i \in DOMAIN rows : rows[i] \in Messages
      /\ DOMAIN rows \subseteq Nat
  BY DEF RestInv
<1>3. StreamInv' /\ \A n \in Messages : Onward(n)
  BY StreamStep, Zenon
<1>4. ASSUME NEW n \in Messages PROVE Own(n)'
  <2>1. Own(n) /\ Onward(n)
    BY <1>1, <1>3, Zenon
  <2>2. CASE call'[n].history = {} /\ call'[n].at # "connect"
    BY <2>2
  <2>3. CASE /\ call'[n].history = call[n].history
             /\ call'[n].at = "connect" => call[n].at = "connect"
    <3>1. ASSUME NEW e \in call'[n].history
          PROVE  /\ e[2] # n /\ call'[e[2]].chat = call'[n].chat
                 /\ e[1] = "assistant" => answer'[e[2]].status \in Settled
                 /\ call'[e[2]].at # "idle"
      <4>1. e \in call[n].history
        BY <2>3
      <4>2. e[2] \in Messages
        <5>1. call[n].history \subseteq {"user", "assistant"} \X Messages
          BY Locals, CallFacts
        <5> QED
          BY <4>1, <5>1
      <4>3. Onward(e[2])
        BY <1>3, <4>2
      <4>4. call[n].at # "idle"
        BY <4>1, Locals DEF Begun
      <4>5. /\ e[2] # n /\ call[e[2]].chat = call[n].chat /\ call[e[2]].at # "idle"
            /\ e[1] = "assistant" => answer[e[2]].status \in Settled
        BY <2>1, <4>1
      <4>6. call'[n].chat = call[n].chat
        BY <2>1, <4>4 DEF Onward
      <4>7. call'[e[2]].chat = call[e[2]].chat /\ call'[e[2]].at # "idle"
        BY <4>3, <4>5 DEF Onward
      <4>8. e[1] = "assistant" => answer'[e[2]].status \in Settled
        BY <4>3, <4>5 DEF Onward
      <4> QED
        BY <4>5, <4>6, <4>7, <4>8
    <3>2. ASSUME call'[n].at = "connect", call'[n].history = {},
                 NEW i \in DOMAIN rows', NEW j \in DOMAIN rows', i < j, rows'[j] = n
          PROVE  call'[rows'[i]].chat # call'[n].chat
      <4>1. call[n].at = "connect" /\ call[n].history = {}
        BY <2>3, <3>2
      <4>2. j \in DOMAIN rows /\ rows[j] = n
        BY <3>2, <4>1, RowsKept
      <4>3. i \in DOMAIN rows /\ rows'[i] = rows[i]
        <5>1. CASE \A x \in DOMAIN rows : x < i
          <6>1. j < i /\ j \in Nat /\ i \in Nat
            <7>1. rows' \in Seq(Messages)
              BY RowsKept
            <7> QED
              BY <1>2, <4>2, <5>1, <7>1
          <6> QED
            BY <3>2, <6>1
        <5> QED
          BY <5>1, RowsKept
      <4>4. call[rows[i]].chat # call[n].chat
        BY <2>1, <3>2, <4>1, <4>2, <4>3
      <4>5. call'[n].chat = call[n].chat
        BY <2>1, <4>1 DEF Onward
      <4>6. call'[rows[i]].chat = call[rows[i]].chat
        <5>1. rows[i] \in Messages /\ call[rows[i]].at \in Stored \cup {"over"}
          BY <1>2, <4>3 DEF RowsInv
        <5>2. Onward(rows[i]) /\ call[rows[i]].at # "idle"
          BY <1>3, <5>1 DEF Stored
        <5> QED
          BY <5>2 DEF Onward
      <4> QED
        BY <4>3, <4>4, <4>5, <4>6
    <3> QED
      BY <3>1, <3>2, Zenon
  <2>4. CASE ReadHistory(n)
    <3> DEFINE c == call[n].chat
    <3>1. /\ call'[n].history = History(c) \ {<<"user", n>>}
          /\ \A k \in Messages \ {n} : call'[k] = call[k]
      BY <2>4, HistoryStep, Zenon
    <3>2. /\ call[n].at = "history" /\ rows' = rows /\ answer' = answer
      BY <2>4 DEF ReadHistory, dbVars
    <3>3. call'[n].chat = c
      BY <2>1, <3>2 DEF Onward
    <3>4. ~InHistory(n)
      BY <3>2, Locals DEF InHistory, Answered, Stored, Settled
    <3>5. ASSUME NEW e \in call'[n].history
          PROVE  /\ e[2] # n /\ call'[e[2]].chat = call'[n].chat
                 /\ e[1] = "assistant" => answer'[e[2]].status \in Settled
                 /\ call'[e[2]].at # "idle"
      <4>1. e \in Entries(c) /\ e # <<"user", n>>
        BY <3>1 DEF History
      <4>2. /\ e \in {"user", "assistant"} \X Messages /\ call[e[2]].chat = c
            /\ e[1] = "assistant" => answer[e[2]].status \in Settled
            /\ \E i \in DOMAIN rows : rows[i] = e[2]
        BY <4>1 DEF Entries, InHistory
      <4>3. e[2] # n
        <5> SUFFICES ASSUME e[2] = n PROVE FALSE
          OBVIOUS
        <5>1. e[1] = "user"
          BY <3>4, <4>2 DEF InHistory
        <5> QED
          BY <4>1, <4>2, <5>1
      <4>4. call[e[2]].at # "idle"
        BY <4>2 DEF RowsInv, Stored
      <4>5. e[2] \in Messages \ {n}
        BY <4>2, <4>3
      <4> QED
        BY <3>1, <3>2, <3>3, <4>2, <4>3, <4>4, <4>5
    <3>6. ASSUME call'[n].at = "connect", call'[n].history = {},
                 NEW i \in DOMAIN rows', NEW j \in DOMAIN rows', i < j, rows'[j] = n
          PROVE  call'[rows'[i]].chat # call'[n].chat
      <4>1. i \in DOMAIN rows /\ j \in DOMAIN rows /\ rows[j] = n /\ rows'[i] = rows[i]
        BY <3>2, <3>6
      <4>2. rows[i] # n
        <5>1. i # j
          BY <1>2, <3>6, <4>1
        <5> QED
          BY <4>1, <5>1 DEF RowsInv
      <4>3. rows[i] \in Messages \ {n}
        BY <1>2, <4>1, <4>2
      <4>4. call[rows[i]].chat # c
        <5>1. \A x, y \in DOMAIN rows : rows[x] = rows[y] => x = y
          BY Zenon DEF RowsInv
        <5>2. History(c) \ {<<"user", n>>} = {}
          BY <3>1, <3>6
        <5> QED
          BY <1>2, <3>4, <4>1, <4>2, <5>1, <5>2, HistoryHolds, Zenon
      <4> QED
        BY <3>1, <3>3, <4>1, <4>3, <4>4
    <3> QED
      BY <3>5, <3>6, Zenon
  <2> QED
    BY <2>1, <2>2, <2>3, <2>4, Zenon DEF Onward
<1>5. Messages' = Messages
  BY DEF Messages
<1> QED
  BY <1>4, <1>5, Zenon DEF HistoryInv, HistoryIsSettled

LEMMA RestKept ==
  ASSUME StreamInv, RestInv, RowsInv, StoreTypeOK, Next
  PROVE  RestInv'
<1> DEFINE Stages == {"none", "asked", "answered", "there", "lost"}
           R == busy' \in BOOLEAN /\ hurt' \subseteq Messages /\ chatRow' \in [Chats -> Stages]
<1> SUFFICES R
  <2>1. rows' \in Seq(Messages) /\ Messages' = Messages
    BY RowsKept DEF Messages
  <2> QED
    BY <2>1, Zenon DEF RestInv
<1>1. busy \in BOOLEAN /\ hurt \subseteq Messages /\ chatRow \in [Chats -> Stages]
  BY DEF RestInv
<1>2. CASE \E c \in Chats : \/ Mount(c) \/ NewChat(c) \/ ChatShown(c) \/ ChatNotShown(c)
                            \/ ChatCommitted(c)
  <2>1. PICK c \in Chats, to \in Stages :
          chatRow' = [chatRow EXCEPT ![c] = to] /\ UNCHANGED <<busy, hurt>>
    BY <1>2 DEF Mount, NewChat, ChatShown, ChatNotShown, ChatCommitted, AskChat, AnswerChat,
       RefuseChat, CommitChat, ChatBecomes
  <2> QED
    BY <1>1, <2>1
<1>3. CASE \E t \in Tabs, m \in Messages : SendMessage(t, m)
  BY <1>1, <1>3 DEF SendMessage, Send, dbVars
<1>4. ASSUME NEW m \in Messages,
             Rejected(m) \/ Relayed(m) \/ Broken(m) \/ Left(m)
      PROVE  R
  BY <1>1, <1>4 DEF Rejected, Relayed, Broken, Left, Refuse, StoreFails,
     HistoryFails, Relay, ConnectFails, StreamBreaks, StreamEnds, StopsEarly, dbVars
<1>5. ASSUME NEW m \in Messages, Serving(m) PROVE R
  BY <1>1, <1>5 DEF Serving, Admit, Store, ReadHistory, Connect, EndOfStream, StreamEnds,
     Persist, PersistFails, dbVars
<1>6. ASSUME NEW m \in Messages, AgentRuns(m) PROVE R
  <2>1. UNCHANGED <<hurt, chatRow>>
    BY <1>6 DEF AgentRuns, Lock, LockFails, Token, Finish, Fail, Unlock, AgentCancelled, dbVars
  <2>2. busy' \in BOOLEAN
    BY <1>1, <1>6 DEF AgentRuns, Lock, LockFails, Token, Finish, Fail, Unlock, AgentCancelled
  <2> QED
    BY <1>1, <2>1, <2>2
<1>7. ASSUME NEW m \in Messages, ConnectionLost(m) PROVE R
  BY <1>1, <1>7 DEF ConnectionLost, Disconnect, dbVars
<1>8. CASE \E t \in Tabs : PageReloaded(t)
  BY <1>1, <1>8 DEF PageReloaded, Disconnect, dbVars
<1>9. CASE GatewayDies
  <2>1. busy' = busy /\ hurt' \subseteq Messages
    BY <1>1, <1>9 DEF GatewayDies, GatewayCrash
  <2>2. chatRow' = [c \in Chats |-> IF chatRow[c] \in {"asked", "answered"} THEN "lost"
                                                                       ELSE chatRow[c]]
    BY <1>9 DEF GatewayDies, GatewayCrash
  <2> QED
    BY <1>1, <2>1, <2>2
<1>10. CASE AgentDies \/ LockExpires
  BY <1>1, <1>10 DEF AgentDies, LockExpires, AgentCrash, Expire, dbVars
<1> QED
  BY <1>2, <1>3, <1>4, <1>5, <1>6, <1>7, <1>8, <1>9, <1>10, Zenon DEF Next
-----------------------------------------------------------------------------
(***************************************************************************)
(* The wire as the reader sees it.                                         *)
(***************************************************************************)
LEMMA ReadOn ==
  ASSUME NEW s \in Seq(Events), s # << >>, EofIsLast(s)
  PROVE  /\ Head(s) # "eof"
         /\ Head(s) = "token" => EofIsLast(Tail(s)) /\ (Told(s) => Told(Tail(s)))
<1>1. /\ Len(s) \in Nat \ {0} /\ Head(s) = s[1] /\ 1 \in DOMAIN s /\ DOMAIN s = 1..Len(s)
      /\ DOMAIN Tail(s) = 1..(Len(s) - 1)
      /\ \A i \in DOMAIN Tail(s) : Tail(s)[i] = s[i + 1]
  OBVIOUS
<1>2. Head(s) # "eof"
  BY <1>1 DEF EofIsLast
<1>3. ASSUME Head(s) = "token", NEW j \in DOMAIN s, s[j] \in Final
      PROVE  j - 1 \in DOMAIN Tail(s) /\ Tail(s)[j - 1] = s[j]
  <2>1. j # 1
    BY <1>1, <1>3 DEF Final
  <2>2. j - 1 \in DOMAIN Tail(s) /\ (j - 1) + 1 = j
    BY <1>1, <1>3, <2>1
  <2> QED
    BY <1>1, <2>2
<1>4. ASSUME Head(s) = "token", Told(s) PROVE Told(Tail(s))
  <2>1. PICK j \in DOMAIN s : s[j] \in Final
    BY <1>4 DEF Told
  <2>2. j - 1 \in DOMAIN Tail(s) /\ Tail(s)[j - 1] \in Final
    BY <1>3, <1>4, <2>1
  <2> QED
    BY <2>2 DEF Told
<1>5. ASSUME Head(s) = "token", NEW i \in DOMAIN Tail(s), Tail(s)[i] = "eof"
      PROVE  \E j \in DOMAIN Tail(s) : j < i /\ Tail(s)[j] \in Final
  <2>1. i \in Nat /\ i + 1 \in DOMAIN s /\ s[i + 1] = "eof"
    BY <1>1, <1>5
  <2>2. PICK j \in DOMAIN s : j < i + 1 /\ s[j] \in Final
    BY <2>1 DEF EofIsLast
  <2>3. j - 1 \in DOMAIN Tail(s) /\ Tail(s)[j - 1] \in Final
    BY <1>3, <1>5, <2>2
  <2>4. j - 1 < i
    BY <1>1, <2>1, <2>2
  <2> QED
    BY <2>3, <2>4
<1> QED
  BY <1>2, <1>4, <1>5 DEF EofIsLast

LEMMA SaidOn ==
  ASSUME NEW s \in Seq(Events), NEW e \in Events, EofIsLast(s)
  PROVE  /\ s \o <<e>> \in Seq(Events)
         /\ Told(s) => Told(s \o <<e>>)
         /\ e \in Final => Told(s \o <<e>>)
         /\ e # "eof" \/ Told(s) => EofIsLast(s \o <<e>>)
<1> DEFINE r == s \o <<e>>
<1>1. /\ r \in Seq(Events) /\ Len(s) \in Nat
      /\ DOMAIN r = 1..(Len(s) + 1) /\ DOMAIN s = 1..Len(s)
      /\ \A i \in DOMAIN s : r[i] = s[i]
      /\ r[Len(s) + 1] = e
  OBVIOUS
<1> HIDE DEF r
<1>2. /\ \A i \in DOMAIN s : i \in DOMAIN r /\ i < Len(s) + 1
      /\ \A i \in DOMAIN r : i \in DOMAIN s \/ i = Len(s) + 1
      /\ Len(s) + 1 \in DOMAIN r
  BY <1>1
<1>3. Told(s) => Told(r)
  BY <1>1, <1>2 DEF Told
<1>4. e \in Final => Told(r)
  BY <1>1, <1>2 DEF Told
<1>5. ASSUME e # "eof" \/ Told(s), NEW i \in DOMAIN r, r[i] = "eof"
      PROVE  \E j \in DOMAIN r : j < i /\ r[j] \in Final
  <2>1. CASE i \in DOMAIN s
    <3>1. PICK j \in DOMAIN s : j < i /\ s[j] \in Final
      BY <1>1, <1>5, <2>1 DEF EofIsLast
    <3> QED
      BY <1>1, <1>2, <3>1
  <2>2. CASE i = Len(s) + 1
    <3>1. PICK j \in DOMAIN s : s[j] \in Final
      BY <1>1, <1>5, <2>2 DEF Told
    <3> QED
      BY <1>1, <1>2, <2>2, <3>1
  <2> QED
    BY <1>2, <2>1, <2>2
<1>6. e # "eof" \/ Told(s) => EofIsLast(r)
  BY <1>5 DEF EofIsLast
<1> QED
  BY <1>1, <1>3, <1>4, <1>6 DEF r
-----------------------------------------------------------------------------
(***************************************************************************)
(* The readers.                                                            *)
(***************************************************************************)
LEMMA Handled ==
  ASSUME StreamInv, NEW m \in Messages,
         \/ Admit(m) \/ Refuse(m) \/ Store(m) \/ StoreFails(m) \/ ReadHistory(m)
         \/ HistoryFails(m) \/ Connect(m) \/ ConnectFails(m) \/ Relay(m) \/ EndOfStream(m)
         \/ StreamBreaks(m) \/ Persist(m) \/ PersistFails(m) \/ StopsEarly(m)
  PROVE  \A n \in Messages \ {m} : /\ call'[n] = call[n] /\ agent'[n] = agent[n]
                                    /\ wire'[n] = wire[n]
<1> USE DEF Goes, Ends, Moves, dbVars
<1>1. CASE Admit(m) \/ Refuse(m) \/ Store(m) \/ StoreFails(m) \/ HistoryFails(m)
           \/ ConnectFails(m) \/ Persist(m) \/ PersistFails(m)
  BY <1>1, Locals DEF Admit, Refuse, Store, StoreFails, HistoryFails, ConnectFails, Persist,
     PersistFails
<1>2. CASE ReadHistory(m)
  <2>1. /\ \A n \in Messages \ {m} : call'[n] = call[n]
        /\ UNCHANGED <<agent, wire>>
    BY <1>2, HistoryStep DEF ReadHistory
  <2> QED
    BY <2>1
<1>3. CASE Connect(m)
  BY <1>3, Locals DEF Connect
<1>4. CASE Relay(m)
  <2>1. \A n \in Messages \ {m} : call'[n] = call[n] /\ wire'[n] = wire[n]
    BY <1>4, Relaying, Zenon
  <2>2. agent' = agent
    BY <1>4 DEF Relay
  <2> QED
    BY <2>1, <2>2
<1>5. CASE EndOfStream(m) \/ StreamBreaks(m)
  BY <1>5, Locals DEF EndOfStream, StreamBreaks, StreamEnds
<1>6. CASE StopsEarly(m)
  BY <1>6, Locals DEF StopsEarly
<1> QED
  BY <1>1, <1>2, <1>3, <1>4, <1>5, <1>6

LEMMA Run ==
  ASSUME StreamInv, NEW m \in Messages, AgentRuns(m)
  PROVE  call' = call /\ \A n \in Messages \ {m} : agent'[n] = agent[n] /\ wire'[n] = wire[n]
<1>1. call' = call
  BY DEF AgentRuns, Lock, LockFails, Token, Finish, Fail, Unlock, AgentCancelled
<1>2. \A n \in Messages \ {m} : agent'[n] = agent[n]
  BY Locals DEF AgentRuns, Lock, LockFails, Token, Finish, Fail, Unlock, AgentCancelled, Moves
<1>3. \A n \in Messages \ {m} : wire'[n] = wire[n]
  BY Locals DEF AgentRuns, Lock, LockFails, Token, Finish, Fail, Unlock, AgentCancelled, Yields
<1> QED
  BY <1>1, <1>2, <1>3

LEMMA StoreTypes ==
  ASSUME StoreInv
  PROVE  /\ \A m \in Messages : received[m] \in 0..MaxTokens /\ received[m] >= 0
         /\ \A t \in Tabs : streamingContent[t] \in 0..MaxTokens
         /\ MaxTokens \in Nat /\ \A c \in Chats : TabOf(c) \in Tabs
BY IdsAssumption DEF StoreInv, StoreTypeOK, TabOf

\* A reader of a message a step leaves alone.
LEMMA ReadingStays ==
  ASSUME StreamInv, StoreInv, NEW n \in Messages,
         call'[n] = call[n], wire'[n] = wire[n], agent'[n] = agent[n],
         n \in readers' <=> n \in readers, received'[n] = received[n],
         n \in readers => streamingContent'[TabOfMessage(n)]
                            \in {0, streamingContent[TabOfMessage(n)]}
  PROVE  Reading(n)'
<1>1. Reading(n)
  BY DEF StoreInv
<1>2. TabOfMessage(n)' = TabOfMessage(n)
  BY DEF TabOfMessage
<1>3. CASE n \in readers
  <2>1. /\ call[n].at \in Working \ {"persist"} /\ call[n].online
        /\ received[n] = call[n].content
        /\ streamingContent[TabOfMessage(n)] <= received[n]
        /\ EofIsLast(wire[n])
        /\ agent[n].at = "unlock" => Told(wire[n])
    BY <1>1, <1>3, Zenon DEF Reading
  <2>2. streamingContent'[TabOfMessage(n)] <= received[n]
    BY <1>3, <2>1, StoreTypes
  <2>3. EofIsLast(wire'[n]) /\ (agent'[n].at = "unlock" => Told(wire'[n]))
    BY <2>1, Zenon
  <2>4. EofIsLast(wire[n])' /\ (agent[n].at = "unlock" => Told(wire[n]))'
    BY <2>3 DEF EofIsLast, Told
  <2> QED
    BY <1>2, <1>3, <2>1, <2>2, <2>4 DEF Reading
<1>4. CASE n \notin readers
  BY <1>1, <1>4 DEF Reading
<1> QED
  BY <1>3, <1>4

\* The reader of a message that moves on before the relay, or within it.
LEMMA ReadingGoes ==
  ASSUME StreamInv, StoreInv, NEW m \in Messages, m \in readers,
         call'[m].at \in Working \ {"persist"}, call'[m].online = call[m].online,
         call'[m].content = call[m].content, call'[m].chat = call[m].chat,
         EofIsLast(wire'[m]), agent'[m].at = "unlock" => Told(wire'[m]),
         UNCHANGED <<readers, received, streamingContent>>
  PROVE  Reading(m)'
<1>1. TabOfMessage(m)' = TabOfMessage(m)
  BY DEF TabOfMessage
<1>2. /\ call[m].online /\ received[m] = call[m].content
      /\ streamingContent[TabOfMessage(m)] <= received[m]
  BY Zenon DEF StoreInv, Reading
<1>3. EofIsLast(wire[m])' /\ (agent[m].at = "unlock" => Told(wire[m]))'
  BY DEF EofIsLast, Told
<1> QED
  BY <1>1, <1>2, <1>3 DEF Reading

LEMMA ReadingOver ==
  ASSUME NEW m \in Messages, m \notin readers', received'[m] = 0
  PROVE  Reading(m)'
BY DEF Reading

LEMMA NotReading ==
  ASSUME StoreInv, NEW m \in Messages, m \notin readers
  PROVE  received[m] = 0
BY DEF StoreInv, Reading

LEMMA ServedReader ==
  ASSUME StreamInv, StoreInv, NEW m \in Messages, Serving(m)
  PROVE  Reading(m)'
<1>1. UNCHANGED storeVars /\ UNCHANGED <<readers, received, streamingContent>>
  BY DEF Serving, storeVars
<1>2. CASE m \notin readers
  BY <1>1, <1>2, NotReading, ReadingOver
<1>3. CASE m \in readers
  <2>1. /\ call[m].at \in Working \ {"persist"} /\ call[m].online
        /\ EofIsLast(wire[m]) /\ call[m] \in CallType
    BY <1>3, Locals, Zenon DEF StoreInv, Reading
  <2>2. \A s : s = << >> => EofIsLast(s)
    BY DEF EofIsLast
  <2>3. CASE Admit(m) \/ Store(m)
    <3>1. PICK w \in {"store", "history"} : Goes(m, w)
      BY <2>3 DEF Admit, Store
    <3>2. /\ call'[m].at = w /\ call'[m].chat = call[m].chat
          /\ call'[m].online = call[m].online /\ call'[m].content = call[m].content
      BY <3>1, Going DEF Working
    <3>3. call[m].at \in {"check", "store"} /\ UNCHANGED <<agent, wire>>
      BY <2>3 DEF Admit, Store
    <3>4. wire'[m] = << >> /\ agent'[m].at # "unlock"
      BY <3>3, Locals DEF Begun, Leading
    <3> QED
      BY <1>1, <1>3, <2>2, <3>1, <3>2, <3>4, ReadingGoes DEF Working
  <2>4. CASE ReadHistory(m)
    <3> DEFINE h == History(call[m].chat) \ {<<"user", m>>}
    <3>1. /\ call' = [call EXCEPT ![m].at = "connect", ![m].history = h]
          /\ call[m].at = "history" /\ UNCHANGED <<agent, wire>>
      BY <2>4 DEF ReadHistory
    <3> HIDE DEF h
    <3>2. call'[m] = [call[m] EXCEPT !.at = "connect", !.history = h]
      BY <3>1, Locals
    <3>3. /\ call'[m].at = "connect" /\ call'[m].chat = call[m].chat
          /\ call'[m].online = call[m].online /\ call'[m].content = call[m].content
      BY <2>1, <3>2 DEF CallType
    <3>4. wire'[m] = << >> /\ agent'[m].at # "unlock"
      BY <3>1, Locals DEF Begun, Leading
    <3> QED
      BY <1>1, <1>3, <2>2, <3>3, <3>4, ReadingGoes DEF Working
  <2>5. CASE Connect(m)
    <3>1. /\ call' = [call EXCEPT ![m].at = "relay", ![m].history = {}]
          /\ call[m].at = "connect" /\ wire' = wire
          /\ agent' = [agent EXCEPT ![m].at = "lock"]
      BY <2>5 DEF Connect
    <3>2. call'[m] = [call[m] EXCEPT !.at = "relay", !.history = {}]
      BY <3>1, Locals
    <3>3. /\ call'[m].at = "relay" /\ call'[m].chat = call[m].chat
          /\ call'[m].online = call[m].online /\ call'[m].content = call[m].content
      BY <2>1, <3>2 DEF CallType
    <3>4. wire'[m] = << >> /\ agent'[m].at # "unlock"
      BY <3>1, Locals DEF Begun, AgentType
    <3> QED
      BY <1>1, <1>3, <2>2, <3>3, <3>4, ReadingGoes DEF Working
  <2>6. CASE EndOfStream(m)
    <3>1. wire[m] # << >> /\ Head(wire[m]) = "eof"
      BY <2>6 DEF EndOfStream, StreamEnds, NextEvent
    <3> QED
      BY <2>1, <3>1, Locals, ReadOn
  <2>7. CASE Persist(m) \/ PersistFails(m)
    BY <2>1, <2>7 DEF Persist, PersistFails
  <2> QED
    BY <2>3, <2>4, <2>5, <2>6, <2>7, Zenon DEF Serving
<1> QED
  BY <1>2, <1>3

\* What OnToken, OnDone and OnError do to the reader.
LEMMA HeardReader ==
  ASSUME StreamInv, StoreInv, NEW m \in Messages, NEW event \in {"error", "done"},
         Hear(m, event)
  PROVE  /\ readers' = readers \ {m} /\ received'[m] = 0
         /\ \A n \in Messages \ {m} : received'[n] = received[n]
         /\ \A t \in Tabs : streamingContent'[t] \in {0, streamingContent[t]}
<1>1. CASE m \notin readers
  <2>1. UNCHANGED <<readers, received, streamingContent>>
    BY <1>1 DEF Hear, Hears, storeVars
  <2> QED
    BY <1>1, <2>1, NotReading
<1>2. CASE m \in readers
  <2>1. OnDone(TabOfMessage(m), m) \/ OnError(TabOfMessage(m), m)
    BY <1>2 DEF Hear, Hears
  <2>2. readers' = readers \ {m} /\ received' = [received EXCEPT ![m] = 0]
    BY <2>1 DEF OnDone, OnError
  <2>3. \/ streamingContent' = [streamingContent EXCEPT ![TabOfMessage(m)] = 0]
        \/ streamingContent' = streamingContent
    BY <2>1 DEF OnDone, OnError
  <2>4. /\ received \in [Messages -> 0..MaxTokens]
        /\ streamingContent \in [Tabs -> 0..MaxTokens]
    BY DEF StoreInv, StoreTypeOK
  <2>5. received'[m] = 0 /\ \A n \in Messages \ {m} : received'[n] = received[n]
    BY <2>2, <2>4
  <2>6. \A t \in Tabs : streamingContent'[t] \in {0, streamingContent[t]}
    BY <2>3, <2>4
  <2> QED
    BY <2>2, <2>5, <2>6
<1> QED
  BY <1>1, <1>2

LEMMA TabOfReader ==
  ASSUME StreamInv, StoreInv, NEW m \in Messages, m \in readers
  PROVE  call[m].chat \in Chats /\ TabOfMessage(m) \in Tabs /\ call[m].at # "idle"
<1>1. call[m].at \in Working
  BY DEF StoreInv, Reading
<1>2. call[m].chat \in Chats /\ call[m].at # "idle"
  BY <1>1, Locals DEF Begun, Working
<1> QED
  BY <1>2, StoreTypes DEF TabOfMessage

LEMMA RelayedReader ==
  ASSUME StreamInv, StoreInv, NEW m \in Messages, Relayed(m), StreamInv'
  PROVE  Reading(m)'
<1> DEFINE e == NextEvent(m)
           t == TabOfMessage(m)
<1>1. /\ wire[m] # << >> /\ e = Head(wire[m]) /\ e \in {"token", "error", "done"}
      /\ call[m].at = "relay" /\ call'[m].at = "relay"
      /\ call'[m].chat = call[m].chat /\ call'[m].online = call[m].online
      /\ call'[m].content = Counts(m, e)
      /\ wire'[m] = Tail(wire[m]) /\ call[m].content \in Nat
  BY Relaying, Zenon DEF Relayed
<1>2. Hear(m, e) /\ agent' = agent
  BY DEF Relayed, Relay
<1> HIDE DEF e
<1>3. CASE e # "token"
  <2>1. m \notin readers' /\ received'[m] = 0
    BY <1>1, <1>2, <1>3, HeardReader
  <2> QED
    BY <2>1, ReadingOver
<1>4. CASE e = "token" /\ m \notin readers
  <2>1. UNCHANGED <<readers, received>>
    BY <1>2, <1>4 DEF Hear, Hears, storeVars
  <2> QED
    BY <1>4, <2>1, NotReading, ReadingOver
<1>5. CASE e = "token" /\ m \in readers
  <2>1. /\ streamingContent' = [streamingContent EXCEPT ![t] = @ + 1]
        /\ received' = [received EXCEPT ![m] = @ + 1] /\ readers' = readers
    BY <1>2, <1>5 DEF Hear, Hears, OnToken
  <2>2. t \in Tabs /\ m \in readers
    BY <1>5, TabOfReader
  <2>3. /\ call[m].online /\ received[m] = call[m].content
        /\ streamingContent[t] <= received[m]
        /\ EofIsLast(wire[m])
        /\ agent[m].at = "unlock" => Told(wire[m])
    BY <2>2, Zenon DEF StoreInv, Reading
  <2>4. streamingContent'[t] = streamingContent[t] + 1 /\ received'[m] = received[m] + 1
    BY <2>1, <2>2 DEF StoreInv, StoreTypeOK
  <2>5. streamingContent'[t] <= received'[m]
    BY <2>2, <2>3, <2>4, StoreTypes
  <2>6. t' = t
    BY <1>1 DEF TabOfMessage
  <2>7. call'[m].content = call[m].content + 1
    BY <1>1, <1>5, Zenon DEF Counts
  <2>8. EofIsLast(wire'[m]) /\ (Told(wire[m]) => Told(wire'[m]))
    BY <1>1, <1>5, <2>3, Locals, ReadOn, Zenon
  <2>9. EofIsLast(wire[m])' /\ (agent[m].at = "unlock" => Told(wire[m]))'
    <3>1. agent'[m].at = "unlock" => Told(wire'[m])
      BY <1>2, <2>3, <2>8
    <3> QED
      BY <2>8, <3>1 DEF EofIsLast, Told
  <2>10. call'[m].at \in Working \ {"persist"} /\ call'[m].online
    BY <1>1, <2>3 DEF Working
  <2>11. received'[m] = call'[m].content /\ m \in readers'
    BY <2>1, <2>2, <2>3, <2>4, <2>7
  <2> HIDE DEF t
  <2>12. (streamingContent[TabOfMessage(m)] <= received[m])'
    BY <2>5, <2>6 DEF t
  <2> QED
    BY <2>9, <2>10, <2>11, <2>12, Zenon DEF Reading
<1> QED
  BY <1>3, <1>4, <1>5

LEMMA RunningReader ==
  ASSUME StreamInv, StoreInv, NEW m \in Messages, AgentRuns(m)
  PROVE  Reading(m)'
<1>1. UNCHANGED <<readers, received, streamingContent>> /\ call' = call
  BY Run DEF AgentRuns, storeVars
<1>2. CASE m \notin readers
  BY <1>1, <1>2, NotReading, ReadingOver
<1>3. CASE m \in readers
  <2>1. /\ call[m].at \in Working \ {"persist"} /\ EofIsLast(wire[m])
        /\ agent[m].at = "unlock" => Told(wire[m])
    BY <1>3, Zenon DEF StoreInv, Reading
  <2> SUFFICES EofIsLast(wire'[m]) /\ (agent'[m].at = "unlock" => Told(wire'[m]))
    BY <1>1, <1>3, <2>1, ReadingGoes
  <2>2. wire[m] \in Seq(Events) /\ {"token", "abort", "done", "error", "eof"} \subseteq Events
    BY Locals DEF Events
  <2>3. \A e \in Events :
          /\ Told(wire[m]) => Told(wire[m] \o <<e>>)
          /\ e \in Final => Told(wire[m] \o <<e>>)
          /\ e # "eof" \/ Told(wire[m]) => EofIsLast(wire[m] \o <<e>>)
    BY <2>1, <2>2, SaidOn, Zenon
  <2>4. CASE Lock(m)
    <3>1. wire' = wire /\ agent'[m].at = "run"
      BY <2>4, Moving DEF Lock, Running
    <3> QED
      BY <2>1, <3>1
  <2>5. CASE LockFails(m)
    <3>1. wire'[m] = wire[m] \o <<"abort">> /\ agent'[m].at = "over"
      BY <2>5, Moving, Yielding DEF LockFails
    <3> QED
      BY <2>2, <2>3, <3>1
  <2>6. CASE Token(m)
    <3>1. wire'[m] = wire[m] \o <<"token">>
      BY <2>6, Yielding DEF Token
    <3>2. agent'[m].at = "run"
      BY <2>6, Locals DEF Token, At, AgentType
    <3> QED
      BY <2>2, <2>3, <3>1, <3>2
  <2>7. CASE Finish(m)
    <3>1. wire'[m] = wire[m] \o <<"done">>
      BY <2>7, Yielding DEF Finish
    <3> QED
      BY <2>2, <2>3, <3>1 DEF Final
  <2>8. CASE Fail(m)
    <3> DEFINE s == wire[m] \o <<"error">>
    <3>1. wire'[m] = wire[m] \o <<"error", "done">>
      BY <2>8, Yielding DEF Fail
    <3>2. wire'[m] = s \o <<"done">> /\ s \in Seq(Events)
      BY <2>2, <3>1
    <3>3. EofIsLast(s)
      BY <2>2, <2>3
    <3> HIDE DEF s
    <3>4. "done" \in Final /\ "done" # "eof" /\ "done" \in Events
      BY <2>2 DEF Final
    <3>5. EofIsLast(s \o <<"done">>) /\ Told(s \o <<"done">>)
      BY <3>2, <3>3, <3>4, SaidOn, Zenon
    <3> QED
      BY <3>2, <3>5
  <2>9. CASE Unlock(m)
    <3>1. wire'[m] = wire[m] \o <<"eof">> /\ agent'[m].at = "over" /\ agent[m].at = "unlock"
      BY <2>9, Moving, Yielding DEF Unlock, At
    <3> QED
      BY <2>1, <2>2, <2>3, <3>1
  <2>10. CASE AgentCancelled(m)
    <3>1. wire' = wire /\ agent'[m].at = "over"
      BY <2>10, Moving DEF AgentCancelled
    <3> QED
      BY <2>1, <3>1
  <2> QED
    BY <2>4, <2>5, <2>6, <2>7, <2>8, <2>9, <2>10, Zenon DEF AgentRuns
<1> QED
  BY <1>2, <1>3
-----------------------------------------------------------------------------
(***************************************************************************)
(* The tabs.                                                               *)
(***************************************************************************)
BubbleType == [role : {"user", "assistant"}, of : Messages, content : 0..MaxTokens]

LEMMA StoreParts ==
  ASSUME StoreInv
  PROVE  /\ chatId \in [Tabs -> Chats \cup {NoId}] /\ messages \in [Tabs -> Seq(BubbleType)]
         /\ streamingContent \in [Tabs -> 0..MaxTokens] /\ isStreaming \in [Tabs -> BOOLEAN]
         /\ readers \subseteq Messages /\ received \in [Messages -> 0..MaxTokens]
         /\ TabInv /\ OneReader
BY Zenon DEF StoreInv, StoreTypeOK, BubbleType

LEMMA StoreTyped ==
  ASSUME chatId' \in [Tabs -> Chats \cup {NoId}], messages' \in [Tabs -> Seq(BubbleType)],
         streamingContent' \in [Tabs -> 0..MaxTokens], isStreaming' \in [Tabs -> BOOLEAN],
         readers' \subseteq Messages, received' \in [Messages -> 0..MaxTokens]
  PROVE  StoreTypeOK'
<1>1. Messages' = Messages /\ BubbleType' = BubbleType
  BY DEF Messages, BubbleType
<1> QED
  BY <1>1, Zenon DEF StoreTypeOK, BubbleType

LEMMA ReadersStayInTab ==
  ASSUME StreamInv, StoreInv, \A n \in Messages : Onward(n)
  PROVE  \A n \in readers : n \in Messages /\ TabOfMessage(n)' = TabOfMessage(n)
<1>1. ASSUME NEW n \in readers PROVE n \in Messages /\ TabOfMessage(n)' = TabOfMessage(n)
  <2>1. n \in Messages
    BY StoreParts
  <2>2. call'[n].chat = call[n].chat
    BY <2>1, TabOfReader DEF Onward
  <2> QED
    BY <2>1, <2>2 DEF TabOfMessage
<1> QED
  BY <1>1

LEMMA ReadersSame ==
  ASSUME StreamInv, StoreInv, \A n \in Messages : Onward(n),
         readers' = readers, isStreaming' = isStreaming
  PROVE  OneReader'
<1>1. ASSUME NEW t \in Tabs PROVE ReadersOf(t)' = ReadersOf(t)
  BY ReadersStayInTab DEF ReadersOf
<1>2. OneReader
  BY StoreParts
<1> QED
  BY <1>1, <1>2, Zenon DEF OneReader

\* A reader ends, and nobody reads in its tab.
LEMMA ReaderDropped ==
  ASSUME StreamInv, StoreInv, \A n \in Messages : Onward(n), NEW m \in readers,
         readers' = readers \ {m},
         isStreaming' = [isStreaming EXCEPT ![TabOfMessage(m)] = FALSE]
  PROVE  OneReader'
<1>1. /\ m \in Messages /\ TabOfMessage(m) \in Tabs /\ isStreaming \in [Tabs -> BOOLEAN]
      /\ OneReader
  BY StoreParts, TabOfReader
<1>2. ASSUME NEW t \in Tabs PROVE ReadersOf(t)' = ReadersOf(t) \ {m}
  BY ReadersStayInTab DEF ReadersOf
<1>3. ASSUME NEW t \in Tabs
      PROVE  /\ isStreaming'[t] <=> ReadersOf(t)' # {}
             /\ \A k, n \in ReadersOf(t)' : k = n
  <2>1. /\ isStreaming[t] <=> ReadersOf(t) # {}
        /\ \A k, n \in ReadersOf(t) : k = n
    BY <1>1 DEF OneReader
  <2>2. CASE t = TabOfMessage(m)
    <3>1. m \in ReadersOf(t)
      BY <2>2 DEF ReadersOf
    <3>2. ReadersOf(t) \ {m} = {}
      BY <2>1, <3>1
    <3>3. ~isStreaming'[t]
      BY <1>1, <2>2
    <3> QED
      BY <1>2, <3>2, <3>3
  <2>3. CASE t # TabOfMessage(m)
    <3>1. m \notin ReadersOf(t)
      BY <2>3 DEF ReadersOf
    <3>2. ReadersOf(t)' = ReadersOf(t)
      BY <1>2, <3>1
    <3>3. isStreaming'[t] = isStreaming[t]
      BY <1>1, <2>3
    <3> QED
      BY <2>1, <3>2, <3>3
  <2> QED
    BY <2>2, <2>3
<1> QED
  BY <1>3, Zenon DEF OneReader

LEMMA Heard ==
  ASSUME StreamInv, StoreInv, \A n \in Messages : Onward(n),
         NEW m \in Messages, NEW event, Hear(m, event),
         event = "token" /\ m \in readers => received[m] < MaxTokens
  PROVE  StoreTypeOK' /\ TabInv' /\ OneReader'
<1> DEFINE t == TabOfMessage(m)
<1> USE StoreParts
<1>1. CASE m \notin readers
  <2>1. /\ UNCHANGED <<chatId, messages, streamingContent, isStreaming, readers, received>>
    BY <1>1 DEF Hear, Hears, storeVars
  <2>2. StoreTypeOK' /\ TabInv'
    BY <2>1, StoreTyped DEF TabInv
  <2> QED
    BY <2>1, <2>2, ReadersSame
<1>2. CASE m \in readers /\ event = "token"
  <2>1. t \in Tabs /\ streamingContent[t] <= received[m]
    BY <1>2, TabOfReader DEF StoreInv, Reading
  <2>2. /\ streamingContent' = [streamingContent EXCEPT ![t] = @ + 1]
        /\ received' = [received EXCEPT ![m] = @ + 1]
        /\ UNCHANGED <<chatId, messages, isStreaming, readers>>
    BY <1>2 DEF Hear, Hears, OnToken
  <2>3. streamingContent[t] + 1 \in 0..MaxTokens /\ received[m] + 1 \in 0..MaxTokens
    BY <1>2, <2>1, StoreTypes
  <2>4. /\ streamingContent' \in [Tabs -> 0..MaxTokens]
        /\ received' \in [Messages -> 0..MaxTokens]
    BY <2>2, <2>3
  <2>5. StoreTypeOK' /\ TabInv'
    BY <2>2, <2>4, StoreTyped DEF TabInv
  <2> QED
    BY <2>2, <2>5, ReadersSame
<1>3. CASE m \in readers /\ event = "done"
  <2>1. t \in Tabs /\ received[m] \in 0..MaxTokens /\ 0 \in 0..MaxTokens
    BY <1>3, TabOfReader, StoreTypes
  <2>2. /\ messages' = [messages EXCEPT ![t] = Append(@, Bubble("assistant", m, received[m]))]
        /\ streamingContent' = [streamingContent EXCEPT ![t] = 0]
        /\ isStreaming' = [isStreaming EXCEPT ![t] = FALSE]
        /\ readers' = readers \ {m} /\ received' = [received EXCEPT ![m] = 0]
        /\ chatId' = chatId
    BY <1>3 DEF Hear, Hears, OnDone, FullText
  <2>3. Append(messages[t], Bubble("assistant", m, received[m])) \in Seq(BubbleType)
    <3>1. Bubble("assistant", m, received[m]) \in BubbleType
      BY <2>1 DEF Bubble, BubbleType
    <3>2. messages[t] \in Seq(BubbleType)
      BY <2>1
    <3> QED
      BY <3>1, <3>2
  <2>4. messages' \in [Tabs -> Seq(BubbleType)]
    BY <2>2, <2>3
  <2>5. /\ streamingContent' \in [Tabs -> 0..MaxTokens] /\ isStreaming' \in [Tabs -> BOOLEAN]
        /\ received' \in [Messages -> 0..MaxTokens]
    BY <2>1, <2>2
  <2>6. StoreTypeOK' /\ TabInv'
    BY <2>2, <2>4, <2>5, StoreTyped DEF TabInv
  <2> QED
    BY <1>3, <2>2, <2>6, ReaderDropped
<1>4. CASE m \in readers /\ event = "error"
  <2>1. t \in Tabs /\ 0 \in 0..MaxTokens
    BY <1>4, TabOfReader, StoreTypes
  <2>2. /\ isStreaming' = [isStreaming EXCEPT ![t] = FALSE]
        /\ readers' = readers \ {m} /\ received' = [received EXCEPT ![m] = 0]
        /\ UNCHANGED <<chatId, messages, streamingContent>>
    BY <1>4 DEF Hear, Hears, OnError
  <2>3. isStreaming' \in [Tabs -> BOOLEAN] /\ received' \in [Messages -> 0..MaxTokens]
    BY <2>1, <2>2
  <2>4. StoreTypeOK' /\ TabInv'
    BY <2>2, <2>3, StoreTyped DEF TabInv
  <2> QED
    BY <1>4, <2>2, <2>4, ReaderDropped
<1> QED
  BY <1>1, <1>2, <1>3, <1>4 DEF Hear, Hears

LEMMA AllStay ==
  ASSUME StreamInv, StoreInv, UNCHANGED <<call, agent, wire, readers, received>>,
         \A t \in Tabs : streamingContent'[t] \in {0, streamingContent[t]}
  PROVE  \A n \in Messages : Reading(n)'
<1>1. ASSUME NEW n \in Messages PROVE Reading(n)'
  <2>1. n \in readers => TabOfMessage(n) \in Tabs
    BY TabOfReader
  <2> QED
    BY <2>1, ReadingStays
<1> QED
  BY <1>1

LEMMA Closing ==
  ASSUME StoreTypeOK', TabInv', OneReader', \A n \in Messages : Reading(n)'
  PROVE  StoreInv'
<1>1. Messages' = Messages
  BY DEF Messages
<1> QED
  BY <1>1, Zenon DEF StoreInv

\* The store does not move.
LEMMA Silent ==
  ASSUME StreamInv, StoreInv, \A n \in Messages : Onward(n), UNCHANGED storeVars
  PROVE  StoreTypeOK' /\ TabInv' /\ OneReader'
<1>1. UNCHANGED <<chatId, messages, streamingContent, isStreaming, readers, received>>
  BY DEF storeVars
<1>2. StoreTypeOK' /\ TabInv'
  BY <1>1, StoreParts, StoreTyped DEF TabInv
<1> QED
  BY <1>1, <1>2, ReadersSame

LEMMA ChatOpens ==
  ASSUME StreamInv, StoreInv, \A n \in Messages : Onward(n), NEW c \in Chats,
         Mount(c) \/ NewChat(c) \/ ChatShown(c) \/ ChatNotShown(c) \/ ChatCommitted(c)
  PROVE  StoreInv'
<1> USE StoreParts
<1>1. UNCHANGED <<call, agent, wire>>
  BY DEF Mount, NewChat, ChatShown, ChatNotShown, ChatCommitted, AskChat, AnswerChat,
     RefuseChat, CommitChat, ChatBecomes
<1>2. TabOf(c) \in Tabs /\ 0 \in 0..MaxTokens /\ << >> \in Seq(BubbleType)
  BY StoreTypes
<1>3. CASE Mount(c) \/ ChatNotShown(c) \/ ChatCommitted(c)
  <2>1. UNCHANGED storeVars /\ UNCHANGED <<readers, received, streamingContent>>
    BY <1>3 DEF Mount, ChatNotShown, ChatCommitted, storeVars
  <2> QED
    BY <1>1, <2>1, Silent, AllStay, Closing
<1>4. CASE NewChat(c)
  <2> DEFINE t == TabOf(c)
  <2>1. /\ ~isStreaming[t]
        /\ chatId' = [chatId EXCEPT ![t] = NoId]
        /\ messages' = [messages EXCEPT ![t] = << >>]
        /\ streamingContent' = [streamingContent EXCEPT ![t] = 0]
        /\ isStreaming' = [isStreaming EXCEPT ![t] = FALSE]
        /\ UNCHANGED <<readers, received>>
    BY <1>4 DEF NewChat, ResetChat, MayReset
  <2>2. isStreaming' = isStreaming
    BY <1>2, <2>1
  <2>3. /\ chatId' \in [Tabs -> Chats \cup {NoId}] /\ messages' \in [Tabs -> Seq(BubbleType)]
        /\ streamingContent' \in [Tabs -> 0..MaxTokens]
    BY <1>2, <2>1
  <2>4. \A u \in Tabs : streamingContent'[u] \in {0, streamingContent[u]}
    BY <2>1
  <2>5. TabInv'
    BY <2>1 DEF TabInv
  <2>6. StoreTypeOK'
    BY <2>1, <2>2, <2>3, StoreTyped
  <2> QED
    BY <1>1, <2>1, <2>2, <2>4, <2>5, <2>6, ReadersSame, AllStay, Closing
<1>5. CASE ChatShown(c)
  <2> DEFINE t == TabOf(c)
  <2>1. /\ chatId' = [chatId EXCEPT ![t] = c]
        /\ messages' = [messages EXCEPT ![t] = << >>]
        /\ streamingContent' = [streamingContent EXCEPT ![t] = 0]
        /\ UNCHANGED <<isStreaming, readers, received>>
    BY <1>5 DEF ChatShown, ShowChat
  <2>2. /\ chatId' \in [Tabs -> Chats \cup {NoId}] /\ messages' \in [Tabs -> Seq(BubbleType)]
        /\ streamingContent' \in [Tabs -> 0..MaxTokens]
    BY <1>2, <2>1
  <2>3. \A u \in Tabs : streamingContent'[u] \in {0, streamingContent[u]}
    BY <2>1
  <2>4. TabInv'
    BY <2>1 DEF TabInv
  <2>5. StoreTypeOK'
    BY <2>1, <2>2, StoreTyped
  <2> QED
    BY <1>1, <2>1, <2>3, <2>4, <2>5, ReadersSame, AllStay, Closing
<1> QED
  BY <1>3, <1>4, <1>5

LEMMA Sent ==
  ASSUME StreamInv, StoreInv, \A n \in Messages : Onward(n),
         NEW t \in Tabs, NEW m \in Messages, SendMessage(t, m)
  PROVE  StoreInv'
<1> USE StoreParts
<1>1. /\ ~isStreaming[t] /\ chatId[t] # NoId
      /\ messages' = [messages EXCEPT ![t] = Append(@, Bubble("user", m, 0))]
      /\ isStreaming' = [isStreaming EXCEPT ![t] = TRUE]
      /\ streamingContent' = [streamingContent EXCEPT ![t] = 0]
      /\ readers' = readers \cup {m} /\ UNCHANGED <<chatId, received>>
  BY DEF SendMessage, Submit
<1> DEFINE v == [Idle EXCEPT !.at = "check", !.chat = chatId[t], !.online = TRUE]
<1>2. /\ call[m].at = "idle" /\ call' = [call EXCEPT ![m] = v] /\ UNCHANGED <<agent, wire>>
  BY DEF SendMessage, Send
<1>3. /\ v.at = "check" /\ v.chat = chatId[t] /\ v.online /\ v.content = 0
  BY DEF Idle
<1> HIDE DEF v
<1>4. call'[m] = v /\ \A n \in Messages \ {m} : call'[n] = call[n]
  BY <1>2, Updated, Locals
<1>5. m \notin readers
  BY <1>2 DEF StoreInv, Reading, Working
<1>6. TabOf(chatId[t]) = t /\ TabOfMessage(m)' = t
  <2>1. TabOf(chatId[t]) = t
    BY <1>1 DEF TabInv
  <2> QED
    BY <1>3, <1>4, <2>1 DEF TabOfMessage
<1>7. ASSUME NEW n \in Messages PROVE Reading(n)'
  <2>1. CASE n = m
    <3>1. received'[m] = 0 /\ m \in readers'
      BY <1>1, <1>5, NotReading
    <3>2. wire'[m] = << >> /\ agent'[m].at # "unlock"
      BY <1>2, Locals DEF Begun, Leading
    <3>3. (streamingContent[TabOfMessage(m)] <= received[m])'
      BY <1>1, <1>6, <3>1
    <3>4. EofIsLast(wire[m])'
      BY <3>2 DEF EofIsLast
    <3> QED
      BY <1>3, <1>4, <2>1, <3>1, <3>2, <3>3, <3>4 DEF Reading, Working
  <2>2. CASE n # m
    <3>1. n \in readers => TabOfMessage(n) \in Tabs
      BY TabOfReader
    <3>2. n \in readers =>
            streamingContent'[TabOfMessage(n)] \in {0, streamingContent[TabOfMessage(n)]}
      BY <1>1, <3>1
    <3> QED
      BY <1>1, <1>2, <1>4, <2>2, <3>2, ReadingStays
  <2> QED
    BY <2>1, <2>2
<1>8. OneReader'
  <2>1. ASSUME NEW u \in Tabs
        PROVE  ReadersOf(u)' = IF u = t THEN ReadersOf(u) \cup {m} ELSE ReadersOf(u)
    BY <1>1, <1>6, ReadersStayInTab DEF ReadersOf
  <2>2. ReadersOf(t) = {}
    BY <1>1 DEF OneReader
  <2>3. ASSUME NEW u \in Tabs
        PROVE  /\ isStreaming'[u] <=> ReadersOf(u)' # {}
               /\ \A k, n \in ReadersOf(u)' : k = n
    <3>1. CASE u = t
      <4>1. ReadersOf(u)' = {m} /\ isStreaming'[u] = TRUE
        BY <1>1, <2>1, <2>2, <3>1
      <4> QED
        BY <4>1
    <3>2. CASE u # t
      <4>1. ReadersOf(u)' = ReadersOf(u) /\ isStreaming'[u] = isStreaming[u]
        BY <1>1, <2>1, <3>2
      <4> QED
        BY <4>1 DEF OneReader
    <3> QED
      BY <3>1, <3>2
  <2> QED
    BY <2>3, Zenon DEF OneReader
<1>9. StoreTypeOK' /\ TabInv'
  <2>1. 0 \in 0..MaxTokens
    BY StoreTypes
  <2>2. Append(messages[t], Bubble("user", m, 0)) \in Seq(BubbleType)
    <3>1. Bubble("user", m, 0) \in BubbleType /\ messages[t] \in Seq(BubbleType)
      BY <2>1 DEF Bubble, BubbleType
    <3> QED
      BY <3>1
  <2>3. messages' \in [Tabs -> Seq(BubbleType)]
    BY <1>1, <2>2
  <2>4. /\ isStreaming' \in [Tabs -> BOOLEAN] /\ streamingContent' \in [Tabs -> 0..MaxTokens]
        /\ readers' \subseteq Messages
    BY <1>1, <2>1
  <2> QED
    BY <1>1, <2>3, <2>4, StoreTyped DEF TabInv
<1> QED
  BY <1>7, <1>8, <1>9, Closing

\* The steps of one handler or one run.
LEMMA OneMessage ==
  ASSUME StreamInv, StoreInv, StreamInv', \A n \in Messages : Onward(n), NEW m \in Messages,
         Rejected(m) \/ Serving(m) \/ Relayed(m) \/ Broken(m) \/ Left(m) \/ AgentRuns(m)
  PROVE  StoreInv'
<1>1. ASSUME NEW n \in Messages, n # m,
             call'[n] = call[n], wire'[n] = wire[n], agent'[n] = agent[n],
             n \in readers' <=> n \in readers, received'[n] = received[n],
             \A t \in Tabs : \/ t # TabOfMessage(n)
                             \/ streamingContent'[t] \in {0, streamingContent[t]}
      PROVE  Reading(n)'
  <2>1. n \in readers => TabOfMessage(n) \in Tabs
    BY TabOfReader
  <2> QED
    BY <1>1, <2>1, ReadingStays
<1>2. CASE Serving(m) \/ Left(m) \/ AgentRuns(m)
  <2>1. UNCHANGED storeVars /\ UNCHANGED <<readers, received, streamingContent>>
    BY <1>2 DEF Serving, Left, AgentRuns, storeVars
  <2>2. \A n \in Messages \ {m} : /\ call'[n] = call[n] /\ agent'[n] = agent[n]
                                  /\ wire'[n] = wire[n]
    <3>1. CASE Serving(m) \/ Left(m)
      BY <3>1, Handled, Zenon DEF Serving, Left
    <3>2. CASE AgentRuns(m)
      BY <3>2, Run
    <3> QED
      BY <1>2, <3>1, <3>2
  <2>3. Reading(m)'
    <3>1. CASE Left(m)
      <4>1. m \notin readers
        BY <3>1 DEF StoreInv, Reading, Left, StopsEarly
      <4> QED
        BY <2>1, <4>1, NotReading, ReadingOver
    <3> QED
      BY <1>2, <3>1, ServedReader, RunningReader
  <2>4. \A n \in Messages : Reading(n)'
    BY <1>1, <2>1, <2>2, <2>3
  <2> QED
    BY <2>1, <2>4, Silent, Closing
<1>3. CASE Rejected(m) \/ Broken(m)
  <2>1. Hear(m, "error")
    BY <1>3 DEF Rejected, Broken
  <2>2. \A n \in Messages \ {m} : /\ call'[n] = call[n] /\ agent'[n] = agent[n]
                                  /\ wire'[n] = wire[n]
    BY <1>3, Handled, Zenon DEF Rejected, Broken
  <2>3. /\ readers' = readers \ {m} /\ received'[m] = 0
        /\ \A n \in Messages \ {m} : received'[n] = received[n]
        /\ \A t \in Tabs : streamingContent'[t] \in {0, streamingContent[t]}
    BY <2>1, HeardReader
  <2>4. \A n \in Messages : Reading(n)'
    BY <1>1, <2>2, <2>3, ReadingOver
  <2>5. StoreTypeOK' /\ TabInv' /\ OneReader'
    BY <2>1, Heard
  <2> QED
    BY <2>4, <2>5, Closing
<1>4. CASE Relayed(m)
  <2> DEFINE e == NextEvent(m)
  <2>1. Hear(m, e) /\ Relay(m)
    BY <1>4 DEF Relayed
  <2>2. \A n \in Messages \ {m} : /\ call'[n] = call[n] /\ agent'[n] = agent[n]
                                  /\ wire'[n] = wire[n]
    BY <2>1, Handled, Zenon
  <2>3. e \in {"token", "error", "done"} /\ call'[m].content = Counts(m, e)
    BY <2>1, Relaying, Zenon
  <2> HIDE DEF e
  <2>4. e = "token" /\ m \in readers => received[m] < MaxTokens
    <3> SUFFICES ASSUME e = "token", m \in readers PROVE received[m] < MaxTokens
      OBVIOUS
    <3>1. call'[m].content = call[m].content + 1 /\ received[m] = call[m].content
      BY <2>3 DEF Counts, StoreInv, Reading
    <3>2. call'[m].content \in 0..MaxTokens /\ call[m].content \in 0..MaxTokens
      <4>1. call'[m] \in CallType
        BY DEF StreamInv, Local, CallType, Messages
      <4> QED
        BY <4>1, Locals DEF CallType
    <3> QED
      BY <3>1, <3>2, IdsAssumption
  <2>5. StoreTypeOK' /\ TabInv' /\ OneReader'
    BY <2>1, <2>4, Heard
  <2>6. ASSUME NEW n \in Messages, n # m PROVE Reading(n)'
    <3>1. CASE e \in {"error", "done"}
      <4>1. /\ readers' = readers \ {m}
            /\ \A k \in Messages \ {m} : received'[k] = received[k]
            /\ \A t \in Tabs : streamingContent'[t] \in {0, streamingContent[t]}
        BY <2>1, <3>1, HeardReader
      <4> QED
        BY <1>1, <2>2, <2>6, <4>1
    <3>2. CASE m \notin readers
      <4>1. UNCHANGED <<readers, received, streamingContent>>
        BY <2>1, <3>2 DEF Hear, Hears, storeVars
      <4> QED
        BY <1>1, <2>2, <2>6, <4>1
    <3>3. CASE e = "token" /\ m \in readers
      <4>1. /\ streamingContent' = [streamingContent EXCEPT ![TabOfMessage(m)] = @ + 1]
            /\ received' = [received EXCEPT ![m] = @ + 1] /\ readers' = readers
        BY <2>1, <3>3 DEF Hear, Hears, OnToken
      <4>2. received'[n] = received[n]
        BY <2>6, <4>1, StoreParts
      <4>3. CASE n \in readers
        <5>1. TabOfMessage(n) # TabOfMessage(m) /\ TabOfMessage(n) \in Tabs
          <6>1. TabOfMessage(n) \in Tabs
            BY <4>3, TabOfReader
          <6> QED
            BY <2>6, <3>3, <4>3, <6>1, StoreParts DEF OneReader, ReadersOf
        <5>2. streamingContent'[TabOfMessage(n)] = streamingContent[TabOfMessage(n)]
          BY <4>1, <5>1, StoreParts
        <5> QED
          BY <2>2, <2>6, <4>1, <4>2, <5>2, ReadingStays
      <4>4. CASE n \notin readers
        BY <4>1, <4>2, <4>4, NotReading, ReadingOver
      <4> QED
        BY <4>3, <4>4
    <3> QED
      BY <2>3, <3>1, <3>2, <3>3
  <2>7. Reading(m)'
    BY <1>4, RelayedReader
  <2> QED
    BY <2>5, <2>6, <2>7, Closing
<1> QED
  BY <1>2, <1>3, <1>4

LEMMA ManyMessages ==
  ASSUME StreamInv, StoreInv, \A n \in Messages : Onward(n),
         \/ (\E m \in Messages : ConnectionLost(m)) \/ (\E t \in Tabs : PageReloaded(t))
         \/ GatewayDies \/ AgentDies \/ LockExpires
  PROVE  StoreInv'
<1> USE StoreParts
<1>1. CASE \E m \in Messages : ConnectionLost(m)
  <2>1. PICK m \in Messages : Disconnect({m}) /\ Hear(m, "error")
    BY <1>1 DEF ConnectionLost
  <2>2. \A n \in Messages \ {m} : /\ call'[n] = call[n] /\ agent'[n] = agent[n]
                                  /\ wire'[n] = wire[n]
    BY <2>1 DEF Disconnect
  <2>3. /\ readers' = readers \ {m} /\ received'[m] = 0
        /\ \A n \in Messages \ {m} : received'[n] = received[n]
        /\ \A t \in Tabs : streamingContent'[t] \in {0, streamingContent[t]}
    BY <2>1, HeardReader
  <2>4. ASSUME NEW n \in Messages, n # m PROVE Reading(n)'
    <3>1. n \in readers => TabOfMessage(n) \in Tabs
      BY TabOfReader
    <3> QED
      BY <2>2, <2>3, <2>4, <3>1, ReadingStays
  <2>5. Reading(m)'
    BY <2>3, ReadingOver
  <2>6. StoreTypeOK' /\ TabInv' /\ OneReader'
    BY <2>1, Heard
  <2> QED
    BY <2>4, <2>5, <2>6, Closing
<1>2. CASE \E t \in Tabs : PageReloaded(t)
  <2>1. PICK t \in Tabs : PageReloaded(t)
    BY <1>2
  <2> DEFINE open == {m \in Messages : call[m].online /\ TabOfMessage(m) = t}
  <2>2. Disconnect(open) /\ Reload(t, open)
    BY <2>1 DEF PageReloaded
  <2>3. /\ chatId' = [chatId EXCEPT ![t] = NoId]
        /\ messages' = [messages EXCEPT ![t] = << >>]
        /\ streamingContent' = [streamingContent EXCEPT ![t] = 0]
        /\ isStreaming' = [isStreaming EXCEPT ![t] = FALSE]
        /\ readers' = readers \ open
        /\ received' = [m \in Messages |-> IF m \in open THEN 0 ELSE received[m]]
    BY <2>2 DEF Reload
  <2>4. \A n \in Messages \ open : /\ call'[n] = call[n] /\ agent'[n] = agent[n]
                                   /\ wire'[n] = wire[n]
    BY <2>2 DEF Disconnect
  <2>5. \A n \in readers : n \in Messages /\ call[n].online
    BY DEF StoreInv, Reading
  <2>6. \A n \in readers : n \in open <=> TabOfMessage(n) = t
    BY <2>5
  <2> HIDE DEF open
  <2>7. ASSUME NEW n \in Messages PROVE Reading(n)'
    <3>1. CASE n \in open
      BY <2>3, <3>1, ReadingOver
    <3>2. CASE n \notin open
      <4>1. n \in readers => TabOfMessage(n) \in Tabs
        BY TabOfReader
      <4>2. n \in readers =>
              streamingContent'[TabOfMessage(n)] \in {0, streamingContent[TabOfMessage(n)]}
        BY <2>3, <4>1
      <4> QED
        BY <2>3, <2>4, <3>2, <4>2, ReadingStays
    <3> QED
      BY <3>1, <3>2
  <2>8. 0 \in 0..MaxTokens /\ << >> \in Seq(BubbleType)
    BY StoreTypes
  <2>9. /\ chatId' \in [Tabs -> Chats \cup {NoId}] /\ messages' \in [Tabs -> Seq(BubbleType)]
        /\ streamingContent' \in [Tabs -> 0..MaxTokens] /\ isStreaming' \in [Tabs -> BOOLEAN]
        /\ received' \in [Messages -> 0..MaxTokens] /\ readers' \subseteq Messages
    BY <2>3, <2>8
  <2>10. StoreTypeOK'
    BY <2>9, StoreTyped
  <2>11. TabInv'
    BY <2>3 DEF TabInv
  <2>12. ASSUME NEW u \in Tabs
         PROVE  /\ isStreaming'[u] <=> ReadersOf(u)' # {}
                /\ \A k, n \in ReadersOf(u)' : k = n
    <3>1. ReadersOf(u)' = IF u = t THEN {} ELSE ReadersOf(u)
      BY <2>3, <2>6, ReadersStayInTab DEF ReadersOf
    <3>2. isStreaming'[u] = IF u = t THEN FALSE ELSE isStreaming[u]
      BY <2>3
    <3> QED
      BY <3>1, <3>2 DEF OneReader
  <2>13. OneReader'
    BY <2>12, Zenon DEF OneReader
  <2> QED
    BY <2>7, <2>10, <2>11, <2>13, Closing
<1>3. CASE GatewayDies
  <2>1. /\ isStreaming' = [t \in Tabs |-> FALSE] /\ readers' = {}
        /\ received' = [m \in Messages |-> 0]
        /\ UNCHANGED <<chatId, messages, streamingContent>>
    BY <1>3 DEF GatewayDies, AllBreak
  <2>2. ASSUME NEW n \in Messages PROVE Reading(n)'
    BY <2>1, ReadingOver
  <2>3. isStreaming' \in [Tabs -> BOOLEAN] /\ received' \in [Messages -> 0..MaxTokens]
    BY <2>1, StoreTypes
  <2>4. StoreTypeOK' /\ TabInv'
    BY <2>1, <2>3, StoreTyped DEF TabInv
  <2>5. \A u \in Tabs : ReadersOf(u)' = {} /\ ~isStreaming'[u]
    BY <2>1 DEF ReadersOf
  <2>6. OneReader'
    BY <2>5 DEF OneReader
  <2> QED
    BY <2>2, <2>4, <2>6, Closing
<1>4. CASE AgentDies
  <2> DEFINE dead == {m \in Messages : agent[m].at \in Running}
  <2>1. /\ agent' = [m \in Messages |-> IF m \in dead THEN [agent[m] EXCEPT !.at = "over"]
                                                       ELSE agent[m]]
        /\ wire' = [m \in Messages |-> IF m \in dead /\ call[m].at = "relay"
                                       THEN Append(wire[m], "abort") ELSE wire[m]]
        /\ UNCHANGED call /\ UNCHANGED storeVars
        /\ UNCHANGED <<readers, received, streamingContent>>
    BY <1>4 DEF AgentDies, AgentCrash, storeVars
  <2>2. ASSUME NEW n \in Messages PROVE Reading(n)'
    <3>1. CASE n \notin dead
      BY <2>1, <3>1, ReadingStays
    <3>2. CASE n \notin readers
      BY <2>1, <3>2, NotReading, ReadingOver
    <3>3. CASE n \in dead /\ n \in readers
      <4>1. /\ call[n].at \in Working \ {"persist"} /\ EofIsLast(wire[n])
            /\ wire[n] \in Seq(Events) /\ agent[n] \in AgentType
        BY <3>3, Locals, Zenon DEF StoreInv, Reading
      <4>2. agent'[n].at = "over"
        BY <2>1, <3>3, <4>1 DEF AgentType
      <4>3. EofIsLast(wire'[n])
        <5>1. /\ "abort" \in Events /\ "abort" # "eof"
              /\ Append(wire[n], "abort") = wire[n] \o <<"abort">>
          BY <4>1 DEF Events
        <5>2. EofIsLast(wire[n] \o <<"abort">>)
          BY <4>1, <5>1, SaidOn, Zenon
        <5>3. wire'[n] = wire[n] \/ wire'[n] = wire[n] \o <<"abort">>
          BY <2>1, <5>1
        <5> QED
          BY <4>1, <5>2, <5>3, Zenon
      <4> QED
        BY <2>1, <3>3, <4>1, <4>2, <4>3, ReadingGoes
    <3> QED
      BY <3>1, <3>2, <3>3
  <2> QED
    BY <2>1, <2>2, Silent, Closing
<1>5. CASE LockExpires
  <2>1. /\ UNCHANGED <<call, agent, wire>> /\ UNCHANGED storeVars
        /\ UNCHANGED <<readers, received, streamingContent>>
    BY <1>5 DEF LockExpires, Expire, storeVars
  <2> QED
    BY <2>1, AllStay, Silent, Closing
<1> QED
  BY <1>1, <1>2, <1>3, <1>4, <1>5

LEMMA StoreKept ==
  ASSUME StreamInv, StoreInv, Next
  PROVE  StoreInv'
<1>1. StreamInv' /\ \A n \in Messages : Onward(n)
  BY StreamStep DEF StoreInv
<1> QED
  BY <1>1, ChatOpens, Sent, OneMessage, ManyMessages, Zenon DEF Next
-----------------------------------------------------------------------------
(***************************************************************************)
(* The bubbles.                                                            *)
(***************************************************************************)
LEMMA StaysBacked ==
  ASSUME NEW m \in Messages, NEW content, Backed(m, content), Onward(m)
  PROVE  /\ Quiet(m)' /\ content = agent'[m].sent
         /\ \/ answer'[m] = [status |-> "complete", content |-> content]
            \/ /\ call'[m].at \in {"relay", "persist"}
               /\ call'[m].status = "complete" /\ call'[m].content = content
            \/ m \in hurt'
<1>1. Quiet(m)' /\ content = agent'[m].sent
  BY Zenon DEF Backed, Onward
<1>2. CASE answer[m] = [status |-> "complete", content |-> content]
  <2>1. answer[m].status \in Settled
    BY <1>2 DEF Settled
  <2>2. answer'[m] = answer[m]
    BY <2>1, Zenon DEF Onward
  <2> QED
    BY <1>1, <1>2, <2>2, Zenon
<1>3. CASE /\ call[m].at \in {"relay", "persist"}
           /\ call[m].status = "complete" /\ call[m].content = content
  BY <1>1, <1>3, Zenon DEF Onward
<1>4. CASE m \in hurt
  BY <1>1, <1>4, Zenon DEF Onward
<1> QED
  BY <1>2, <1>3, <1>4, Zenon DEF Backed

\* The bubble that done adds.
LEMMA DoneIsBacked ==
  ASSUME StreamInv, StoreInv, NEW m \in Messages, m \in readers, Relay(m), NextEvent(m) = "done"
  PROVE  /\ Quiet(m)' /\ received[m] = agent'[m].sent
         /\ call'[m].at \in {"relay", "persist"}
         /\ call'[m].status = "complete" /\ call'[m].content = received[m]
<1> DEFINE e == NextEvent(m)
<1>1. /\ wire[m] # << >> /\ e = Head(wire[m]) /\ call[m].at = "relay" /\ call'[m].at = "relay"
      /\ call'[m].content = Counts(m, e) /\ call'[m].status = StatusAfter(m, e)
      /\ call[m].content \in Nat /\ agent[m].sent \in 0..MaxTokens
  BY Relaying, Zenon
<1>2. PICK k \in 0..MaxTokens :
        /\ TokensFirst(wire[m], k) /\ agent[m].sent = call[m].content + k
        /\ agent[m].at \in {"lock", "run"} => k = Len(wire[m])
  BY Relaying, Zenon
<1>3. /\ k \in Nat /\ wire[m] \in Seq(Events) /\ agent' = agent
      /\ received[m] = call[m].content /\ agent[m].at \in Running \cup {"over"}
  BY <1>1, IdsAssumption, Locals DEF Relay, StoreInv, Reading, Counted
<1>4. e = "done" /\ e # "token"
  OBVIOUS
<1> HIDE DEF e
<1>5. k = 0
  BY <1>1, <1>2, <1>3, <1>4, Popped, Zenon
<1>6. Len(wire[m]) # 0
  BY <1>1, <1>3
<1>7. agent'[m].at \in {"unlock", "over"}
  BY <1>2, <1>3, <1>5, <1>6 DEF Running
<1>8. call'[m].content = call[m].content /\ call'[m].status = "complete"
  BY <1>1, <1>4, Zenon DEF Counts, StatusAfter
<1>9. Quiet(m)'
  BY <1>1, <1>7 DEF Quiet
<1>10. agent'[m].sent = call[m].content
  BY <1>1, <1>2, <1>3, <1>5
<1> QED
  BY <1>1, <1>3, <1>8, <1>9, <1>10

LEMMA BubblesStep ==
  ASSUME StoreInv, Next, NEW t \in Tabs
  PROVE  \/ messages'[t] \in {messages[t], << >>}
         \/ \E m \in Messages : messages'[t] = Append(messages[t], Bubble("user", m, 0))
         \/ \E m \in Messages :
              /\ m \in readers /\ Relay(m) /\ NextEvent(m) = "done"
              /\ messages'[t] = Append(messages[t], Bubble("assistant", m, received[m]))
<1> USE StoreParts
<1>1. CASE \E c \in Chats : \/ Mount(c) \/ NewChat(c) \/ ChatShown(c) \/ ChatNotShown(c)
                            \/ ChatCommitted(c)
  <2>1. PICK c \in Chats :
          messages' = messages \/ messages' = [messages EXCEPT ![TabOf(c)] = << >>]
    BY <1>1 DEF Mount, NewChat, ChatShown, ChatNotShown, ChatCommitted, ResetChat, ShowChat,
       storeVars
  <2> QED
    BY <2>1
<1>2. CASE \E u \in Tabs, m \in Messages : SendMessage(u, m)
  <2>1. PICK u \in Tabs, m \in Messages :
          messages' = [messages EXCEPT ![u] = Append(@, Bubble("user", m, 0))]
    BY <1>2 DEF SendMessage, Submit
  <2> QED
    BY <2>1
<1>3. ASSUME NEW m \in Messages,
             Rejected(m) \/ Serving(m) \/ Broken(m) \/ Left(m) \/ ConnectionLost(m)
             \/ AgentRuns(m)
      PROVE  messages' = messages
  BY <1>3 DEF Rejected, Serving, Broken, Left, ConnectionLost, AgentRuns, Hear, Hears, OnError,
     storeVars
<1>4. ASSUME NEW m \in Messages, Relayed(m)
      PROVE  \/ messages' = messages
             \/ /\ m \in readers /\ Relay(m) /\ NextEvent(m) = "done"
                /\ messages' = [messages EXCEPT ![TabOfMessage(m)] =
                                   Append(@, Bubble("assistant", m, received[m]))]
  BY <1>4 DEF Relayed, Hear, Hears, OnToken, OnDone, OnError, FullText, storeVars
<1>5. ASSUME NEW m \in Messages, Relayed(m), messages'[t] # messages[t]
      PROVE  /\ m \in readers /\ Relay(m) /\ NextEvent(m) = "done"
             /\ messages'[t] = Append(messages[t], Bubble("assistant", m, received[m]))
  BY <1>4, <1>5
<1>6. CASE \E u \in Tabs : PageReloaded(u)
  <2>1. PICK u \in Tabs : messages' = [messages EXCEPT ![u] = << >>]
    BY <1>6 DEF PageReloaded, Reload
  <2> QED
    BY <2>1
<1>7. CASE GatewayDies \/ AgentDies \/ LockExpires
  BY <1>7 DEF GatewayDies, AgentDies, LockExpires, AllBreak, storeVars
<1>8. ASSUME NEW m \in Messages,
             Rejected(m) \/ Serving(m) \/ Relayed(m) \/ Broken(m) \/ Left(m)
             \/ ConnectionLost(m) \/ AgentRuns(m)
      PROVE  \/ messages'[t] \in {messages[t], << >>}
             \/ \E n \in Messages :
                  /\ n \in readers /\ Relay(n) /\ NextEvent(n) = "done"
                  /\ messages'[t] = Append(messages[t], Bubble("assistant", n, received[n]))
  <2>1. CASE messages'[t] = messages[t]
    BY <2>1
  <2>2. CASE messages'[t] # messages[t]
    <3>1. Relayed(m)
      BY <1>3, <1>8, <2>2
    <3> QED
      BY <1>5, <2>2, <3>1, Zenon
  <2> QED
    BY <2>1, <2>2
<1> QED
  BY <1>1, <1>2, <1>6, <1>7, <1>8, Zenon DEF Next

LEMMA OlderBubble ==
  ASSUME NEW S, NEW s \in Seq(S), NEW x \in S, NEW i \in DOMAIN Append(s, x),
         Append(s, x)[i] # x
  PROVE  i \in DOMAIN s /\ Append(s, x)[i] = s[i]
OBVIOUS

LEMMA BubbleBacked ==
  ASSUME StreamInv, StoreInv, ShownInv, Next, NEW t \in Tabs, NEW i \in DOMAIN messages'[t],
         NEW b, b = messages'[t][i], b.role = "assistant"
  PROVE  Backed(b.of, b.content)'
<1>1. \A n \in Messages : Onward(n)
  BY StreamStep DEF StoreInv
<1>2. ASSUME NEW m \in Messages, NEW content, Backed(m, content)
      PROVE  Backed(m, content)'
  BY <1>1, <1>2, StaysBacked, Zenon DEF Backed
<1> DEFINE s == messages[t]
           r == messages'[t]
<1>3. s \in Seq(BubbleType)
  BY StoreParts
<1>4. ASSUME NEW j \in DOMAIN s, b = s[j]
      PROVE  Backed(b.of, b.content)'
  <2>1. b \in BubbleType
    BY <1>3, <1>4
  <2>2. b.of \in Messages
    BY <2>1 DEF BubbleType
  <2>3. Backed(b.of, b.content)
    BY <1>4 DEF ShownInv
  <2> QED
    BY <1>2, <2>2, <2>3, Zenon
<1>5. CASE r \in {s, << >>}
  BY <1>4, <1>5
<1>6. ASSUME NEW x \in BubbleType, r = Append(s, x), b # x
      PROVE  Backed(b.of, b.content)'
  <2>1. i \in DOMAIN Append(s, x) /\ Append(s, x)[i] # x
    BY <1>6
  <2>2. i \in DOMAIN s /\ Append(s, x)[i] = s[i]
    BY <1>3, <1>6, <2>1, OlderBubble
  <2>3. b = s[i]
    BY <1>6, <2>2
  <2> QED
    BY <1>4, <2>2, <2>3, Zenon
<1>7. ASSUME NEW m \in Messages, r = Append(s, Bubble("user", m, 0))
      PROVE  Backed(b.of, b.content)'
  <2>1. Bubble("user", m, 0) \in BubbleType /\ Bubble("user", m, 0).role = "user"
    BY IdsAssumption DEF Bubble, BubbleType
  <2>2. b # Bubble("user", m, 0)
    BY <2>1
  <2> QED
    BY <1>6, <1>7, <2>1, <2>2, Zenon
<1>8. ASSUME NEW m \in Messages, m \in readers, Relay(m), NextEvent(m) = "done",
             r = Append(s, Bubble("assistant", m, received[m]))
      PROVE  Backed(b.of, b.content)'
  <2> DEFINE x == Bubble("assistant", m, received[m])
  <2>1. x \in BubbleType /\ x.of = m /\ x.content = received[m]
    BY StoreParts DEF Bubble, BubbleType
  <2>2. CASE b = x
    <3>1. Backed(m, b.content)'
      BY <1>8, <2>1, <2>2, DoneIsBacked DEF Backed
    <3> QED
      BY <2>1, <2>2, <3>1
  <2>3. CASE b # x
    BY <1>6, <1>8, <2>1, <2>3, Zenon
  <2> QED
    BY <2>2, <2>3
<1> QED
  BY <1>5, <1>7, <1>8, BubblesStep, Zenon

LEMMA ShownKept ==
  ASSUME StreamInv, StoreInv, ShownInv, Next
  PROVE  ShownInv'
<1>1. ASSUME NEW t \in Tabs, NEW i \in DOMAIN messages'[t], NEW b, b = messages'[t][i],
             b.role = "assistant"
      PROVE  Backed(b.of, b.content)'
  BY <1>1, BubbleBacked, Zenon
<1> QED
  BY <1>1, Zenon DEF ShownInv, Backed, Quiet
-----------------------------------------------------------------------------
(***************************************************************************)
(* The invariant.                                                          *)
(***************************************************************************)
IInv == StreamInv /\ RestInv /\ RowsInv /\ HistoryInv /\ StoreInv /\ ShownInv

LEMMA Initially == Init => IInv
<1> SUFFICES ASSUME Init PROVE IInv
  OBVIOUS
<1>1. /\ call = [m \in Messages |-> Idle]
      /\ agent = [m \in Messages |-> [at |-> "none", sent |-> 0]]
      /\ wire = [m \in Messages |-> << >>]
      /\ answer = [m \in Messages |-> [status |-> "none", content |-> 0]]
      /\ 0 \in 0..MaxTokens
  BY IdsAssumption DEF Init, StreamInit
<1>2. Idle \in CallType /\ Idle.at = "idle" /\ Idle.online = FALSE
      /\ Idle.status = "incomplete" /\ Idle.content = 0 /\ Idle.history = {}
  BY <1>1 DEF Idle, DefaultStatus, CallType, Settled
<1>3. ASSUME NEW m \in Messages
      PROVE  Local(m)
  <2>1. /\ call[m] = Idle /\ agent[m] = [at |-> "none", sent |-> 0] /\ wire[m] = << >>
        /\ answer[m] = [status |-> "none", content |-> 0]
    BY <1>1
  <2>2. agent[m] \in AgentType /\ answer[m] \in AnswerType /\ wire[m] \in Seq(Events)
    BY <1>1, <2>1 DEF AgentType, AnswerType
  <2>3. Begun(m) /\ Counted(m) /\ Answered(m)
    BY <1>2, <2>1 DEF Begun, Counted, Answered, Working, Stored
  <2> QED
    BY <1>2, <2>1, <2>2, <2>3, Zenon DEF Local
<1>4. Shape
  BY <1>1 DEF Shape
<1>5. RestInv /\ RowsInv
  <2>1. /\ busy = FALSE /\ rows = << >> /\ hurt = {} /\ chatRow = [c \in Chats |-> "none"]
        /\ DOMAIN rows = {}
    BY DEF Init, StreamInit
  <2> QED
    <3>1. rows \in Seq(Messages) /\ RowsInv
      BY <2>1 DEF RowsInv
    <3>2. chatRow \in [Chats -> {"none", "asked", "answered", "there", "lost"}]
      BY <2>1
    <3> QED
      BY <2>1, <3>1, <3>2 DEF RestInv
<1>6. HistoryInv
  BY <1>1, <1>2 DEF HistoryInv, HistoryIsSettled
<1>7. messages = [t \in Tabs |-> << >>] /\ readers = {} /\ received = [m \in Messages |-> 0]
      /\ chatId = [t \in Tabs |-> NoId] /\ isStreaming = [t \in Tabs |-> FALSE]
      /\ streamingContent = [t \in Tabs |-> 0]
  BY DEF Init, StoreInit
<1>8. StoreTypeOK
  BY <1>1, <1>7 DEF StoreTypeOK
<1>9. TabInv /\ OneReader /\ \A m \in Messages : Reading(m)
  BY <1>7 DEF TabInv, OneReader, ReadersOf, Reading
<1>10. ShownInv
  BY <1>7 DEF ShownInv
<1> QED
  BY <1>3, <1>4, <1>5, <1>6, <1>8, <1>9, <1>10, Zenon DEF IInv, StreamInv, StoreInv

LEMMA Stuttering ==
  ASSUME IInv, UNCHANGED vars
  PROVE  IInv'
<1>1. /\ UNCHANGED <<call, agent, wire, busy, rows, answer, chatRow, hurt>>
      /\ UNCHANGED <<chatId, messages, streamingContent, isStreaming, readers, received>>
  BY DEF vars, streamVars, storeVars, dbVars
<1>2. StreamInv'
  BY <1>1, NothingMoves DEF IInv
<1>3. RestInv' /\ RowsInv'
  BY <1>1 DEF IInv, RestInv, RowsInv
<1>4. HistoryInv'
  BY <1>1 DEF IInv, HistoryInv, HistoryIsSettled
<1>5. StoreInv'
  <2>1. StoreTypeOK' /\ TabInv'
    BY <1>1 DEF IInv, StoreInv, StoreTypeOK, TabInv
  <2>2. OneReader'
    BY <1>1 DEF IInv, StoreInv, OneReader, ReadersOf, TabOfMessage
  <2>3. ASSUME NEW m \in Messages PROVE Reading(m)'
    <3>1. Reading(m)
      BY DEF IInv, StoreInv
    <3> QED
      BY <1>1, <3>1 DEF Reading, TabOfMessage, EofIsLast, Told
  <2>4. Messages' = Messages
    BY DEF Messages
  <2> QED
    BY <2>1, <2>2, <2>3, <2>4, Zenon DEF StoreInv
<1>6. ShownInv'
  BY <1>1 DEF IInv, ShownInv, Backed, Quiet
<1> QED
  BY <1>2, <1>3, <1>4, <1>5, <1>6 DEF IInv

\* The invariant: its parts are kept together by every step.
THEOREM Invariance == Spec => []IInv
<1>1. ASSUME IInv, Next PROVE IInv'
  <2>1. StoreTypeOK
    BY <1>1 DEF IInv, StoreInv
  <2> QED
    BY <1>1, <2>1, StreamStep, RestKept, RowsKept, HistoryKept, StoreKept, ShownKept, Zenon
    DEF IInv
<1>2. IInv /\ [Next]_vars => IInv'
  BY <1>1, Stuttering
<1> QED
  BY <1>2, Initially, PTL DEF Spec

LEMMA StreamTyped ==
  ASSUME StreamInv, RestInv
  PROVE  StreamTypeOK
<1>1. /\ call = [m \in Messages |-> call[m]] /\ agent = [m \in Messages |-> agent[m]]
      /\ wire = [m \in Messages |-> wire[m]] /\ answer = [m \in Messages |-> answer[m]]
  BY DEF StreamInv, Shape
<1>2. /\ \A m \in Messages : call[m] \in CallType /\ agent[m] \in AgentType
      /\ \A m \in Messages : wire[m] \in Seq(Events) /\ answer[m] \in AnswerType
  BY DEF StreamInv, Local
<1>3. /\ call \in [Messages -> CallType] /\ agent \in [Messages -> AgentType]
      /\ wire \in [Messages -> Seq(Events)] /\ answer \in [Messages -> AnswerType]
  BY <1>1, <1>2
<1> QED
  BY <1>3, Zenon DEF StreamTypeOK, RestInv, CallType, AgentType, AnswerType

\* Types; a tab reads at most one stream and shows that it does exactly as long, with any
\* number of tabs, chats, reloads and answers that come late (stores/chat.ts:64-118).
THEOREM ReadersAreSound == Spec => []ReaderInv
<1>1. IInv => ReaderInv
  BY StreamTyped DEF IInv, ReaderInv, TypeOK, StoreInv
<1> QED
  BY <1>1, Invariance, PTL

\* A tab that waits is waiting for a request the gateway still works on (api/chat.ts:133-136).
THEOREM WaitingIsHeard == Spec => []NobodyWaitsInVain
<1>1. IInv => NobodyWaitsInVain
  BY DEF IInv, StoreInv, StoreTypeOK, Reading, NobodyWaitsInVain
<1> QED
  BY <1>1, Invariance, PTL

\* An answer shown as finished is all the agent said, and is stored or about to be, unless
\* browser, gateway or database fails (chats.py:205-238, api/chat.ts:100-118).
THEOREM ShownIsTrue == Spec => []ShownIsStored
<1>1. IInv => ShownIsStored
  BY DEF IInv, ShownInv, Backed, ShownIsStored
<1> QED
  BY <1>1, Invariance, PTL

\* A row says complete only of all the agent said (chats.py:173-175, 205-213).
THEOREM CompleteAnswers == Spec => []CompleteIsWhole
<1>1. IInv => CompleteIsWhole
  BY DEF IInv, StreamInv, Local, Answered, CompleteIsWhole
<1> QED
  BY <1>1, Invariance, PTL

\* No answer stays in status streaming when its request is over, unless browser, gateway or
\* database failed (chats.py:230-257).
THEOREM StreamingEnds == Spec => []StreamingIsAccounted
<1>1. IInv => StreamingIsAccounted
  BY DEF IInv, StreamInv, Local, Answered, StreamingIsAccounted
<1> QED
  BY <1>1, Invariance, PTL

\* A history holds only settled messages of its own chat, and some if there are any
\* (chat_service.py:176-206, chats.py:151-158).
THEOREM HistoriesAreSettled == Spec => []HistoryIsSettled
<1>1. IInv => HistoryIsSettled
  BY DEF IInv, HistoryInv
<1> QED
  BY <1>1, Invariance, PTL
=============================================================================
