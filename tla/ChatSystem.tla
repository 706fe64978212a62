----------------------------- MODULE ChatSystem -----------------------------
(***************************************************************************)
(* Browsers, gateway, agent, Redis and database together: ChatStream with  *)
(* the stores of ChatStore.  What the gateway sends is heard by the reader *)
(* of the message in the same step: a connection keeps its order, and      *)
(* nothing else happens to what is on its way.                             *)
(***************************************************************************)
EXTENDS ChatStream, ChatStore

vars == <<streamVars, storeVars>>

TypeOK == StreamTypeOK /\ StoreTypeOK
Init == StreamInit /\ StoreInit
-----------------------------------------------------------------------------
TabOfMessage(m) == TabOf(call[m].chat)
Hear(m, event) == Hears(TabOfMessage(m), m, event)

\* onMounted: the view opens, perhaps while the answer of an earlier visit streams.
Mount(c) == AskChat(c) /\ UNCHANGED storeVars
NewChat(c) == AskChat(c) /\ ResetChat(TabOf(c))
ChatShown(c) == AnswerChat(c) /\ ShowChat(c)
ChatNotShown(c) == RefuseChat(c) /\ UNCHANGED storeVars
ChatCommitted(c) == CommitChat(c) /\ UNCHANGED storeVars

SendMessage(t, m) == Submit(t, m) /\ Send(m, chatId[t])

\* The handler answers an error status.
Rejected(m) == (Refuse(m) \/ StoreFails(m) \/ HistoryFails(m)) /\ Hear(m, "error")

\* Steps of the handler the browser does not notice, a line it gets, and a failure it is told.
Serving(m) == (Admit(m) \/ Store(m) \/ ReadHistory(m) \/ Connect(m) \/ EndOfStream(m)
               \/ Persist(m) \/ PersistFails(m)) /\ UNCHANGED storeVars
Relayed(m) == Relay(m) /\ Hear(m, NextEvent(m))
\* Mutant: the browser is not told.
Mutant_Broken(m) == (ConnectFails(m) \/ StreamBreaks(m)) /\ UNCHANGED storeVars
Broken(m) == (ConnectFails(m) \/ StreamBreaks(m)) /\ Hear(m, "error")

Left(m) == StopsEarly(m) /\ UNCHANGED storeVars

\* The connection breaks under the reader.
ConnectionLost(m) == Disconnect({m}) /\ Hear(m, "error")

\* The page is loaded again, all its connections close.
PageReloaded(t) ==
  LET open == {m \in Messages : call[m].online /\ TabOfMessage(m) = t} IN
  /\ open # {}
  /\ Disconnect(open) /\ Reload(t, open)

GatewayDies == GatewayCrash /\ AllBreak

AgentRuns(m) == (Lock(m) \/ LockFails(m) \/ Token(m) \/ Finish(m) \/ Fail(m) \/ Unlock(m)
                 \/ AgentCancelled(m)) /\ UNCHANGED storeVars
AgentDies == AgentCrash /\ UNCHANGED storeVars
LockExpires == Expire /\ UNCHANGED storeVars

Next ==
  \/ \E c \in Chats : \/ Mount(c) \/ NewChat(c) \/ ChatShown(c) \/ ChatNotShown(c)
                      \/ ChatCommitted(c)
  \/ \E t \in Tabs, m \in Messages : SendMessage(t, m)
  \/ \E m \in Messages : \/ Rejected(m) \/ Serving(m) \/ Relayed(m) \/ Broken(m) \/ Left(m)
                         \/ ConnectionLost(m) \/ AgentRuns(m)
  \/ \E t \in Tabs : PageReloaded(t)
  \/ GatewayDies \/ AgentDies \/ LockExpires

Spec == Init /\ [][Next]_vars
-----------------------------------------------------------------------------
ReadersOf(t) == {m \in readers : TabOfMessage(m) = t}

\* Safety.  A tab reads at most one stream, and shows that it does exactly as long: the
\* callbacks of two streams never mix in one bubble (stores/chat.ts:64-118, and the guards
\* of ChatView.vue's handleSend and of its button for a new chat).
OneReader ==
  \A t \in Tabs : /\ isStreaming[t] <=> ReadersOf(t) # {}
                  /\ \A m, n \in ReadersOf(t) : m = n

\* Safety.  The types, and OneReader.
ReaderInv == TypeOK /\ OneReader

\* Safety.  An answer a tab shows as finished is everything the agent said, and what the
\* gateway stores, or will store when its stream has ended, unless browser, gateway or
\* database fails on the way (chats.py:205-238, api/chat.ts:100-118).
ShownIsStored ==
  \A t \in Tabs : \A i \in DOMAIN messages[t] :
    LET b == messages[t][i] IN
    b.role = "assistant" =>
      /\ b.content = agent[b.of].sent
      /\ \/ answer[b.of] = [status |-> "complete", content |-> b.content]
         \/ /\ call[b.of].at \in {"relay", "persist"}
            /\ call[b.of].status = "complete" /\ call[b.of].content = b.content
         \/ b.of \in hurt

\* Safety.  A row says complete only of all the agent said (chats.py:173-175, 205-213: the
\* status is incomplete until done has come through).
CompleteIsWhole ==
  \A m \in Messages : answer[m].status = "complete" => answer[m].content = agent[m].sent

\* Safety.  When a request is over its answer does not stay in status streaming, whatever
\* agent and Redis did, unless browser, gateway or database failed (chats.py:230-257).
StreamingIsAccounted ==
  \A m \in Messages :
    call[m].at = "over" /\ answer[m].status = "streaming" => m \in hurt

\* Safety.  The history given to the agent is of the message's own chat, without the message
\* and without an answer still being streamed; and it is not empty when the chat has earlier
\* rows (chat_service.py:176-206, chats.py:151-158).
HistoryIsSettled ==
  \A m \in Messages :
    LET h == call[m].history IN
    /\ \A e \in h : /\ e[2] # m
                    /\ call[e[2]].chat = call[m].chat
                    /\ e[1] = "assistant" => answer[e[2]].status \in Settled
    /\ call[m].at = "connect" /\ h = {} =>
         \A i, j \in DOMAIN rows :
           i < j /\ rows[j] = m => call[rows[i]].chat # call[m].chat

\* Safety.  A tab that waits is waiting for a request the gateway still works on: it is told
\* how every request ends, though api/chat.ts:133-136 calls nobody back when a stream ends
\* without done, error or a token.
NobodyWaitsInVain == \A m \in readers : call[m].at \in Working
=============================================================================
