----------------------------- MODULE ChatStore ------------------------------
(***************************************************************************)
(* The chat in the browser: the Pinia store (frontend stores/chat.ts), the *)
(* reader of the event stream (api/chat.ts) and the view that drives them  *)
(* (views/ChatView.vue).  A tab has one store.  Each call of sendMessage   *)
(* has a reader with a full text of its own, but all readers of a tab call *)
(* back into the same store, whatever chat it shows by then.               *)
(*                                                                         *)
(* Events come from ChatStream; ChatSystem joins the two.                  *)
(***************************************************************************)
EXTENDS ChatIds

NoId == << >> \* null
-----------------------------------------------------------------------------
VARIABLES
  chatId,           \* of each tab
  messages,         \* the bubbles a tab shows
  streamingContent, \* tokens in the bubble that grows
  isStreaming,
  readers,          \* messages whose reader is running
  received          \* fullContent of each reader, in tokens

storeVars == <<chatId, messages, streamingContent, isStreaming, readers, received>>

Bubble(role, m, content) == [role |-> role, of |-> m, content |-> content]

StoreTypeOK ==
  /\ chatId \in [Tabs -> Chats \cup {NoId}]
  /\ messages \in [Tabs -> Seq([role : {"user", "assistant"}, of : Messages,
                                content : 0..MaxTokens])]
  /\ streamingContent \in [Tabs -> 0..MaxTokens]
  /\ isStreaming \in [Tabs -> BOOLEAN]
  /\ readers \subseteq Messages
  /\ received \in [Messages -> 0..MaxTokens]

StoreInit ==
  /\ chatId = [t \in Tabs |-> NoId]
  /\ messages = [t \in Tabs |-> << >>]
  /\ streamingContent = [t \in Tabs |-> 0]
  /\ isStreaming = [t \in Tabs |-> FALSE]
  /\ readers = {}
  /\ received = [m \in Messages |-> 0]
-----------------------------------------------------------------------------
\* Mutants: a button that is never disabled; a bubble filled with what the store shows
\* instead of what the reader has read.
Mutant_MayReset(t) == TRUE
Mutant_FullText(t, m) == streamingContent[t]

\* handleNewChat: its button is disabled while an answer streams.  resetChat, then createChat.
MayReset(t) == ~isStreaming[t]

ResetChat(t) ==
  /\ MayReset(t)
  /\ chatId' = [chatId EXCEPT ![t] = NoId]
  /\ messages' = [messages EXCEPT ![t] = << >>]
  /\ streamingContent' = [streamingContent EXCEPT ![t] = 0]
  /\ isStreaming' = [isStreaming EXCEPT ![t] = FALSE]
  /\ UNCHANGED <<readers, received>>

\* createChat returned: startNewChat goes on, without a look at isStreaming.
ShowChat(c) ==
  /\ chatId' = [chatId EXCEPT ![TabOf(c)] = c]
  /\ messages' = [messages EXCEPT ![TabOf(c)] = << >>]
  /\ streamingContent' = [streamingContent EXCEPT ![TabOf(c)] = 0]
  /\ UNCHANGED <<isStreaming, readers, received>>

\* handleSend and sendMessage, up to the fetch.
Submit(t, m) ==
  /\ ~isStreaming[t] /\ chatId[t] # NoId
  /\ messages' = [messages EXCEPT ![t] = Append(@, Bubble("user", m, 0))]
  /\ isStreaming' = [isStreaming EXCEPT ![t] = TRUE]
  /\ streamingContent' = [streamingContent EXCEPT ![t] = 0]
  /\ readers' = readers \cup {m}
  /\ UNCHANGED <<chatId, received>>

\* The callbacks.  A reader returns at the first done or error; the rest of the stream is
\* not read.
OnToken(t, m) ==
  /\ streamingContent' = [streamingContent EXCEPT ![t] = @ + 1]
  /\ received' = [received EXCEPT ![m] = @ + 1]
  /\ UNCHANGED <<chatId, messages, isStreaming, readers>>

FullText(t, m) == received[m]

OnDone(t, m) ==
  /\ messages' = [messages EXCEPT ![t] = Append(@, Bubble("assistant", m, FullText(t, m)))]
  /\ streamingContent' = [streamingContent EXCEPT ![t] = 0]
  /\ isStreaming' = [isStreaming EXCEPT ![t] = FALSE]
  /\ readers' = readers \ {m}
  /\ received' = [received EXCEPT ![m] = 0]
  /\ UNCHANGED chatId

\* An error event, a status that is not 2xx, or a connection that breaks.
OnError(t, m) ==
  /\ isStreaming' = [isStreaming EXCEPT ![t] = FALSE]
  /\ readers' = readers \ {m}
  /\ received' = [received EXCEPT ![m] = 0]
  /\ UNCHANGED <<chatId, messages, streamingContent>>

\* What the reader of m does with an event.
Hears(t, m, event) ==
  IF m \notin readers THEN UNCHANGED storeVars
  ELSE \/ event = "token" /\ OnToken(t, m)
       \/ event = "done" /\ OnDone(t, m)
       \/ event = "error" /\ OnError(t, m)

\* Every reader loses its connection.
AllBreak ==
  /\ isStreaming' = [t \in Tabs |-> FALSE]
  /\ readers' = {}
  /\ received' = [m \in Messages |-> 0]
  /\ UNCHANGED <<chatId, messages, streamingContent>>

\* The page is loaded again, with a new store; the readers in lost are gone.
Reload(t, lost) ==
  /\ chatId' = [chatId EXCEPT ![t] = NoId]
  /\ messages' = [messages EXCEPT ![t] = << >>]
  /\ streamingContent' = [streamingContent EXCEPT ![t] = 0]
  /\ isStreaming' = [isStreaming EXCEPT ![t] = FALSE]
  /\ readers' = readers \ lost
  /\ received' = [m \in Messages |-> IF m \in lost THEN 0 ELSE received[m]]
=============================================================================
