----------------------------- MODULE ChatStream -----------------------------
(***************************************************************************)
(* One message of a chat on its way through the services: the handler of   *)
(* api-gateway (api/chats.py, services/chat_service.py), which stores the  *)
(* message and a placeholder for the answer, asks the agent and relays     *)
(* what it streams; the agent's generator (agent-service api/stream.py),   *)
(* which holds the Redis key aetherion:agent:busy while it runs; and the   *)
(* rows of PostgreSQL.  ChatSystem adds the browsers.                      *)
(*                                                                         *)
(* A token is counted, not spelled.  Status events carry no state and are  *)
(* left out.  What Starlette does with a generator whose peer has gone is  *)
(* modelled as an environment: it is cancelled at an await, and then its   *)
(* finally block is cut short too, or it is closed at a yield, and then    *)
(* the finally block runs.                                                 *)
(***************************************************************************)
EXTENDS ChatIds, FiniteSets

CONSTANTS WireSize,     \* bound: events on their way from agent to gateway
          HistoryLimit, \* limit of get_chat_history
          Faults        \* which misfortunes this instance allows

ASSUME StreamAssumption ==
  /\ WireSize \in Nat \ {0} /\ HistoryLimit \in Nat \ {0, 1}
  /\ Faults \subseteq {"client", "agent", "gateway", "db", "redis"}

NoChat == << >>

\* Mutant: no protection from an interruption.
Mutant_DefaultStatus == "complete"
DefaultStatus == "incomplete"

Idle == [at |-> "idle", chat |-> NoChat, online |-> FALSE, status |-> DefaultStatus,
         content |-> 0, history |-> {}]
-----------------------------------------------------------------------------
VARIABLES
  call,    \* send_message of each message: where it is and its locals; whether the
           \* browser is still connected
  agent,   \* _stream_agent of each message: where it is, the tokens it has sent
  wire,    \* events between agent and gateway
  busy,    \* the Redis key aetherion:agent:busy exists
  rows,    \* the messages in the order their rows were inserted
  answer,  \* the row of the assistant: status and content
  chatRow, \* the row of each chat
  hurt     \* history: messages whose browser, gateway or database has failed

dbVars == <<rows, answer, chatRow>>
streamVars == <<call, agent, wire, busy, dbVars, hurt>>

Working == {"check", "store", "history", "connect", "relay", "persist"}
Running == {"lock", "run", "unlock"}
Settled == {"complete", "incomplete"}
Events == {"token", "error", "done", "eof", "abort"}

StreamTypeOK ==
  /\ call \in [Messages -> [at : Working \cup {"idle", "over"}, chat : Chats \cup {NoChat},
                            online : BOOLEAN, status : Settled, content : 0..MaxTokens,
                            history : SUBSET ({"user", "assistant"} \X Messages)]]
  /\ agent \in [Messages -> [at : Running \cup {"none", "over"}, sent : 0..MaxTokens]]
  /\ wire \in [Messages -> Seq(Events)]
  /\ busy \in BOOLEAN
  /\ rows \in Seq(Messages)
  /\ answer \in [Messages -> [status : Settled \cup {"none", "streaming"},
                              content : 0..MaxTokens]]
  /\ chatRow \in [Chats -> {"none", "asked", "answered", "there", "lost"}]
  /\ hurt \subseteq Messages

StreamInit ==
  /\ call = [m \in Messages |-> Idle]
  /\ agent = [m \in Messages |-> [at |-> "none", sent |-> 0]]
  /\ wire = [m \in Messages |-> << >>]
  /\ busy = FALSE
  /\ rows = << >>
  /\ answer = [m \in Messages |-> [status |-> "none", content |-> 0]]
  /\ chatRow = [c \in Chats |-> "none"]
  /\ hurt = {}
-----------------------------------------------------------------------------
(***************************************************************************)
(* create_chat.  The row is committed when get_db is left, after the       *)
(* answer has been sent.                                                   *)
(***************************************************************************)
ChatBecomes(c, from, to) ==
  /\ chatRow[c] = from
  /\ chatRow' = [chatRow EXCEPT ![c] = to]
  /\ UNCHANGED <<call, agent, wire, busy, rows, answer, hurt>>

AskChat(c) == ChatBecomes(c, "none", "asked")
AnswerChat(c) == ChatBecomes(c, "asked", "answered")

\* The request fails: a 500 to the browser.
RefuseChat(c) == "db" \in Faults /\ ChatBecomes(c, "asked", "lost")

CommitChat(c) == \/ ChatBecomes(c, "answered", "there")
                 \/ "db" \in Faults /\ ChatBecomes(c, "answered", "lost")
-----------------------------------------------------------------------------
(***************************************************************************)
(* send_message, up to the StreamingResponse.                              *)
(***************************************************************************)
Goes(m, where) == call' = [call EXCEPT ![m].at = where]
OverCall(m) == [Idle EXCEPT !.at = "over", !.chat = call[m].chat]
Ends(m) == call' = [call EXCEPT ![m] = OverCall(m)]

Send(m, c) ==
  /\ call[m].at = "idle" /\ \A k \in 1..(m - 1) : call[k].at # "idle"
  /\ call' = [call EXCEPT ![m] = [Idle EXCEPT !.at = "check", !.chat = c, !.online = TRUE]]
  /\ UNCHANGED <<agent, wire, busy, dbVars, hurt>>

\* redis.exists: the lock refuses a message of any chat.
Admit(m) ==
  /\ call[m].at = "check" /\ ~busy
  /\ Goes(m, "store")
  /\ UNCHANGED <<agent, wire, busy, dbVars, hurt>>

\* 429; or Redis raises, a 500.
Refuse(m) ==
  /\ call[m].at = "check" /\ (busy \/ "redis" \in Faults)
  /\ Ends(m)
  /\ UNCHANGED <<agent, wire, busy, dbVars, hurt>>

\* save_user_message, create_assistant_placeholder and commit: one transaction.
Store(m) ==
  /\ call[m].at = "store" /\ chatRow[call[m].chat] = "there"
  /\ Goes(m, "history")
  /\ rows' = Append(rows, m)
  /\ answer' = [answer EXCEPT ![m].status = "streaming"]
  /\ UNCHANGED <<agent, wire, busy, chatRow, hurt>>

\* The database fails, or has no such chat (foreign key): rolled back, a 500.
StoreFails(m) ==
  /\ call[m].at = "store" /\ (chatRow[call[m].chat] # "there" \/ "db" \in Faults)
  /\ Ends(m)
  /\ UNCHANGED <<agent, wire, busy, dbVars, hurt>>

\* Mutant: the status filter is missing.
Mutant_InHistory(m) == answer[m].status # "none"

InHistory(m) == answer[m].status \in Settled

\* What the chat holds apart from answers being streamed, by role and message.
Entries(c) ==
  {e \in {"user", "assistant"} \X Messages :
     /\ call[e[2]].chat = c /\ \E i \in DOMAIN rows : rows[i] = e[2]
     /\ e[1] = "assistant" => InHistory(e[2])}

\* e was created after f: an answer's row is inserted right after its question's.
Newer(e, f) ==
  \E i, j \in DOMAIN rows :
    /\ rows[i] = e[2] /\ rows[j] = f[2]
    /\ i > j \/ (i = j /\ e[1] = "assistant" /\ f[1] = "user")

\* get_chat_history: the newest entries of the chat.  Their order is that of Newer.
History(c) ==
  {e \in Entries(c) : Cardinality({f \in Entries(c) : Newer(f, e)}) < HistoryLimit}

ReadHistory(m) ==
  /\ call[m].at = "history"
  /\ call' = [call EXCEPT ![m].at = "connect",
                          ![m].history = History(call[m].chat) \ {<<"user", m>>}]
  /\ UNCHANGED <<agent, wire, busy, dbVars, hurt>>

\* The placeholder is committed already, and nothing will update it.
HistoryFails(m) ==
  /\ "db" \in Faults
  /\ call[m].at = "history"
  /\ Ends(m)
  /\ hurt' = hurt \cup {m}
  /\ UNCHANGED <<agent, wire, busy, dbVars>>
-----------------------------------------------------------------------------
(***************************************************************************)
(* stream_and_persist.                                                     *)
(***************************************************************************)
NextEvent(m) == IF wire[m] = << >> THEN "none" ELSE Head(wire[m])

\* POST /stream.
Connect(m) ==
  /\ call[m].at = "connect" /\ call[m].online
  /\ call' = [call EXCEPT ![m].at = "relay", ![m].history = {}]
  /\ agent' = [agent EXCEPT ![m].at = "lock"]
  /\ UNCHANGED <<wire, busy, dbVars, hurt>>

\* No agent, or not a 200: an error event and done for the browser.
ConnectFails(m) ==
  /\ "agent" \in Faults
  /\ call[m].at = "connect" /\ call[m].online
  /\ Goes(m, "persist")
  /\ UNCHANGED <<agent, wire, busy, dbVars, hurt>>

\* One line of the agent's stream is passed on, then accounted for.
Counts(m, event) == IF event = "token" THEN call[m].content + 1 ELSE call[m].content
StatusAfter(m, event) == IF event = "done" THEN "complete" ELSE call[m].status

Relay(m) ==
  /\ call[m].at = "relay" /\ NextEvent(m) \in {"token", "error", "done"}
  /\ wire' = [wire EXCEPT ![m] = Tail(@)]
  /\ call' = [call EXCEPT ![m].content = Counts(m, NextEvent(m)),
                          ![m].status = StatusAfter(m, NextEvent(m))]
  /\ UNCHANGED <<agent, busy, dbVars, hurt>>

StreamEnds(m, events) ==
  /\ call[m].at = "relay" /\ NextEvent(m) \in events
  /\ Goes(m, "persist")
  /\ wire' = [wire EXCEPT ![m] = << >>]
  /\ UNCHANGED <<agent, busy, dbVars, hurt>>

EndOfStream(m) == StreamEnds(m, {"eof"})

\* Mutant: the update is not in a finally block.
Mutant_StreamBreaks(m) ==
  /\ call[m].at = "relay" /\ NextEvent(m) \in {"none", "abort"}
  /\ Ends(m)
  /\ wire' = [wire EXCEPT ![m] = << >>]
  /\ UNCHANGED <<agent, busy, dbVars, hurt>>

\* Nothing for AGENT_READ_TIMEOUT, or the agent's connection breaks: except Exception, an
\* error event and done for the browser; the agent loses its peer.
StreamBreaks(m) == StreamEnds(m, {"none", "abort"})

\* The finally block, in a session of its own: update_assistant_message.
Persist(m) ==
  /\ call[m].at = "persist"
  /\ Ends(m)
  /\ answer' = [answer EXCEPT ![m] = [status |-> call[m].status, content |-> call[m].content]]
  /\ UNCHANGED <<agent, wire, busy, rows, chatRow, hurt>>

\* A failure of the update is only logged.
PersistFails(m) ==
  /\ "db" \in Faults
  /\ call[m].at = "persist"
  /\ Ends(m)
  /\ hurt' = hurt \cup {m}
  /\ UNCHANGED <<agent, wire, busy, dbVars>>

\* Connections of a browser end.  StreamingResponse stops its body: closed at a yield the
\* generator still updates the row, cancelled at an await it does not.  Before there is a
\* body nothing is stopped.
Stopped(m, cut) ==
  IF call[m].at \notin {"connect", "relay", "persist"} THEN [call[m] EXCEPT !.online = FALSE]
  ELSE IF cut THEN OverCall(m)
  ELSE [call[m] EXCEPT !.at = "persist", !.history = {}, !.online = FALSE]

Disconnect(lost) ==
  /\ "client" \in Faults
  /\ \A m \in lost : call[m].online
  /\ \E cut \in SUBSET lost :
       call' = [m \in Messages |-> IF m \in lost THEN Stopped(m, m \in cut) ELSE call[m]]
  /\ hurt' = hurt \cup lost
  /\ wire' = [m \in Messages |-> IF m \in lost THEN << >> ELSE wire[m]]
  /\ UNCHANGED <<agent, busy, dbVars>>

StopsEarly(m) ==
  /\ call[m].at = "connect" /\ ~call[m].online
  /\ \E cut \in BOOLEAN : call' = [call EXCEPT ![m] = Stopped(m, cut)]
  /\ UNCHANGED <<agent, wire, busy, dbVars, hurt>>

\* Every handler dies with the process, and every connection with it.
GatewayCrash ==
  LET dead == {m \in Messages : call[m].at \in Working} IN
  /\ "gateway" \in Faults
  /\ dead # {}
  /\ call' = [m \in Messages |-> IF m \in dead THEN OverCall(m) ELSE call[m]]
  /\ hurt' = hurt \cup dead
  /\ wire' = [m \in Messages |-> << >>]
  /\ chatRow' = [c \in Chats |-> IF chatRow[c] \in {"asked", "answered"} THEN "lost"
                                                                       ELSE chatRow[c]]
  /\ UNCHANGED <<agent, busy, rows, answer>>
-----------------------------------------------------------------------------
(***************************************************************************)
(* _stream_agent.  A run whose handler is no longer relaying has lost its  *)
(* peer.                                                                   *)
(***************************************************************************)
At(m, where) == agent[m].at = where /\ call[m].at = "relay"
Moves(m, where) == agent' = [agent EXCEPT ![m].at = where]
Yields(m, events) == wire' = [wire EXCEPT ![m] = @ \o events]

\* SET NX EX: whether the key was taken is not looked at.
Lock(m) ==
  /\ At(m, "lock") /\ Moves(m, "run")
  /\ busy' = TRUE
  /\ UNCHANGED <<call, wire, dbVars, hurt>>

\* Redis raises outside the try: the response breaks off after its headers.
LockFails(m) ==
  /\ "redis" \in Faults
  /\ At(m, "lock") /\ Moves(m, "over")
  /\ Yields(m, <<"abort">>)
  /\ UNCHANGED <<call, busy, dbVars, hurt>>

Token(m) ==
  /\ At(m, "run")
  /\ agent[m].sent < MaxTokens /\ Len(wire[m]) < WireSize
  /\ agent' = [agent EXCEPT ![m].sent = @ + 1]
  /\ Yields(m, <<"token">>)
  /\ UNCHANGED <<call, busy, dbVars, hurt>>

Finish(m) ==
  /\ At(m, "run") /\ Moves(m, "unlock")
  /\ Yields(m, <<"done">>)
  /\ UNCHANGED <<call, busy, dbVars, hurt>>

\* The model, a tool or a timeout raises: an error event, and done after it.
Fail(m) ==
  /\ "agent" \in Faults
  /\ At(m, "run") /\ Moves(m, "unlock")
  /\ Yields(m, <<"error", "done">>)
  /\ UNCHANGED <<call, busy, dbVars, hurt>>

\* The finally block: the key is deleted, whoever set it.
Unlock(m) ==
  /\ At(m, "unlock") /\ Moves(m, "over")
  /\ busy' \in {FALSE, busy /\ "redis" \in Faults}
  /\ Yields(m, <<"eof">>)
  /\ UNCHANGED <<call, dbVars, hurt>>

\* Starlette stops a run that lost its peer: at an await DEL may not be sent any more, and
\* a run stopped at SET has no finally block.
AgentCancelled(m) ==
  /\ agent[m].at \in Running /\ call[m].at # "relay"
  /\ Moves(m, "over")
  /\ busy' \in {busy, agent[m].at = "lock"}
  /\ UNCHANGED <<call, wire, dbVars, hurt>>

AgentCrash ==
  LET dead == {m \in Messages : agent[m].at \in Running} IN
  /\ "agent" \in Faults
  /\ dead # {}
  /\ agent' = [m \in Messages |-> IF m \in dead THEN [agent[m] EXCEPT !.at = "over"]
                                                ELSE agent[m]]
  /\ wire' = [m \in Messages |-> IF m \in dead /\ call[m].at = "relay"
                                 THEN Append(wire[m], "abort") ELSE wire[m]]
  /\ UNCHANGED <<call, busy, dbVars, hurt>>

\* agent_busy_ttl_seconds are over, however long the run takes.
Expire ==
  /\ busy
  /\ busy' = FALSE
  /\ UNCHANGED <<call, agent, wire, dbVars, hurt>>
=============================================================================
