# Aetherion Logistic in TLA+

TLA+ models of the parts of Aetherion Logistic whose correctness depends on the order of
events: a chat message on its way from the browser to the agent and back, the tool that
searches for cargos with the resolver of place names and the price of diesel it uses, the
accounts behind it all; below them the request queue of lardi-connector, the recovery from an
expired Lardi session, and the two mechanisms of auth-worker that keep the session alive. TLC
checks them on small instances; TLAPS proves every safety property of the
passing runs, and the queue's contract, for every value of the constants. Paths below are
relative to the repository; line numbers refer to the commit the models were written against.

## 1. The system

Aetherion answers a freight forwarder's questions in a chat. A message goes from the Vue
frontend to **api-gateway** (8000), which stores it in Postgres and relays it to
**agent-service** (8001). The language model there calls tools, which call
**lardi-connector** (8002), the only service that talks to the Lardi-Trans API.
Lardi has no official login for programs: **auth-worker** (8003) logs in with a headless
Chrome and puts the session cookie, LTSID, into Redis, where lardi-connector finds it.
docker-compose starts one container of each service with one uvicorn worker, one asyncio
loop, without a restart policy; all share one Redis (with AOF) and one Postgres.

| Redis key | written by | read by | kind |
| --- | --- | --- | --- |
| `aetherion:queue:lardi` | lardi-connector (`RPUSH`) | lardi-connector (`BLPOP`) | list |
| `aetherion:auth:ltsid` | auth-worker (`SET EX`) | lardi-connector, both health endpoints | string |
| `aetherion:auth:refresh` | lardi-connector (`PUBLISH`) | auth-worker | channel |
| `aetherion:auth:refresh:lock` | auth-worker (`SET NX EX`, `DEL`) | auth-worker | lock |
| `aetherion:agent:busy` | agent-service (`SET NX EX`, `DEL`) | api-gateway (`EXISTS`) | lock |
| `aetherion:fuel:price:diesel` | auth-worker | agent-service | string |

### 1.1 Inventory

**Request queue** (`lardi-connector/app/queue/queue_manager.py`).
State: the dictionary `_pending` of Futures, the Redis list, the consumer task, its sleep.
Operations: `enqueue`, `_consumer_loop`, `start`, `stop`.
Interaction: HTTP handlers call `enqueue` with a closure; the consumer runs it.
Hard: dictionary and list are changed in separate steps with other tasks in between; a lost
reply leaves them in disagreement; a caller may leave at any await; the list outlives the
process, the dictionary does not.
Correct when: requests are sent once, in order and spaced; everybody gets the outcome of
their own request; nobody waits for a request nobody holds.

**Session recovery** (`services/retry_handler.py`, `services/session_refresh.py`,
`services/lardi_client.py`, `api/search.py`, `api/cargo.py` of lardi-connector).
State: the cookie in the closure, the attempt, `old_ltsid`, the time waited.
Operations: read the cookie and queue, send, recover from 401, back off after 429/503.
Interaction: reads `aetherion:auth:ltsid`, publishes on `aetherion:auth:refresh`.
Hard: the cookie was read long before it is sent; three retry mechanisms nest; the key
changes, expires and is overtaken during the wait; the wait holds up the whole queue.
Correct when: what an execution costs Lardi and auth-worker is bounded and spaced, every
execution ends, and each error code means what it says.

**Emergency refresh** (`auth-worker/app/pubsub/emergency_refresh.py`,
`browser/lardi_login.py`).
State: the subscription and what it has received, the Redis lock, the circuit breaker, the
executor thread with Chrome.
Operations: subscribe, read a message, take the lock, log in, delete the lock, wait for
another's lock, trip and reset the breaker, reconnect.
Hard: the lock is deleted unconditionally and can expire, be lost with its holder or be set
without its setter knowing; a thread cannot be cancelled; pub/sub loses what is published
while nobody listens.
Correct when: emergency logins exclude each other, no foreign lock is deleted, the
breaker opens and closes as documented, and the listener never stops listening for good.

**Session keeping** (`scheduler/refresh_scheduler.py`, `session/ltsid_store.py`,
`api/admin.py`, `main.py` of auth-worker).
State: the key's time to live, the mode reported by `/health`, the scheduler's next firing.
Operations: the login at startup, the proactive job, the admin call, `store()`.
Hard: four tasks log in and store without knowing of each other; three intervals decide
whether the key can expire; failures of `SET` are swallowed.
Correct when: the key does not expire while the job works, and comes back when it is gone.

**Chat streaming** (`api-gateway/app/api/chats.py`, `agent-service/app/api/stream.py`).
State: the busy lock, where handler and agent's generator are, the events between them.
Operations: check the lock, store message and placeholder, read the history, connect, relay,
update the row; on the other side take the lock, run, delete the lock.
Hard: the lock is checked in one service and set in another, the result of `SET NX` is not
looked at, and it is deleted by whoever ends; browsers disconnect, both services crash, and
`done` follows every error.
Correct when: the stored status tells what became of the answer, whatever overlaps.

**Chat storage** (`services/chat_service.py`, `db/session.py` of api-gateway).
State: chats, and messages with their status. Operations: create a chat (committed after the
answer), save a message, a placeholder and its update, read the history.
Hard: a row is written before the stream and again after it, in another session.
Correct when: a complete answer is whole, and a history holds only what is settled.

**Chat store** (`frontend/src/stores/chat.ts`, `frontend/src/api/chat.ts`,
`views/ChatView.vue`). State: the chat, its bubbles, the bubble that grows, `isStreaming`, the
readers of the streams. Operations: new chat, reset, send, `onToken`, `onDone`, `onError`.
Hard: all readers of a tab call back into one store, whatever chat it shows by then; a reader
can end without calling back at all.
Correct when: one stream at a time writes into a tab, what a tab shows as finished is what is
stored, and no tab waits for a request that is over.

**Geography** (`services/geo_resolver.py`, `constants.py`, `import_ua_cities.py` of
agent-service). State: the table of towns, a cache per process, a database session per tool
call. Operations: the six steps of `resolve()`, the fallback's INSERT, the script's upsert.
Hard: answers are cached for ever, also wrong ones; a failed query aborts the transaction both
ends of a route share; script, fallback and searches use the table at the same time.
Correct when: "not found" is true, a known town is answered with its id, and the fallback
never makes a search raise.

**Fuel price** (`scheduler/fuel_fetcher.py` of auth-worker, `services/fuel_price.py` of
agent-service). State: a Redis key whose TTL is the fetch interval, a copy in memory.
Hard: key and job expire together, fetches take time and fail, either service restarts.
Correct when: the key is missing only for as long as a fetch takes, and a process that has had
a price never searches without one.

**Tool search_cargo** (`tools/search_cargo.py` of agent-service; payload and parsing in
`api/search.py` of lardi-connector). State: what the conversation has shown; the market.
Operations: read the price, request, exclude, compute margins, rank, cut the page.
Hard: cargos come and go between two pages, and exclusion happens after Lardi's limit.
Correct when: a page is short only if there is nothing more, and holds the best of what is next.

**Accounts** (`user_service.py`, `security.py`, `dependencies.py`, `auth.py`, `admin.py` of
api-gateway; `stores/auth.ts`, `router/index.ts`, `LoginView.vue`, `AdminView.vue` of the
frontend). State: rows, token, profile, admin key, the admin's list, the key dialog.
Operations: login, `GET /me`, list, create, deactivate, logout, navigation, reload.
Hard: a token outlives changes to its user; every call goes on where it was awaited, perhaps in
another session; the list is changed by answers of lists and of writes in any order.
Correct when: the blocked stay out, an address has one row, the profile is that of the session,
and the list shows what the table holds.

**Not modelled**: the agent's graph and `get_cargo_detail` (two nodes of a library, and one
request without state), the rest of payload building and answer parsing (stateless
conversions), health endpoints (read-only), schema, migrations and the other import scripts,
layout of views and components, deployment files.

`PROJECT.json` lists the components with their status and every hazard at its line.

### 1.2 Plan

| step | module | composes | theorems |
| --- | --- | --- | --- |
| 1, done | `LardiQueue` | implements `QueueContract` | invariants, action properties, the refinement |
| 2, done | `SessionRecovery` | `QueueContract` | types, load, spacing, the meaning of a failure, the contract |
| 3, done | `EmergencyRefresh` | | types, exclusion, own lock, breaker |
| 4, done | `LtsidSession` | | types, `KeyKeptAlive` |
| 5, done | `ChatStream` | gateway, agent, busy lock, rows | as part of `ChatSystem` |
| 6, done | `ChatStore`, `ChatSystem` | `ChatStream` with the browsers | all invariants |
| 7, done | `GeoResolver` | resolver, table, script | all invariants, `NamesAreKept` |
| 8, done | `FuelPrice`, `CargoSearch` | the price with the tool that uses it | `PriceInv`, `PageIsFull`, `BestOfNext` |
| 9, done | `Users`, `Accounts` | the table with one tab | all invariants |
| 10 | connector and auth-worker in one module | `SessionRecovery`, `EmergencyRefresh`, `LtsidSession` | refinement of the environment of `SessionRecovery` |

Two to four actors per instance (callers, workers, streams) and intervals of two to six
ticks are enough for the races in question; runs take about three minutes at most.

## 2. Conventions

An action is the code between two awaits. A Redis command whose reply may be lost is two
steps, its effect on the server and the reply; a command whose loss changes nothing in the
model (a read, a `DEL` in a `finally`) is one step with a failing alternative. Time is a
counter of ticks, and a tick is any fraction of a second that divides the intervals of the
instance; sleeps count down, and `Tick` is refused while something prompt is pending or a
timeout has come due. Constants bear the name of the setting they stand for. History
variables, marked as such, record what the properties talk about and guard nothing. The
constant `Faults` selects misfortunes, so that a run says exactly under which of them its
properties hold. A definition `Mutant_X` is a plausible wrong version of `X`: it stands
before `X`, is used nowhere, and each property of a passing run is violated when the
version named in `PROJECT.json` takes the place of `X`. `ReaderInv`, `TableInv`, `PriceInv` and
`AccountInv` are conjunctions: the types of their module and one or two named parts, which are
invariants on their own.

| module | models | runs | proofs |
| --- | --- | --- | --- |
| `LardiQueue` | the request queue | `MCLardiQueue` | `LardiQueueProofs` |
| `QueueContract` | what its callers may rely on | (refined by `LardiQueue`) | `LardiQueueProofs` |
| `SessionRecovery` | 401/429/503 recovery over the contract | `MCSessionRecovery` | `SessionRecoveryProofs` |
| `EmergencyRefresh` | listener, lock and breaker | `MCEmergencyRefresh` | `EmergencyRefreshProofs` |
| `LtsidSession` | job, admin call, startup, key | `MCLtsidSession` | `LtsidSessionProofs` |
| `ChatIds` | names shared by browser and services | | |
| `ChatStream` | one message through gateway, agent, Redis, database | (part of `ChatSystem`) | `ChatSystemProofs` |
| `ChatStore` | the chat in the browser | (part of `ChatSystem`) | `ChatSystemProofs` |
| `ChatSystem` | the two together | `MCChatSystem` | `ChatSystemProofs` |
| `GeoResolver` | place names, table of towns, import | `MCGeoResolver` | `GeoResolverProofs` |
| `FuelPrice` | fetch, key and copy of the diesel price | (part of `CargoSearch`) | `CargoSearchProofs` |
| `CargoSearch` | the tool `search_cargo` over a market | `MCCargoSearch` | `CargoSearchProofs` |
| `Users` | the users table and its endpoints | (part of `Accounts`) | `AccountsProofs` |
| `Accounts` | auth store, guard, login and admin view | `MCAccounts` | `AccountsProofs` |

## 3. LardiQueue and QueueContract

### State and actions

`caller[r]` says which await of `enqueue()` a call is at: `llen` and `rpush` (commands of
lines 127 and 128 not yet executed by Redis), `applied` (executed, reply on its way),
`waiting` (`await future`, 136), or how it ended. `future` and `pending` are the Future
and the keys of `_pending`; `redisList` is the list. `consumer` is the await the consumer
task is at: `blpop`, `popped` (Redis has removed the id, reply on its way), `sleep`,
`running`, `backoff` (the sleep after an error), or how far `stop()` has come. `current` is
the id in its hands.

| action | code |
| --- | --- |
| `Enqueue` | Future and `_pending` entry, up to the first await (110-127) |
| `LlenReply`, `RpushApplied`, `RpushReply` | the two commands of 127-128 |
| `EnqueueFails` | `RedisError`: entry removed, 503 (129-133) |
| `EnqueueReturns`, `CallerCancelled` | the end of `await future`; cancellation at any await |
| `BlpopServed`, `TakeRequest`, `DiscardUnknown`, `BlpopFails` | 160-173, 202-208 |
| `SkipCancelled`, `Execute`, `Settle` | 180-197 |
| `StopCancelsConsumer`, `StopCancelsFutures`, `Crash`, `Start` | 65-83, `main.py` 21-40 |

A BLPOP that times out changes nothing and is left out. What an execution does is the
subject of `SessionRecovery`; here it ends with a result or an exception. Ids are fresh
(`uuid4`), so each is a call of its own; a caller who tries again is a new id.

`QueueContract` knows calls and executions only: an execution begins alone and at most once
per request, not for a request whose caller has gone down with the process, and a call is
answered by the outcome of its own execution, refused, withdrawn, or dropped by a crash.
The refinement mapping shows a call between `Enqueue` and its end as `open`.

### Runs

- **queue** (pass; three callers, interval of 2 ticks, every fault): three callers are the
  fewest with which one is in the consumer's hands, one listed and one between its two
  commands. Ids are symmetric. `AnswerIsOwnOutcome`, `WaiterIsQueued`, `PendingIsAccounted`
  and the action properties `FifoAtMostOnce`, `RateLimited`, `CancelledNeverSent`,
  `OnlyDeadIdsDiscarded` hold, and so does `ImplementsContract`. The number of steps is
  bounded by the number of ids; crashes and restarts are not bounded. An interval of 2
  lets every event fall before, inside and after the sleep.
- **queue_live** (pass; two callers, refusals and cancellations): every call ends.
- **queue_stop** (violation, a finding): see section 11.

`WaiterIsQueued` names the only ways to be forgotten: the reply to BLPOP is lost after
Redis has removed the id, or `stop()` takes the request from the consumer. redis-py 5 does
not retry, so that the first is a real if rare event; the caller then waits until its own
HTTP timeout. `PendingIsAccounted` allows one leftover: a call cancelled between its
registration and its RPUSH leaves its entry until the process ends.

Deadlock is not checked in these runs: with all calls over and the list empty the consumer
only polls, which is no step.

### Fairness

Weak fairness of every step of a call that Redis or the event loop owes, and of the
consumer: the loop runs every ready task, the Lardi client has a timeout, and Redis answers or breaks
the connection. Strong fairness
of `BlpopServed`: an outage of Redis may disable it again and again, but outages end. No
fairness for calls, cancellations or faults.

## 4. SessionRecovery

### State and actions

The module extends `QueueContract` (not `LardiQueue`): `Execute` conjoins `Begin`, `EndAs`
conjoins `End`, so the queue's guarantees are used in the form in which they were checked
and proved. `seen[r]` is the cookie the closure of `r` holds (`search.py` 113), `phase` the
await of the running execution, `token` the cookie it sends, `old` and `elapsed` the locals
of `handle_401_and_retry` and `wait_for_new_ltsid`, `attempt` the loop variable of
`with_rate_limit_retry`. Cookies are numbers in the order of the logins.

| action | code |
| --- | --- |
| `Refuse`, `Accept` | reading the cookie, queueing (`search.py` 110-165, `cargo.py` 60-120) |
| `Execute`, `NextAttempt` | `execute()` inside the retry loop (`retry_handler.py` 163-165) |
| `Conclude`, `Unauthorized`, `StillUnauthorized`, `Throttled` | Lardi's answers |
| `ReadOld`, `Publish` | 98-110 |
| `PollFindsNew`, `PollFindsNothing` | `wait_for_new_ltsid` (`session_refresh.py` 62-81) |
| `Resend` | 120-126 |
| `Login`, `Store`, `KeyExpires` | auth-worker and Redis, the environment |

The environment is free: logins happen at any time, two of them may store in either order,
a cookie may be kept out of Redis, the key may vanish. Lardi may reject any cookie at any
time. That is more than auth-worker does, so what holds here holds with the real one.
Jitter only lengthens a pause; `Pause` is its lower end.

### Runs

- **recovery** (pass; two requests, one further attempt, three logins, every read may fail):
  `BoundedLoad`, at most `2 * (MaxRetries + 1)` HTTP requests and `MaxRetries + 1` refresh
  requests per execution (8 and 4 with the code's `MAX_RETRIES` = 3); `LardiIsSpared`, that
  every HTTP request, the resent and the retried ones included, comes at least the queue's
  interval after the previous one; `FailedMeansTwoCookies`, that `LTSID_REFRESH_FAILED`
  follows the rejection of two different cookies, unless there was no `old_ltsid` to compare
  with. Two requests are needed for a cookie that is replaced while its closure queues, three
  logins for an overtaken cookie plus the one waited for; with one further attempt a resent
  request can be throttled and start over, and more attempts repeat that. Interval, backoff
  and poll interval are one tick each, as they are one second each in the code, and the wait
  is two polls long, so that it can end with either; the other run of this module uses two
  ticks.
- **recovery_live** (pass): `ExecutionEnds` without any fairness of auth-worker.

`LardiIsSpared` rests on the assumption that interval <= backoff and interval <= poll
interval, named in `RecoveryAssumption`; the defaults (1, 1 and 1 second) satisfy it, a
larger `lardi_request_min_interval_seconds` would not.

Deadlock is not checked: when all requests are over and the logins used up, nothing need
happen.

### Fairness

Weak fairness of `Tick` and of the running execution: the client gives up on
Lardi after its timeout, and Redis answers or breaks the connection.

## 5. EmergencyRefresh

### State and actions

`listener[w]` is the await of the listener of worker `w`; `backlog[w]` counts messages
received and unread; `failures` and `paused` are the circuit breaker; `lock` is the time to
live of the lock; `zombie[w]` is a Chrome that outlived its timeout.

| action | code |
| --- | --- |
| `Start`, `Subscribe`, `Disconnect`, `ReconnectOver` | 202-241 |
| `Published`, `TakeMessage` | delivery to subscribers; 211-223 |
| `LockTaken`, `LockHeld`, `LockFails` | `SET NX EX` (112-124); error or lost reply |
| `LoginSucceeds`, `LoginFails` | 126-139 with `record_success`, `record_failure` (78-93) |
| `ZombieEnds` | the executor's thread of `lardi_login.py` 55-67 |
| `Release`, `WaitOver` | the `finally` of 140-146; `_wait_for_lock_release` |
| `Crash`, `Stop` | death; cancellation by `main.py` 75-83 |

The module has several workers although docker-compose starts one: the lock exists for
several, and that it works with one is no test of it.

### Runs

- **emergency** (pass; two workers, every fault): `OneEmergencyLogin`, `DeletesOwnLock`,
  `BreakerHolds`. Threshold 3 and pause 4 let the count cross a pause, a success, a restart;
  lock 5 against login 3 and waiting 4 lets the lock expire before, during and after a wait.
  `MaxBacklog` = 2 is one message in hand and one more behind it.
- **emergency_live** (pass; one worker, outages): `ListenerComesBack`.

`DeletesOwnLock` holds although the `DEL` is unconditional: the lock outlives a login
(`LoginTimeout < LockTTL`, in the code 75 against 120 seconds) and Redis is prompt. It is
the assumption that carries it, not a check in the code; a Redis call that hangs (the
client has no socket timeout) is outside the model.

### Fairness

Weak fairness of the listener's steps; strong fairness of `Subscribe` (outages end) and of
`Tick`: a step that takes no time, such as a further message, can put time off but never
stop it.

## 6. LtsidSession

### State and actions

`task[t]` is what each of the tasks that log in awaits: `startup`, `job`, `listener` and
the admin calls. `nextCheck` is the scheduler's interval trigger, `key` the TTL of the
Redis key, `mode` what `/health` reports, `answer` the status of an admin call.

| action | code |
| --- | --- |
| `Boot`, `Serve` | `lifespan` of `main.py` 50-73, `_fetch_initial_ltsid` |
| `JobFires`, `JobReadsTTL`, `JobReadFails` | `refresh_scheduler.py` 40-118 |
| `Asked` | a refresh request for the listener, `POST /admin/ltsid/refresh` |
| `LoginSucceeds`, `LoginFails` | `fetch_ltsid` |
| `SetApplied`, `SetReply`, `SetFails` | `LtsidStore.store` (35-65) |
| `Report` | the TTL read and the answer of `admin.py` 77-101 |

### Runs

- **session** (pass; startup, job, listener, one admin call; TTL 8, threshold 6, interval 3,
  login 2; every fault): `KeyKeptAlive` and `KeyComesBack`. The numbers are small ones with
  interval + login < threshold < TTL, such that a login can span a whole tick between two
  checks. In the code (`config.py`): 1800 + 75 < 3600 < 82800 seconds. `KeyComesBack` is
  stated for a process that is not restarted for ever: with endless crashes just before the
  first check, nobody need ever log in.

### Fairness

Weak fairness of the scheduler, the startup and every refresh under way; strong fairness of
the job's TTL read, login and `SET`: not every one of them fails for ever. Strong fairness
of `Tick` as above.

## 7. ChatStream, ChatStore and ChatSystem

### State and actions

`call[m]` is `send_message` of the `m`-th message: `check`, `store`, `history`, `connect`,
`relay`, `persist`, with its locals (`status`, `content`, the history) and whether the browser
is still `online`. `agent[m]` is its `_stream_agent` (`lock`, `run`, `unlock`), `wire[m]` the
events between the two, `busy` the Redis key. `rows`, `answer` and `chatRow` are the database:
the order of the messages, status and content of each answer, the chats. A token is counted,
not spelled. A history is the set of its entries, by role and message: their order is that of
`Newer`, and no property depends on it.

| action | code |
| --- | --- |
| `AskChat`, `AnswerChat`, `RefuseChat`, `CommitChat` | `create_chat` and the commit of `get_db`, after the answer |
| `Admit`, `Refuse`, `Store`, `StoreFails`, `ReadHistory`, `HistoryFails` | `send_message` (`chats.py` 122-165) |
| `Connect`, `ConnectFails`, `Relay`, `EndOfStream`, `StreamBreaks` | `stream_and_persist` (`chats.py` 177-234) |
| `Persist`, `PersistFails` | its `finally` (234-257) |
| `Lock`, `LockFails`, `Token`, `Finish`, `Fail`, `Unlock` | `_stream_agent` (`stream.py`) |
| `Disconnect`, `StopsEarly`, `AgentCancelled` | what Starlette does to a generator without a peer |
| `GatewayCrash`, `AgentCrash`, `Expire` | death of a service; the lock's TTL |
| `ResetChat`, `ShowChat`, `Submit`, `OnToken`, `OnDone`, `OnError`, `Reload` | `stores/chat.ts`, `api/chat.ts`, `ChatView.vue` |

A generator whose peer has gone is either cancelled at an await, and then its `finally` block
is cut short at the first await of its own, or closed at a `yield`, and then the block runs;
both are possible for either service. `ChatSystem` lets the reader of a message hear in the same
step what the gateway sends: a connection keeps its order. Sends and refusals are those of the
store's own state, so only what `ChatView` allows is sent.

### Run

- **chat** (pass; one tab, two chats, two messages, one token each, one event on the wire,
  history of two rows, every fault). `ReaderInv`, `ShownIsStored`, `CompleteIsWhole`,
  `StreamingIsAccounted`, `HistoryIsSettled`, `NobodyWaitsInVain`. Two messages are the fewest
  with two streams, two histories and a lock deleted by the wrong one; both may belong to one
  chat or to two, and the first may be read, abandoned, reloaded or broken when the second is
  sent. One token distinguishes an answer in part from the whole; a history limit of two cuts
  off the oldest of three rows. `hurt` marks the messages whose browser, gateway or database
  failed; agent and Redis are never an excuse.

The busy lock excludes nothing for certain (section 11), so that no property says that runs
exclude each other: the properties say that overlapping runs spoil no answer. Deadlock is not
checked, for everything may be over.

## 8. GeoResolver

### State and actions

`rows` is the table, `cache` the dictionary of the process, `at[t]` the await tool call `t` is
at, `left[t]` the names it has still to resolve, `aborted[t]` whether its session is in an
aborted transaction, `city` how far the import has come.

| action | code |
| --- | --- |
| `Call`, `Look` | `search_cargo` and steps 1 and 2, without an await (68-88) |
| `Exact`, `ExactRaises`, `Trgm`, `TrgmFails` | steps 3 and 4, the two queries |
| `AskOsm`, `OsmFails`, `Save`, `SaveFails` | steps 5 and 6, Nominatim and the INSERT (205-283) |
| `Restart` | a new process with an empty cache |
| `StartImport`, `SkipCity`, `InsertCity`, `ScriptDies` | `import_ua_cities.py` |

`Similarity[n][m]` is a number for each pair of names, what OpenStreetMap says a sign for each.
Rows alike in name and town count once: duplicates change no query.

### Run

- **geo** (pass; two tool calls, five names, three cities, every fault). Two of the cities share
  Lardi's town, so that an upsert renames a row; `lodz` is abroad and similar to a town; `poland`
  is a country, for which nothing is asked. `TableInv` (types; a town known at the start of the
  process is answered with an id; a place abroad is answered as Ukrainian only after the fallback
  stored such a name), `NotFoundIsTrue`, `RaiseMeansHurt`, `NamesAreKept`. A name that
  OpenStreetMap does not know is not among the five: the answer is the one of a geocoder that
  fails, which every name may meet.

Deadlock is checked here, as in the next two runs: there is always something to ask.

## 9. FuelPrice and CargoSearch

### State and actions

`price` and `ttl` are the Redis key, `due` and `fetch` the job, `memory` the copy of the agent.
`market` is Lardi's list, `shown` the `exclude_ids` the conversation carries, `call` the tool
call between its two awaits.

| action | code |
| --- | --- |
| `Tick`, `StartFetch`, `Store`, `FetchFails`, `WorkerRestarts` | `fuel_fetcher.py`, its job in `refresh_scheduler.py` |
| `Ask`, `AskMore`, `GetPrice`, `Search`, `SearchFails` | `search_cargo` with `get_price` |
| `Post`, `Withdraw` | the market, the environment |
| `AgentRestarts` | the copy of the price is lost, the conversation is not |

`Search` is the whole of what follows the price: filters, `FetchSize`, Lardi's answer, exclusion,
margins, ranking and page; only the answer itself depends on anything others change. Between
those steps cargos are handled by their positions in the market, which is Lardi's order: a
page is the set of positions with fewer than `limit` better ones. One table of words (the body)
stands for the filters that are all looked up the same way.

### Run

- **search** (pass; four cargos, pages of one, at least two cargos per request, TTL 2 and
  fetches of at most one tick, every fault). `PriceInv`, `PageIsFull`, `BestOfNext`. The four
  differ in what margins tell apart: near and far (which of the two is better depends on the
  price), another currency, another body; of the two words one is not in the table. A limit of
  zero is raised to one. A minimum of two in place of `50` is less than the exclusions can grow
  to, so that `FetchSize` takes either branch.

## 10. Users and Accounts

### State and actions

`users` are the committed rows; `login`, `fetches`, `listing` and `write` the requests of the
tab, each sent, read or flushed, and answered at different moments. `view`, `token`, `user`,
`adminKey`, `dialog` and `shown` are the tab.

| action | code |
| --- | --- |
| `LoginReads`, `FetchReads`, `ListReads` | `auth.py`, `get_current_user`, `admin.py` |
| `WriteRefused`, `WriteFlushes`, `WriteCommits`, `CommitFails` | `create_user`, `deactivate_user` with flush and commit |
| `CreateElsewhere`, `DeactivateElsewhere` | the same endpoints, called by others |
| `Submit`, `LoginAnswered`, `LoginFails` | `handleLogin`, `login()` |
| `FetchAnswered`, `FetchLost` | `fetchMe()` and what its caller does next |
| `GoTo`, `Logout`, `Reload` | the guard of `router/index.ts`, `handleLogout`, a page load |
| `OpenChangeKey`, `SubmitKey`, `CancelKey`, `ClickOutside` | the key dialog |
| `Create`, `Block`, `ListAnswered`, `ListFails`, `WriteAnswered`, `WriteFails` | `AdminView.vue` |

`Arrive` is the guard: where a wish to go ends, with which token, profile and fetches. An access
token is the id of its user; its expiry is a choice at every use. Passwords and keys are right
or wrong.

### Run

- **accounts** (pass; one tab, two people, one of whose addresses is typed in two ways, two
  `GET /me` in flight, every fault). `AccountInv` (types; one row per address; no admin view
  without a key but behind its dialog), `BlockedStaysOut`, `ProfileIsOwn`, `ListIsTrue`. Two
  profiles in flight are what it takes for one session's answer to reach the next; new users are
  no admins, one admin is enough to block and be blocked. `crossed` marks that a session ended
  under a profile in flight: then, and only then, the profile may be another's.

Writes of others are atomic, as they wait for the flushed address or row of the tab's own.

## 11. Where code and documentation disagree

**queue_stop** states one sentence of the repository and is violated: `stop()` "stops the
consumer and cancels all waiting Futures" (`queue_manager.py` 71), but the request in the
consumer's hands is in `_pending` no more, and its Future is never settled. It is a fault in the
code. How often it bites depends on the server: uvicorn waits for open requests before it runs
the shutdown half of `lifespan`, so the hanging call shows when `stop()` runs while handlers do,
as it does in a forced shutdown or in a test.

The models contain the following too; no run is spent on them, and the properties are stated
such that they hold all the same.

Connector and auth-worker:
- `LTSID_REFRESH_TIMEOUT` "if no new LTSID appeared in 90 s" (`retry_handler.py` 90): a cookie
  renewed before `old_ltsid` is read (104) is not recognised as new.
- "repeats the request once" (`retry_handler.py` 5-6): a 429 after the repetition starts over
  with the rejected cookie of the closure and asks for a new one again.
- "guarantees that Chrome is NOT started twice" (`emergency_refresh.py` 156): a login that timed
  out runs on in its thread (`lardi_login.py` 58) while the next one starts.
- "valid: saved in Redis, TTL > 0" (`ltsid_store.py` 10): the mode does not follow the expiry.

Chat:
- A disconnect may leave the row in status streaming for ever, which the docstring excludes
  (`chats.py` 172); `done` follows every error event, so a failed answer is stored as complete.
- The lock is checked in the gateway and set later in the agent, its owner is not looked at when
  it is deleted, and a cancelled generator does not delete it at all (`stream.py` 11): the
  promise of one run at a time (`chats.py` 11) is not kept.
- The answer before may be missing from the history when its update comes later than the next
  message.
- `create_chat` commits after its answer: a message sent at once, or after a failed commit, is
  refused by the foreign key.
- A view mounted again during a stream shows the end of the old answer in the new chat
  (`stores/chat.ts` 124).

Geography: a place abroad that the fallback stored is answered as Ukrainian from then on; "not
found" is cached for ever, also when the geocoder failed; a failed trigram query leaves the
transaction aborted, so that the other end of the route raises; a city that shares Lardi's town
overwrites the other's name.

Price and search: the TTL equals the interval, so that one failed fetch removes the price that
the docstring of the fetcher promises to keep (43-44); the copy in memory has no age limit;
filter words that no table holds are dropped with a warning in the log; payments per kilometre
or tonne are taken for totals.

Accounts: the admin key is not cleared when it is refused, for the gateway's message holds none
of the words the view looks for (`AdminView.vue` 327); it survives a logout; any network error
in `fetchMe` logs out (`stores/auth.ts` 88-91); a profile in flight across logout and login lands
in the next session.

## 12. Proofs

All proofs are by an inductive invariant, one lemma per part with one step per action; the
theorems are for every set of actors, every number and every set of faults that the named
assumption of the module admits. TLC evaluates the assumptions on every run, and has checked
each inductive invariant on the instance of the run before it was proved.

**LardiQueueProofs** (`QueueAssumption`: `NoRequest` is no request, the interval is a
natural number). `IInv` adds to the checked invariants:
`HandInv`, the consumer holds an id exactly while it handles one, and only that one runs;
`OrderInv`, the list is in push order, behind the id in hand and behind everything ever
started, which makes order and at-most-once inductive;
`RegisterInv`, whatever a live caller has on the way to the consumer is registered, which
is why nothing alive is discarded, and what was taken out of `_pending` stays out;
`OutcomeInv`, a settled Future tells the outcome of its own execution;
`RateInv`, time left to sleep plus time since Lardi was busy is at least the interval.
Theorems: `TypeCorrect`, `AnswersAreOwn`, `NobodyForgotten`, `PendingBounded`, `SentInOrder`,
`PauseKept`, `CancelledStaysUnsent`, `WaitersNotDiscarded`, and `Refinement`, that every
step of the queue is a step of `QueueContract` or leaves it unchanged.

**EmergencyRefreshProofs** (`RefreshAssumption`, above all `LoginTimeout < LockTTL`).
`HoldInv` says of a worker in its login that the lock is its own and outlives what is left
of the login, and of one that is about to delete that the lock is still its own: so there is
one such worker, and the `DEL` hits its own lock. `BreakerInv` ties the failures counted by
the code, which forgets them when it opens, to the failures in a row, and the pause to the
time since the last login. Theorems: `TypeCorrect`, `MutualExclusion`, `OwnLockDeleted`,
`BreakerCorrect`.

**LtsidSessionProofs** (`SessionAssumption`, above all
`CheckInterval + LoginTimeout < RefreshBelow < TTL`). `WhoInv` says which tasks can be where
in each phase of the process; `AliveInv` says how much life the key has left at least, for
each thing the job may be doing: between checks the ticks to the next check plus
`RefreshBelow - CheckInterval`, which exceeds a login. Theorems: `TypeCorrect`,
`JobKeepsKeyAlive`.

**SessionRecoveryProofs** (`RecoveryAssumption`, above all `MinInterval <= BackoffBase` and
`MinInterval <= PollInterval`). `LoadInv` counts what the current attempt may have cost on top
of the attempts before it, and in which phases its one repetition is still to come: the bound
follows for every number of attempts. `PauseInv` says that the sleep an execution is in,
together with the time since Lardi was last asked, covers the queue's interval; `PauseIsEnough`
bounds the exponential backoff from below, `2 ** attempt` being the number of subsets of a set of
that size. `StoredInv` and `CookieInv` follow the cookies: which was rejected in which phase, and that
what gets past the comparison with `old_ltsid` is another one. Theorems: `TypeCorrect`,
`LoadIsBounded`, `SendingsAreSpaced`, `FailureNeedsTwoCookies`, and `ObeysTheQueue`, that every
step is one of the contract's, so that `LardiQueueProofs` and this module speak of the same calls.

**CargoSearchProofs** (`FuelAssumption`: a fetch is shorter than the interval;
`SearchAssumption`: the cargos are finitely many and no margin is the number that stands for
none). `JobInv` ties the key's life to the job: between two fetches the key outlives the wait for
the next one, and during a fetch it has been missing no longer than the fetch has lasted.
`PriceKept` says where the price is once it has been had. The page is a matter of counting: the
first `n` of a finite ordered set are `n` of it if it has as many (`TopFills`), by well-founded
induction over finite sets, and no more positions of the market are excluded than cargos were
shown (`ShownPositions`), so that `FetchSize` leaves enough. Theorems: `GapStaysShort`,
`PriceStays`, `PriceIsKept`, `PagesAreFull`, `PagesAreBest`.

**ChatSystemProofs** (`IdsAssumption`, `StreamAssumption`: a chat belongs to a tab, a history
holds two rows at least). What is said of one message alone is `Local`: types, `Begun` (before
the relay nothing has been said, and a browser that left early has hurt its message), `Counted`
(what the agent has sent is what the gateway has counted and what is on the wire, and no token
follows another event), `Answered` (the row follows the handler). `StreamStep` shows that every
step keeps it, and that a step does to a message only what `Onward` promises: it never
becomes idle again or changes its chat, a settled row is final, what is hurt stays hurt, and an agent
that has finished adds nothing. Everything that relates a message to others rests on that promise:
`RowsInv` and `HistoryInv` (a message has one row, a history holds rows of its own chat),
`Reading` (a reader has read what the gateway has counted, its request is being worked on,
and the end of its stream comes after a `done` or an `error`), `Backed` (an answer shown as
finished is the row, or what the handler is about to write). `HistoryHolds` is about the query: the
newest rows within the limit include an earlier row if there is one, by the largest of a finite set.
The busy lock occurs in none of these invariants. Theorems: `ReadersAreSound`,
`WaitingIsHeard`, `ShownIsTrue`, `CompleteAnswers`, `StreamingEnds`, `HistoriesAreSettled`.

**GeoResolverProofs** (`GeoAssumption`). `RowsInv`: a row's town is the one Lardi gives its name,
and a name known from the start keeps its row unless another city shares its town.
`StageInv`: how far a call gets with a name, in particular that a known name never gets past the
exact query. `AnswerInv`: every answer in the cache is `Justified`, which is what
`TownIsAnswered`, `NotFoundIsTrue` and `WrongCountryIsSaved` say of one name and one answer; it
has to hold when the answer is cached and stay true while rows come and change names.
`HurtInv`: a transaction is aborted only in a session that was hurt. Theorems:
`TheTableAnswers`, `NothingIsLost`, `RaisesWhenHurt`, `NamesStay`.

**AccountsProofs** (`UsersAssumption`, `AccountsAssumption`). Every step is one of the table or
one of a session. `TableInv`: addresses are stored in one form, what is flushed has a place nothing else
takes, what is answered is there to stay. `SessionInv`: who was blocked when a request was sent is
blocked until it is answered. `ProfileInv`: unless a session ended under a profile in flight, all
profiles in flight are those of the present token, and a login begins without a session. `ViewInv`:
outside of the admin view nothing it has asked for is heard. `ListInv`: the list shown and the
list on its way are both true, for what is committed later only adds rows or blocks them.
Theorems: `AccountsAreSound`, `BlockedStayOut`, `ProfilesAreOwn`, `ListsAreTrue`.

**Only model-checked.** Liveness (`EveryCallEnds`, `ExecutionEnds`, `ListenerComesBack`,
`KeyComesBack`): temporal reasoning under fairness needs `ENABLED`, which the prover does
not handle. The violation of section 11 is a counterexample and needs no proof. What the
instances of TLC add to the proofs is that the interesting cases happen: a proof also holds of a
model in which they do not, the mutants of each property do not pass.

## 13. Assumptions and what is left out

- Redis answers or fails promptly where time matters (`EmergencyRefresh`, `LtsidSession`).
  The clients have no socket timeout, so a connection that hangs without breaking would
  delay the release of the refresh lock past its TTL.
- An unread `old_ltsid` (a failing read at `retry_handler.py` 103-106) makes the rejected
  cookie look new; a crashed worker's lock is waited for like a live one's; one listener
  handles a message that came during its login with another login; the admin call answers
  200 although `store()` could not save. The models contain these behaviours; no property
  forbids them.
- The constants: `HistoryLimit` is at least 2, for the message itself is one of the rows (the
  code asks for 20); addresses are closed under lower-casing and ids are numbers from 1 on;
  a payment less the diesel for the distance never comes near `NoMargin`, which stands for
  `None`; a name is as similar to itself as can be.
- Redis keeps its data. With AOF at its default, a crash of Redis can lose the last second.
- Messages on the channel beyond `MaxBacklog` unread ones are lost in the model; the real
  subscription holds many more. A message counts only as a wish to refresh, so a further
  one in the backlog changes nothing but how often the same steps repeat.
- The graceful shutdown of the scheduler; `LtsidStore.get()` and the copy of the cookie in
  memory, which nothing in the service reads.
- The HTTP status that stands for each exception, log output, payloads and their parsing,
  what Selenium does in the page.
- Chat: status events; the three check-then-inserts of the default workspace and user, which
  are one step that may be refused; several tabs, which meet in the busy lock and the order of
  the rows only.
- Search: suggestions for an empty answer, contact details, `get_cargo_detail`.
- Accounts: other tabs that share localStorage, the browser's back button from the login view,
  `require_admin`, which nothing calls, and the proxy for `PATCH /admin/ltsid`, whose other end
  is in `LtsidSession`.

## 14. Running

    tlc -workers 2 -config LardiQueue.cfg MCLardiQueue.tla
    tlapm LardiQueueProofs.tla

The other configurations run with the `MC` module of the same name prefix. States and times
with two workers:

| run | distinct states | time |
| --- | --- | --- |
| queue | 816,946 | 1 minute |
| queue_live | 2,675 | seconds |
| queue_stop | 221 | seconds |
| recovery | 4,830,962 | 3 minutes |
| recovery_live | 36,996 | seconds |
| emergency | 1,149,461 | 1 minute |
| emergency_live | 1,035 | seconds |
| session | 300,495 | 2 minutes |
| chat | 561,771 | 1 minute |
| geo | 1,301,760 | 3 minutes |
| search | 431,730 | 2 minutes |
| accounts | 521,055 | 1 minute |
