----------------------------- MODULE FuelPrice ------------------------------
(***************************************************************************)
(* The price of diesel: auth-worker fetches it once per interval and       *)
(* stores it in Redis for exactly as long (scheduler/fuel_fetcher.py,      *)
(* refresh_scheduler.py); agent-service reads it for every search and      *)
(* falls back on the last value its process read (services/fuel_price.py). *)
(***************************************************************************)
EXTENDS Integers

CONSTANTS Prices,    \* hryvnias for a kilometre's diesel, as far as margins tell them apart
          TTL,       \* fuel_cache_ttl_seconds: the key's lifetime and the job's interval
          FetchTime, \* bound of one fetch, fuel_price_http_timeout_seconds
          Faults     \* which misfortunes this instance allows

ASSUME FuelAssumption ==
  /\ Prices \subseteq Nat
  /\ TTL \in Nat /\ FetchTime \in Nat /\ FetchTime < TTL
  /\ Faults \subseteq {"source", "redis", "worker", "agent", "search"}

NoPrice == -1
NoFetch == -1
-----------------------------------------------------------------------------
VARIABLES
  price,  \* value of aetherion:fuel:price:diesel while ttl > 0
  ttl,    \* ticks the key still lives, 0 when it is missing
  due,    \* ticks until the job runs next
  fetch,  \* age of the fetch in progress, or NoFetch
  memory, \* FuelPriceService._memory_cache
  gap,    \* history: ticks the key has been missing, up to FetchTime + 1
  failed, \* history: a fetch has failed, or died, since the last one that stored
  had     \* history: this process of the agent has had a price

redisVars == <<price, ttl>>
jobVars == <<due, fetch>>
fuelHistory == <<gap, failed, had>>
fuelVars == <<redisVars, jobVars, memory, fuelHistory>>

FuelTypeOK ==
  /\ price \in Prices \cup {NoPrice} /\ ttl \in 0..TTL
  /\ due \in 0..TTL /\ fetch \in NoFetch..FetchTime
  /\ memory \in Prices \cup {NoPrice}
  /\ gap \in 0..(FetchTime + 1) /\ failed \in BOOLEAN /\ had \in BOOLEAN

\* The worker starts with a first fetch, the job's first run is one interval away.
FuelInit ==
  /\ price = NoPrice /\ ttl = 0
  /\ due = TTL /\ fetch = 0
  /\ memory = NoPrice
  /\ gap = 0 /\ failed = FALSE /\ had = FALSE
-----------------------------------------------------------------------------
\* Mutant: a key that lives shorter than the interval.
Mutant_Store(p) ==
  /\ fetch # NoFetch
  /\ price' = p /\ ttl' = TTL - 1
  /\ fetch' = NoFetch
  /\ gap' = 0 /\ failed' = FALSE
  /\ UNCHANGED <<due, memory, had>>

\* A tick puts off neither the job nor the end of a fetch.
Tick ==
  /\ due > 0 /\ fetch < FetchTime
  /\ due' = due - 1
  /\ fetch' = IF fetch = NoFetch THEN NoFetch ELSE fetch + 1
  /\ ttl' = IF ttl > 0 THEN ttl - 1 ELSE 0
  /\ price' = IF ttl' > 0 THEN price ELSE NoPrice
  /\ gap' = IF ttl > 0 THEN 0 ELSE IF gap > FetchTime THEN gap ELSE gap + 1
  /\ UNCHANGED <<memory, failed, had>>

StartFetch ==
  /\ due = 0 /\ fetch = NoFetch
  /\ fetch' = 0 /\ due' = TTL
  /\ UNCHANGED <<redisVars, memory, fuelHistory>>

\* The price was found in the answer, which may be of three formats, and stored.
Store(p) ==
  /\ fetch # NoFetch
  /\ price' = p /\ ttl' = TTL
  /\ fetch' = NoFetch
  /\ gap' = 0 /\ failed' = FALSE
  /\ UNCHANGED <<due, memory, had>>

\* No answer, no price in it, or no Redis: nothing is stored, and nothing deleted.
FetchFails ==
  /\ fetch # NoFetch /\ Faults \cap {"source", "redis"} # {}
  /\ fetch' = NoFetch /\ failed' = TRUE
  /\ UNCHANGED <<redisVars, due, memory, gap, had>>

WorkerRestarts ==
  /\ "worker" \in Faults
  /\ due' = TTL /\ fetch' = 0 /\ failed' = TRUE
  /\ UNCHANGED <<redisVars, memory, gap, had>>
-----------------------------------------------------------------------------
\* What get_price returns: the key's value or, where there is none or Redis does not
\* answer, the last one read.
Readable == (IF ttl > 0 THEN {price} ELSE {memory})
              \cup (IF "redis" \in Faults THEN {memory} ELSE {})

\* get_price remembers what it returns.
Reads(p) == memory' = p

FuelNext ==
  \/ Tick \/ StartFetch \/ FetchFails \/ WorkerRestarts
  \/ \E p \in Prices : Store(p)
-----------------------------------------------------------------------------
\* While fetches succeed, the key is missing only as long as one of them takes: its TTL
\* ends with the interval, and the next value is stored within a fetch of that
\* (fuel_fetcher.py 83-88, refresh_scheduler.py 111-117).
GapIsShort == ~failed => gap <= FetchTime
=============================================================================
