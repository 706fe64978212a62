------------------------- MODULE CargoSearchProofs --------------------------
(***************************************************************************)
(* Proofs about CargoSearch for all prices, intervals, cargos, limits and  *)
(* faults.                                                                 *)
(*                                                                         *)
(* The price of diesel is missing from Redis no longer than a fetch takes  *)
(* while fetches succeed, and a process of the agent that has had a price  *)
(* never searches without one again: JobInv ties the key's life to the     *)
(* time left until the job's next run, PriceKept says where the price is   *)
(* found once it has been had.                                             *)
(*                                                                         *)
(* A short page shows all there is, and no page leaves out a better one of *)
(* the next three pages.  Both rest on counting: the first n of a finite   *)
(* ordered set are n (TopFills), and no more positions of the market are   *)
(* excluded than cargos were shown (ShownPositions).                       *)
(***************************************************************************)
EXTENDS CargoSearch, FiniteSetTheorems, WellFoundedInduction, TLAPS

\* Between two fetches the key outlives the wait for the job; during one the key has been
\* missing no longer than the fetch has lasted.
JobInv ==
  ~failed => IF fetch = NoFetch THEN gap = 0 /\ ttl >= due ELSE gap <= fetch

PriceKept ==
  /\ ttl > 0 => price # NoPrice
  /\ had => memory # NoPrice
  /\ had /\ call.at = "search" => call.price # NoPrice

PriceIInv == FuelTypeOK /\ JobInv /\ PriceKept

IInv == SearchTypeOK /\ PriceIInv
-----------------------------------------------------------------------------
\* The assumption, part by part.
LEMMA Numbers ==
  /\ Prices \subseteq Nat
  /\ TTL \in Nat /\ FetchTime \in Nat /\ FetchTime < TTL
BY FuelAssumption

\* What get_price returns is a price or none, and a price if it has ever had one.
LEMMA ReadsPrice ==
  ASSUME FuelTypeOK, PriceKept, NEW p \in Readable
  PROVE  p \in Prices \cup {NoPrice} /\ (had => p # NoPrice)
BY DEF FuelTypeOK, PriceKept, Readable

LEMMA InitHolds == Init => IInv
<1> SUFFICES ASSUME Init PROVE IInv
  OBVIOUS
<1>1. FuelTypeOK /\ JobInv
  <2>1. /\ price = NoPrice /\ memory = NoPrice /\ ttl = 0 /\ due = TTL /\ fetch = 0
        /\ gap = 0 /\ failed = FALSE /\ had = FALSE
    BY DEF Init, FuelInit
  <2>2. /\ price \in Prices \cup {NoPrice} /\ memory \in Prices \cup {NoPrice}
        /\ failed \in BOOLEAN /\ had \in BOOLEAN
    BY <2>1
  <2>3. /\ ttl \in 0..TTL /\ due \in 0..TTL /\ fetch \in NoFetch..FetchTime
        /\ gap \in 0..(FetchTime + 1) /\ gap <= fetch /\ fetch # NoFetch
    BY <2>1, Numbers DEF NoFetch
  <2> QED
    BY <2>2, <2>3 DEF FuelTypeOK, JobInv
<1>2. call = [at |-> "idle", limit |-> 0, price |-> NoPrice]
  BY DEF Init, Idle
<1>3. SearchTypeOK
  BY <1>2 DEF SearchTypeOK, Init, Idle
<1>4. PriceKept
  BY <1>2 DEF PriceKept, Init, FuelInit
<1> QED
  BY <1>1, <1>3, <1>4 DEF IInv, PriceIInv

\* The worker's steps and time.
LEMMA FuelStep ==
  ASSUME IInv, FuelNext, UNCHANGED searchVars
  PROVE  PriceIInv'
<1> USE Numbers DEF IInv, PriceIInv, FuelTypeOK, JobInv, PriceKept, searchVars, NoPrice,
        NoFetch
<1>1. CASE Tick
  <2>1. FuelTypeOK' /\ PriceKept'
    BY <1>1 DEF Tick
  <2>2. JobInv'
    BY <1>1 DEF Tick
  <2> QED
    BY <2>1, <2>2
<1>2. CASE StartFetch
  BY <1>2 DEF StartFetch, redisVars, fuelHistory
<1>3. CASE FetchFails
  BY <1>3 DEF FetchFails, redisVars
<1>4. CASE WorkerRestarts
  <2>1. UNCHANGED <<price, ttl, memory, gap, had, call>> /\ due' = TTL /\ fetch' = 0 /\ failed'
    BY <1>4 DEF WorkerRestarts, redisVars
  <2> QED
    BY <2>1
<1>5. ASSUME NEW p \in Prices, Store(p) PROVE PriceIInv'
  <2>1. /\ price' = p /\ ttl' = TTL /\ fetch' = NoFetch /\ gap' = 0 /\ failed' = FALSE
        /\ UNCHANGED <<due, memory, had, call>>
    BY <1>5 DEF Store
  <2>2. p \in Nat /\ p # NoPrice
    OBVIOUS
  <2>3. FuelTypeOK'
    <3>1. price' \in Prices \cup {NoPrice} /\ memory' \in Prices \cup {NoPrice}
      BY <2>1
    <3>2. ttl' \in 0..TTL /\ due' \in 0..TTL /\ fetch' \in NoFetch..FetchTime
          /\ gap' \in 0..(FetchTime + 1)
      BY <2>1
    <3>3. failed' \in BOOLEAN /\ had' \in BOOLEAN
      BY <2>1
    <3> QED
      BY <3>1, <3>2, <3>3
  <2>4. JobInv'
    BY <2>1
  <2>5. PriceKept'
    BY <2>1, <2>2
  <2> QED
    BY <2>3, <2>4, <2>5
<1> QED
  BY <1>1, <1>2, <1>3, <1>4, <1>5 DEF FuelNext

\* A step that leaves the price alone, and either the call or what it needs of a price.
LEMMA OtherStep ==
  ASSUME IInv, UNCHANGED fuelVars, call'.at = "search" => call' = call
  PROVE  PriceIInv'
BY DEF IInv, PriceIInv, FuelTypeOK, JobInv, PriceKept, fuelVars, redisVars, jobVars, fuelHistory

LEMMA PriceStep == IInv /\ [Next]_vars => PriceIInv'
<1> SUFFICES ASSUME IInv, [Next]_vars PROVE PriceIInv'
  OBVIOUS
<1>1. CASE FuelNext /\ UNCHANGED searchVars
  BY <1>1, FuelStep
<1>2. ASSUME NEW c \in Cargos, Post(c) PROVE PriceIInv'
  BY <1>2, OtherStep DEF Post, IInv, SearchTypeOK
<1>3. ASSUME NEW i \in DOMAIN market, Withdraw(i) PROVE PriceIInv'
  BY <1>3, OtherStep DEF Withdraw, IInv, SearchTypeOK
<1>4. ASSUME NEW l \in Limits, AskMore(l) PROVE PriceIInv'
  BY <1>4, OtherStep DEF AskMore, IInv, SearchTypeOK
<1>5. ASSUME NEW w \in Words, NEW l \in Limits, Ask(w, l) PROVE PriceIInv'
  BY <1>5, OtherStep DEF Ask, IInv, SearchTypeOK
<1>6. CASE GetPrice
  <2> USE DEF IInv, PriceIInv
  <2>1. PICK p \in Readable : /\ memory' = p
                              /\ call' = [call EXCEPT !.at = "search", !.price = p]
                              /\ had' = (had \/ p # NoPrice)
    BY <1>6 DEF GetPrice, Reads
  <2>2. UNCHANGED <<price, ttl, due, fetch, gap, failed>>
    BY <1>6 DEF GetPrice, redisVars, jobVars
  <2>3. p \in Prices \cup {NoPrice} /\ (had => p # NoPrice)
    BY ReadsPrice
  <2>4. FuelTypeOK' /\ JobInv'
    BY <2>1, <2>2, <2>3 DEF FuelTypeOK, JobInv
  <2>5. call'.at = "search" /\ call'.price = p
    BY <2>1 DEF SearchTypeOK
  <2>6. PriceKept'
    BY <2>1, <2>2, <2>3, <2>5 DEF PriceKept
  <2> QED
    BY <2>4, <2>5, <2>6
<1>7. CASE Search
  BY <1>7, OtherStep DEF Search, Idle, IInv, SearchTypeOK
<1>8. CASE SearchFails
  BY <1>8, OtherStep DEF SearchFails, Idle, IInv, SearchTypeOK
<1>9. CASE AgentRestarts
  BY <1>9 DEF AgentRestarts, Idle, IInv, PriceIInv, FuelTypeOK,
              JobInv, SearchTypeOK, PriceKept,
              redisVars, jobVars
<1>10. CASE UNCHANGED vars
  BY <1>10 DEF vars, searchVars, fuelVars, redisVars, jobVars, fuelHistory, IInv,
               PriceIInv, FuelTypeOK, JobInv, PriceKept
<1> QED
  BY <1>1, <1>2, <1>3, <1>4, <1>5, <1>6, <1>7, <1>8, <1>9, <1>10 DEF Next
-----------------------------------------------------------------------------
LEMMA MaxOfTwo ==
  ASSUME NEW a \in Int, NEW b \in Int
  PROVE  Max({a, b}) \in {a, b} /\ Max({a, b}) >= a /\ Max({a, b}) >= b
<1>1. \E x \in {a, b} : \A y \in {a, b} : x >= y
  OBVIOUS
<1> QED
  BY <1>1 DEF Max

LEMMA SafeLimitType == ASSUME NEW l \in Int PROVE SafeLimit(l) \in 1..25
<1>1. \E x \in {25, l} : \A y \in {25, l} : x <= y
  OBVIOUS
<1> DEFINE m == Min({25, l})
<1>2. m \in Int /\ m <= 25
  BY <1>1 DEF Min
<1> HIDE DEF m
<1>3. Max({1, m}) \in {1, m} /\ Max({1, m}) >= 1 /\ Max({1, m}) >= m
  BY <1>2, MaxOfTwo
<1>4. Max({1, m}) \in 1..25
  BY <1>2, <1>3
<1> QED
  BY <1>4 DEF SafeLimit, m

\* The conversation and the market keep their types.
LEMMA SearchTypeStep ==
  ASSUME FuelTypeOK, SearchTypeOK, [Next]_vars
  PROVE  SearchTypeOK'
<1> USE DEF SearchTypeOK
<1>0. Idle \in [at : {"idle", "price", "search"}, limit : 0..25, price : Prices \cup {NoPrice}]
  BY DEF Idle
<1>1. CASE FuelNext /\ UNCHANGED searchVars
  BY <1>1 DEF searchVars
<1>2. ASSUME NEW c \in Cargos, Post(c) PROVE SearchTypeOK'
  <2>1. market' \in Seq(Cargos) /\ Len(market') = Len(market) + 1 /\ market'[1] = c
        /\ \A i \in 2..Len(market') : market'[i] = market[i - 1]
    BY <1>2 DEF Post
  <2>2. \A i, j \in DOMAIN market' : market'[i] = market'[j] => i = j
    BY <1>2, <2>1 DEF Post
  <2> QED
    BY <1>2, <2>1, <2>2 DEF Post
<1>3. ASSUME NEW k \in DOMAIN market, Withdraw(k) PROVE SearchTypeOK'
  <2>1. /\ market' \in Seq(Cargos) /\ Len(market') = Len(market) - 1
        /\ \A i \in 1..Len(market') : market'[i] = market[IF i < k THEN i ELSE i + 1]
    <3> DEFINE a == SubSeq(market, 1, k - 1)
               b == SubSeq(market, k + 1, Len(market))
    <3>1. k \in 1..Len(market) /\ Len(market) \in Nat
      OBVIOUS
    <3>2. /\ a \in Seq(Cargos) /\ Len(a) = k - 1
          /\ \A i \in 1..(k - 1) : a[i] = market[i]
      BY <3>1
    <3>3. /\ b \in Seq(Cargos) /\ Len(b) = Len(market) - k
          /\ \A i \in 1..(Len(market) - k) : b[i] = market[k + i]
      BY <3>1
    <3>4. market' = a \o b
      BY <1>3 DEF Withdraw, RemoveAt
    <3> HIDE DEF a, b, SearchTypeOK
    <3>5. a \o b \in Seq(Cargos) /\ Len(a \o b) = Len(market) - 1
      BY <3>1, <3>2, <3>3
    <3>6. \A i \in 1..Len(a \o b) : (a \o b)[i] = IF i < k THEN a[i] ELSE b[i - k + 1]
      BY <3>1, <3>2, <3>3, <3>5
    <3>7. \A i \in 1..Len(a \o b) : (a \o b)[i] = market[IF i < k THEN i ELSE i + 1]
      BY <3>1, <3>2, <3>3, <3>5, <3>6
    <3> QED
      BY <3>4, <3>5, <3>7
  <2>2. /\ DOMAIN market' = 1..Len(market') /\ DOMAIN market = 1..Len(market)
        /\ Len(market') \in Nat /\ k \in Int
    BY <2>1
  <2>3. ASSUME NEW i \in DOMAIN market', NEW j \in DOMAIN market', market'[i] = market'[j]
        PROVE  i = j
    <3> DEFINE at(n) == IF n < k THEN n ELSE n + 1
    <3>1. at(i) \in DOMAIN market /\ at(j) \in DOMAIN market
      BY <2>1, <2>2
    <3>2. market[at(i)] = market[at(j)]
      BY <2>1, <2>2, <2>3
    <3>3. at(i) = at(j)
      <4> HIDE DEF at
      <4> QED
        BY <3>1, <3>2
    <3> QED
      BY <2>2, <3>3
  <2> QED
    BY <1>3, <2>1, <2>3 DEF Withdraw
<1>4. ASSUME NEW l \in Limits, AskMore(l) PROVE SearchTypeOK'
  <2>1. SafeLimit(l) \in 1..25
    BY SearchAssumption, SafeLimitType
  <2>2. call' = [call EXCEPT !.at = "price", !.limit = SafeLimit(l)]
    BY <1>4 DEF AskMore
  <2>3. call'.limit = SafeLimit(l) /\ SafeLimit(l) \in 0..25 /\ SafeLimit(l) > 0
    BY <2>1, <2>2
  <2>4. call' \in [at : {"idle", "price", "search"}, limit : 0..25, price : Prices \cup {NoPrice}]
    BY <2>2, <2>3
  <2> QED
    BY <1>4, <2>3, <2>4 DEF AskMore
<1>5. ASSUME NEW w \in Words, NEW l \in Limits, Ask(w, l) PROVE SearchTypeOK'
  <2>1. SafeLimit(l) \in 1..25
    BY SearchAssumption, SafeLimitType
  <2>2. call' = [call EXCEPT !.at = "price", !.limit = SafeLimit(l)]
    BY <1>5 DEF Ask
  <2>3. call'.limit = SafeLimit(l) /\ SafeLimit(l) \in 0..25 /\ SafeLimit(l) > 0
    BY <2>1, <2>2
  <2>4. call' \in [at : {"idle", "price", "search"}, limit : 0..25, price : Prices \cup {NoPrice}]
    BY <2>2, <2>3
  <2> QED
    BY <1>5, <2>3, <2>4 DEF Ask
<1>6. CASE GetPrice
  <2>1. PICK p \in Readable : call' = [call EXCEPT !.at = "search", !.price = p]
    BY <1>6 DEF GetPrice
  <2>2. p \in Prices \cup {NoPrice}
    BY DEF Readable, FuelTypeOK
  <2>3. call.at = "price"
    BY <1>6 DEF GetPrice
  <2> QED
    BY <1>0, <1>6, <2>1, <2>2, <2>3 DEF GetPrice, Idle
<1>7. CASE Search
  <2>1. Page \subseteq DOMAIN market
    BY DEF Page, Ranked, Enriched, Proposals, First, Matching
  <2>2. {market[i] : i \in Page} \subseteq Cargos
    BY <2>1
  <2> QED
    BY <1>0, <1>7, <2>2 DEF Search
<1>8. CASE SearchFails
  BY <1>0, <1>8 DEF SearchFails
<1>9. CASE AgentRestarts
  BY <1>0, <1>9 DEF AgentRestarts
<1>10. CASE UNCHANGED vars
  BY <1>10 DEF vars, searchVars
<1> QED
  BY <1>1, <1>2, <1>3, <1>4, <1>5, <1>6, <1>7, <1>8, <1>9, <1>10 DEF Next

\* The inductive invariant holds in every state.
THEOREM Inductive == Spec => []IInv
<1>1. Init => IInv
  BY InitHolds
<1>2. IInv /\ [Next]_vars => IInv'
  BY SearchTypeStep, PriceStep DEF IInv, PriceIInv
<1> QED
  BY <1>1, <1>2, PTL DEF Spec
-----------------------------------------------------------------------------
\* The key is missing only as long as one fetch takes, while fetches succeed
\* (fuel_fetcher.py 83-88, refresh_scheduler.py 111-117).
THEOREM GapStaysShort == Spec => []GapIsShort
<1>1. IInv => GapIsShort
  BY Numbers DEF IInv, PriceIInv, FuelTypeOK, JobInv, GapIsShort
<1> QED
  BY <1>1, Inductive, PTL

\* A process that has had a price searches with one ever after (fuel_price.py 49-55).
THEOREM PriceStays == Spec => []PriceOutlivesKey
<1>1. IInv => PriceOutlivesKey
  BY DEF IInv, PriceIInv, PriceKept, PriceOutlivesKey
<1> QED
  BY <1>1, Inductive, PTL

\* The types, GapIsShort and PriceOutlivesKey together.
THEOREM PriceIsKept == Spec => []PriceInv
<1>1. IInv => TypeOK
  BY DEF IInv, PriceIInv, TypeOK
<1> QED
  BY <1>1, Inductive, GapStaysShort, PriceStays, PTL DEF PriceInv

-----------------------------------------------------------------------------
(***************************************************************************)
(* Ranking: the elements of a finite set that fewer than n others precede. *)
(***************************************************************************)

\* A strict order on E.
Orders(R, E) ==
  /\ \A x \in E : <<x, x>> \notin R
  /\ \A x, y, z \in E : <<x, y>> \in R /\ <<y, z>> \in R => <<x, z>> \in R

Below(R, E, x) == {y \in E : <<y, x>> \in R}

\* A strict order on a finite set has a minimal element in each of its parts.
LEMMA Minimal ==
  ASSUME NEW E, IsFiniteSet(E), NEW R, Orders(R, E), NEW T \in SUBSET E, T # {}
  PROVE  \E x \in T : \A y \in T : <<y, x>> \notin R
<1> DEFINE W == {Below(R, E, x) : x \in T}
<1>1. W \subseteq FiniteSubsetsOf(E) /\ W # {}
  <2>1. \A x \in T : Below(R, E, x) \in SUBSET E
    BY DEF Below
  <2>2. \A x \in T : IsFiniteSet(Below(R, E, x))
    BY <2>1, FS_Subset
  <2> QED
    BY <2>1, <2>2 DEF FiniteSubsetsOf
<1>2. PICK w \in W : \A v \in W : <<v, w>> \notin StrictSubsetOrdering(E)
  <2> HIDE DEF W
  <2> QED
    BY <1>1, FS_StrictSubsetOrderingWellFounded, WFMin
<1>3. PICK x \in T : w = Below(R, E, x)
  OBVIOUS
<1>4. ASSUME NEW y \in T, <<y, x>> \in R PROVE FALSE
  <2>1. Below(R, E, y) \in W
    OBVIOUS
  <2>2. Below(R, E, y) \subseteq Below(R, E, x)
    BY <1>4 DEF Below, Orders
  <2>3. y \in Below(R, E, x) /\ y \notin Below(R, E, y)
    BY <1>4 DEF Below, Orders
  <2>4. Below(R, E, y) \subseteq E /\ Below(R, E, x) \subseteq E
    BY DEF Below
  <2>5. <<Below(R, E, y), w>> \in StrictSubsetOrdering(E)
    <3> DEFINE a == Below(R, E, y)
               b == Below(R, E, x)
    <3>1. a \in SUBSET E /\ b \in SUBSET E /\ a \subseteq b /\ a # b
      BY <2>2, <2>3, <2>4
    <3> HIDE DEF a, b
    <3>2. <<a, b>> \in StrictSubsetOrdering(E)
      BY <3>1 DEF StrictSubsetOrdering
    <3> QED
      BY <3>2, <1>3 DEF a, b
  <2> QED
    BY <1>2, <2>1, <2>5
<1> QED
  BY <1>4

\* The first n of a finite set are n of them, unless they are all.
LEMMA TopFills ==
  ASSUME NEW E, IsFiniteSet(E), NEW R, Orders(R, E), NEW n \in Nat,
         NEW T, T = {x \in E : Cardinality(Below(R, E, x)) < n}, T # E
  PROVE  Cardinality(T) >= n
<1>1. PICK x \in E \ T : \A y \in E \ T : <<y, x>> \notin R
  BY Minimal
<1>2. Below(R, E, x) \subseteq T
  BY <1>1 DEF Below
<1>3. IsFiniteSet(T) /\ Cardinality(T) \in Nat
  BY FS_Subset, FS_CardinalityType
<1>4. Cardinality(Below(R, E, x)) <= Cardinality(T) /\ Cardinality(Below(R, E, x)) \in Nat
  BY <1>2, <1>3, FS_Subset, FS_CardinalityType
<1>5. ~(Cardinality(Below(R, E, x)) < n)
  BY <1>1
<1> QED
  BY <1>3, <1>4, <1>5

\* The market's positions are finitely many, and hold as many cargos.
LEMMA Positions ==
  ASSUME TypeOK, NEW S \in SUBSET DOMAIN market
  PROVE  IsFiniteSet(S) /\ Cardinality(S) \in Nat
<1>1. DOMAIN market = 1..Len(market) /\ Len(market) \in Nat
  BY DEF TypeOK, SearchTypeOK
<1>2. IsFiniteSet(1..Len(market))
  BY <1>1, FS_Interval
<1> QED
  BY <1>1, <1>2, FS_Subset, FS_CardinalityType

LEMMA CargosAt ==
  ASSUME TypeOK, NEW S \in SUBSET DOMAIN market
  PROVE  /\ IsFiniteSet({market[i] : i \in S})
         /\ Cardinality({market[i] : i \in S}) = Cardinality(S)
<1> DEFINE T == {market[i] : i \in S}
           f == [i \in S |-> market[i]]
<1>1. f \in [S -> T] /\ \A c \in T : \E i \in S : f[i] = c
  OBVIOUS
<1>2. \A i, j \in S : f[i] = f[j] => i = j
  BY DEF TypeOK, SearchTypeOK
<1>3. f \in Bijection(S, T)
  <2> HIDE DEF f, T
  <2> QED
    BY <1>1, <1>2 DEF Bijection, Injection, Surjection, IsInjective
<1> QED
  BY <1>3, Positions, FS_Bijection DEF ExistsBijection

\* Lardi's order and the order of the ranking are strict orders of the positions.
LEMMA FirstFills ==
  ASSUME TypeOK, NEW S \in SUBSET DOMAIN market, NEW n \in Nat, First(S, n) # S
  PROVE  Cardinality(First(S, n)) >= n
<1> DEFINE R == {e \in S \X S : e[1] < e[2]}
<1>1. S \subseteq Nat
  BY DEF TypeOK, SearchTypeOK
<1>2. Orders(R, S)
  BY <1>1 DEF Orders
<1>3. \A i \in S : Below(R, S, i) = {j \in S : j < i}
  BY DEF Below
<1>4. First(S, n) = {i \in S : Cardinality(Below(R, S, i)) < n}
  BY <1>3 DEF First
<1> QED
  <2> HIDE DEF R
  <2> QED
    BY <1>2, <1>4, Positions, TopFills

LEMMA MarginIsInt ==
  ASSUME NEW c \in Cargos, NEW p \in Prices \cup {NoPrice}
  PROVE  Margin(c, p) \in Int
<1>1. Distance[c] \in Int /\ Payment[c] \in Int
  BY SearchAssumption
<1>2. NoMargin \in Int
  BY DEF NoMargin
<1>3. CASE p = NoPrice
  BY <1>2, <1>3 DEF Margin
<1>4. CASE p \in Nat
  BY <1>1, <1>2, <1>4, SMT DEF Margin
<1> QED
  BY <1>3, <1>4, FuelAssumption

LEMMA RankedFills ==
  ASSUME TypeOK, NEW S \in SUBSET DOMAIN market, NEW n \in Nat,
         NEW p \in Prices \cup {NoPrice}, Ranked(S, n, p) # S
  PROVE  Cardinality(Ranked(S, n, p)) >= n
<1> DEFINE R == {e \in S \X S : Before(e[1], e[2], p)}
<1>1. S \subseteq Nat /\ \A i \in S : Margin(market[i], p) \in Int
  BY MarginIsInt DEF TypeOK, SearchTypeOK
<1>2. Orders(R, S)
  BY <1>1 DEF Orders, Before
<1>3. \A i \in S : Below(R, S, i) = {j \in S : Before(j, i, p)}
  BY DEF Below
<1>4. Ranked(S, n, p) = {i \in S : Cardinality(Below(R, S, i)) < n}
  BY <1>3 DEF Ranked
<1> QED
  <2> HIDE DEF R
  <2> QED
    BY <1>2, <1>4, Positions, TopFills

\* What is asked for leaves, without all that was shown, three pages.
LEMMA FetchIsEnough ==
  ASSUME TypeOK, NEW n \in Nat
  PROVE  /\ IsFiniteSet(shown) /\ Cardinality(shown) \in Nat
         /\ FetchSize(n) \in Nat /\ FetchSize(n) >= 3 * n + Cardinality(shown)
<1>1. IsFiniteSet(shown) /\ Cardinality(shown) \in Nat
  BY SearchAssumption, FS_Subset, FS_CardinalityType DEF TypeOK, SearchTypeOK
<1> DEFINE b == 3 * n + Cardinality(shown)
<1>2. MinFetch \in Nat /\ b \in Nat
  BY <1>1, SearchAssumption
<1>3. FetchSize(n) = Max({MinFetch, b})
  BY DEF FetchSize
<1>4. FetchSize(n) \in Nat /\ FetchSize(n) >= b
  <2> HIDE DEF b
  <2> QED
    BY <1>2, <1>3, MaxOfTwo
<1> QED
  BY <1>1, <1>4

\* No more positions hold cargos already shown than cargos were shown.
LEMMA ShownPositions ==
  ASSUME TypeOK, NEW S \in SUBSET DOMAIN market
  PROVE  /\ IsFiniteSet({i \in S : market[i] \in shown})
         /\ Cardinality({i \in S : market[i] \in shown}) <= Cardinality(shown)
         /\ Cardinality({i \in S : market[i] \in shown}) \in Nat
<1> DEFINE P == {i \in S : market[i] \in shown}
<1>1. P \in SUBSET DOMAIN market /\ {market[i] : i \in P} \in SUBSET shown
  OBVIOUS
<1>2. IsFiniteSet(P) /\ Cardinality(P) \in Nat
  BY <1>1, Positions
<1>3. Cardinality(P) = Cardinality({market[i] : i \in P})
  BY <1>1, CargosAt
<1>4. Cardinality({market[i] : i \in P}) <= Cardinality(shown)
  BY <1>1, FetchIsEnough, FS_Subset
<1> QED
  BY <1>2, <1>3, <1>4

LEMMA Searching ==
  ASSUME TypeOK, call.at = "search"
  PROVE  call.limit \in Nat /\ call.limit > 0 /\ call.price \in Prices \cup {NoPrice}
<1>1. /\ call \in [at : {"idle", "price", "search"}, limit : 0..25, price : Prices \cup {NoPrice}]
      /\ call = Idle \/ call.limit > 0
  BY Zenon DEF TypeOK, SearchTypeOK
<1>2. call # Idle
  BY DEF Idle
<1>3. call.limit > 0
  BY <1>1, <1>2
<1>4. call.limit \in Nat /\ call.price \in Prices \cup {NoPrice}
  BY <1>1
<1> QED
  BY <1>3, <1>4

\* A page that is not full holds all there was to show.
LEMMA FullPage ==
  ASSUME TypeOK, Search, Cardinality(shown' \ shown) < call.limit
  PROVE  {market[i] : i \in Matching} \subseteq shown'
<1> DEFINE size == FetchSize(call.limit)
           P == Proposals(size)
           E == Enriched(P)
           old == {i \in P : market[i] \in shown}
<1>1. call.limit \in Nat /\ call.price \in Prices \cup {NoPrice} /\ call.limit > 0
  BY Searching DEF Search
<1>2. /\ Matching \in SUBSET DOMAIN market /\ P \in SUBSET Matching
      /\ E \in SUBSET P /\ Page \in SUBSET E
  BY DEF Matching, Proposals, First, Enriched, Page, Ranked
<1>3. shown' = shown \cup {market[i] : i \in Page}
  BY DEF Search
<1>4. shown' \ shown = {market[i] : i \in Page}
  BY <1>2, <1>3 DEF Enriched
<1>5. Cardinality(Page) < call.limit
  BY <1>2, <1>4, CargosAt
<1>6. Page = E
  <2>1. Page = Ranked(E, call.limit, call.price)
    BY DEF Page
  <2>2. E \in SUBSET DOMAIN market
    BY <1>2
  <2>3. Cardinality(Page) \in Nat
    BY <1>2, Positions
  <2> HIDE DEF E
  <2> QED
    BY <1>1, <1>5, <2>1, <2>2, <2>3, RankedFills
<1>7. P = Matching
  <2>1. P = First(Matching, size) /\ size \in Nat /\ Cardinality(shown) \in Nat
        /\ size >= 3 * call.limit + Cardinality(shown)
    BY <1>1, FetchIsEnough DEF Proposals
  <2>2. P = E \cup old /\ E \cap old = {}
    BY DEF Enriched
  <2>3. IsFiniteSet(E) /\ Cardinality(E) \in Nat
    BY <1>2, Positions
  <2>4. IsFiniteSet(old) /\ Cardinality(old) \in Nat /\ Cardinality(old) <= Cardinality(shown)
    BY <1>2, ShownPositions
  <2>5. Cardinality(P) = Cardinality(E) + Cardinality(old)
    <3> HIDE DEF P, E, old
    <3>1. Cardinality(P) = Cardinality(E) + Cardinality(old) - Cardinality({})
      BY <2>2, <2>3, <2>4, FS_Union
    <3> QED
      BY <3>1, <2>3, <2>4, FS_EmptySet
  <2>6. Cardinality(P) < size
    <3> HIDE DEF P, E, old, size
    <3> QED
      BY <1>1, <1>5, <1>6, <2>1, <2>3, <2>4, <2>5
  <2>7. Cardinality(P) \in Nat
    BY <1>2, Positions
  <2> HIDE DEF P, size
  <2> QED
    BY <1>2, <2>1, <2>6, <2>7, FirstFills
<1> QED
  <2> SUFFICES ASSUME NEW i \in Matching PROVE market[i] \in shown'
    OBVIOUS
  <2>1. CASE market[i] \in shown
    BY <2>1, <1>3
  <2>2. CASE market[i] \notin shown
    BY <2>2, <1>3, <1>6, <1>7 DEF Enriched
  <2> QED
    BY <2>1, <2>2

\* Of the next three pages nothing is left out that has a better margin than what is shown.
LEMMA BestPage ==
  ASSUME TypeOK, Search, NEW i \in First(Enriched(Matching), 3 * call.limit),
         market[i] \notin shown', NEW d \in shown' \ shown
  PROVE  Margin(market[i], call.price) <= Margin(d, call.price)
<1> DEFINE size == FetchSize(call.limit)
           E == Enriched(Proposals(size))
           new == {j \in Enriched(Matching) : j < i}
           old == {j \in {j \in Matching : j < i} : market[j] \in shown}
           Ahead(k) == {j \in E : Before(j, k, call.price)}
<1>1. call.limit \in Nat /\ call.price \in Prices \cup {NoPrice}
  BY Searching DEF Search
<1>2. /\ Matching \in SUBSET DOMAIN market /\ i \in Matching /\ market[i] \notin shown
      /\ E \in SUBSET DOMAIN market /\ Page \in SUBSET E
  BY DEF Matching, Proposals, First, Enriched, Page, Ranked
<1>3. i \in E
  <2>1. IsFiniteSet(new) /\ Cardinality(new) \in Nat /\ Cardinality(new) < 3 * call.limit
    <3>1. new \in SUBSET DOMAIN market /\ Cardinality(new) < 3 * call.limit
      BY <1>2 DEF Enriched, First
    <3> QED
      BY <3>1, Positions
  <2>2. IsFiniteSet(old) /\ Cardinality(old) \in Nat /\ Cardinality(old) <= Cardinality(shown)
    <3>1. {j \in Matching : j < i} \in SUBSET DOMAIN market
      BY <1>2
    <3> QED
      BY <3>1, ShownPositions
  <2>3. {j \in Matching : j < i} = new \cup old /\ new \cap old = {}
    BY DEF Enriched
  <2>4. Cardinality(new \cup old) = Cardinality(new) + Cardinality(old)
    <3> HIDE DEF new, old
    <3>1. Cardinality(new \cup old) = Cardinality(new) + Cardinality(old) - Cardinality({})
      BY <2>1, <2>2, <2>3, FS_Union
    <3> QED
      BY <3>1, <2>1, <2>2, FS_EmptySet
  <2>5. size \in Nat /\ size >= 3 * call.limit + Cardinality(shown) /\ Cardinality(shown) \in Nat
    BY <1>1, FetchIsEnough
  <2>6. Cardinality({j \in Matching : j < i}) < size
    <3> HIDE DEF new, old, size
    <3> QED
      BY <1>1, <2>1, <2>2, <2>3, <2>4, <2>5
  <2> QED
    BY <1>2, <2>6 DEF Proposals, First, Enriched
<1>4. shown' = shown \cup {market[j] : j \in Page}
  BY DEF Search
<1>5. PICK k \in Page : d = market[k]
  BY <1>4
<1>6. i \notin Page
  BY <1>4
<1>7. \A j \in E : Margin(market[j], call.price) \in Int /\ j \in Int
  BY <1>1, <1>2, MarginIsInt DEF TypeOK, SearchTypeOK
<1>8. ASSUME Margin(market[i], call.price) > Margin(d, call.price) PROVE FALSE
  <2>1. Ahead(i) \subseteq Ahead(k)
    BY <1>2, <1>3, <1>5, <1>7, <1>8 DEF Before
  <2>2. Ahead(k) \in SUBSET DOMAIN market
    BY <1>2
  <2>3. /\ IsFiniteSet(Ahead(k)) /\ Cardinality(Ahead(k)) \in Nat
        /\ Cardinality(Ahead(i)) \in Nat
    BY <2>1, <2>2, Positions
  <2>4. Cardinality(Ahead(i)) <= Cardinality(Ahead(k))
    BY <2>1, <2>3, FS_Subset
  <2>5. Cardinality(Ahead(k)) < call.limit /\ ~(Cardinality(Ahead(i)) < call.limit)
    BY <1>3, <1>5, <1>6 DEF Page, Ranked
  <2> QED
    BY <1>1, <2>3, <2>4, <2>5
<1> QED
  BY <1>2, <1>3, <1>5, <1>7, <1>8
-----------------------------------------------------------------------------
\* However the market changes, a page is short only when the conversation has been shown
\* everything that matches: excluding what was shown never starves a page (lines 384-387).
THEOREM PagesAreFull == Spec => PageIsFull
<1>1. IInv => TypeOK
  BY DEF IInv, PriceIInv, TypeOK
<1>2. TypeOK => [Search /\ Cardinality(shown' \ shown) < call.limit
                   => {market[i] : i \in Matching} \subseteq shown']_vars
  BY FullPage
<1> QED
  BY <1>1, <1>2, Inductive, PTL DEF PageIsFull

\* The ranking loses nothing to the size of the request: whatever is among the next three
\* pages of what matches and is not shown has no better margin than what is.
THEOREM PagesAreBest == Spec => BestOfNext
<1> DEFINE Best == Search =>
             \A i \in First(Enriched(Matching), 3 * call.limit) :
               market[i] \notin shown' =>
                 \A d \in shown' \ shown :
                   Margin(market[i], call.price) <= Margin(d, call.price)
<1>1. IInv => TypeOK
  BY DEF IInv, PriceIInv, TypeOK
<1>2. TypeOK => [Best]_vars
  BY BestPage
<1> QED
  BY <1>1, <1>2, Inductive, PTL DEF BestOfNext
=============================================================================
