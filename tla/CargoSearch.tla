---------------------------- MODULE CargoSearch -----------------------------
(***************************************************************************)
(* The tool search_cargo of agent-service (tools/search_cargo.py), from a  *)
(* driver's first search to his last "show me more": a price for diesel,   *)
(* the driver's words turned into Lardi's filters, one request for more    *)
(* cargos than are wanted, and the best of those not shown yet.  Meanwhile *)
(* the market changes.  GeoResolver models the route's two ends;           *)
(* SessionRecovery what becomes of the request on its way.                 *)
(***************************************************************************)
EXTENDS FuelPrice, SequencesExt

CONSTANTS Cargos,   \* what may be on the market
          Distance, \* of each, 0 when Lardi does not know it
          Payment,  \* of each, NoPayment when it is to be asked for
          Currency, \* of each, Lardi's id
          BodyType, \* of each, Lardi's id
          Words,    \* what drivers call a body
          BodyIds,  \* BODY_TYPE_UA_TO_ID: an id for each word, 0 for one it does not hold
          Limits,   \* pages drivers ask for
          MinFetch  \* 50

UAH == 4
NoPayment == -1000
NoMargin == -1000000

\* NoMargin stands for None, and is none of the numbers a margin can be.
ASSUME SearchAssumption ==
  /\ IsFiniteSet(Cargos)
  /\ Distance \in [Cargos -> Nat]
  /\ Payment \in [Cargos -> Int]
  /\ Currency \in [Cargos -> 1..4]
  /\ BodyIds \in [Words -> Nat]
  /\ BodyType \in [Cargos -> Nat]
  /\ Limits \subseteq Int
  /\ MinFetch \in Nat
  /\ \A c \in Cargos, p \in Prices : Payment[c] - Distance[c] * p > NoMargin
-----------------------------------------------------------------------------
VARIABLES
  market, \* Lardi's cargos, the latest first
  word,   \* the body asked for in this conversation
  shown,  \* cargos the conversation has shown: exclude_ids of the next search
  call    \* the tool call: [at, limit, price]

searchVars == <<market, word, shown, call>>
vars == <<fuelVars, searchVars>>

Idle == [at |-> "idle", limit |-> 0, price |-> NoPrice]

\* A tool call under way asks for a cargo at least.
SearchTypeOK ==
  /\ market \in Seq(Cargos) /\ \A i, j \in DOMAIN market : market[i] = market[j] => i = j
  /\ word \in Words
  /\ shown \subseteq Cargos
  /\ call \in [at : {"idle", "price", "search"}, limit : 0..25, price : Prices \cup {NoPrice}]
  /\ call = Idle \/ call.limit > 0

TypeOK == FuelTypeOK /\ SearchTypeOK

Init ==
  /\ FuelInit
  /\ market = << >> /\ word \in Words /\ shown = {} /\ call = Idle
-----------------------------------------------------------------------------
(***************************************************************************)
(* The market, which changes at any time.                                  *)
(***************************************************************************)
Post(c) ==
  /\ \A i \in DOMAIN market : market[i] # c
  /\ market' = <<c>> \o market
  /\ UNCHANGED <<fuelVars, word, shown, call>>

Withdraw(i) ==
  /\ market' = RemoveAt(market, i)
  /\ UNCHANGED <<fuelVars, word, shown, call>>
-----------------------------------------------------------------------------
(***************************************************************************)
(* The request.                                                            *)
(***************************************************************************)
\* Mutant: a request that forgets what is to be excluded.
Mutant_FetchSize(limit) == Max({MinFetch, 3 * limit})

SafeLimit(limit) == Max({1, Min({25, limit})})

\* Enough for limit new cargos and as many again, twice, after the exclusion.
FetchSize(limit) == Max({MinFetch, 3 * limit + Cardinality(shown)})

\* A word the table does not hold is dropped with a warning, and the search goes on as if
\* it had not been said.  The tool does the same with the loading, the documents and the modifiers.
BodyFilter == BodyIds[word]

\* The body of the request, as connector and Lardi apply it: a filter that is None is none.
Matches(c) == BodyFilter = 0 \/ BodyType[c] = BodyFilter

\* Where the market, the latest first, has what was asked for, and the first n of it.
Matching == {i \in DOMAIN market : Matches(market[i])}
First(S, n) == {i \in S : Cardinality({j \in S : j < i}) < n}

\* Lardi's answer, as the connector parses it.
Proposals(size) == First(Matching, size)
-----------------------------------------------------------------------------
(***************************************************************************)
(* The answer.                                                             *)
(***************************************************************************)
\* Only what is paid in hryvnias can be set against diesel.
PaymentValue(c) == IF Currency[c] = UAH THEN Payment[c] ELSE NoPayment

Margin(c, p) ==
  IF Distance[c] = 0 \/ PaymentValue(c) = NoPayment \/ p = NoPrice THEN NoMargin
  ELSE Payment[c] - Distance[c] * p

Enriched(S) == {i \in S : market[i] \notin shown}

\* sorted() is stable, also in reverse; cargos without a margin come last, in Lardi's order.
Before(i, j, p) ==
  \/ Margin(market[i], p) > Margin(market[j], p)
  \/ Margin(market[i], p) = Margin(market[j], p) /\ i < j

Ranked(S, n, p) == {i \in S : Cardinality({j \in S : Before(j, i, p)}) < n}

\* Mutant: a page that is not filled up with cargos without a margin.
Mutant_Page ==
  LET all == Enriched(Proposals(FetchSize(call.limit)))
      best == {i \in all : Margin(market[i], call.price) # NoMargin}
  IN Ranked(best, call.limit, call.price)

Page == Ranked(Enriched(Proposals(FetchSize(call.limit))), call.limit, call.price)
-----------------------------------------------------------------------------
(***************************************************************************)
(* The tool call.                                                          *)
(***************************************************************************)
\* A first search, for which the conversation has nothing to exclude, or a further one.
Ask(w, limit) ==
  /\ call = Idle
  /\ word' = w /\ shown' = {}
  /\ call' = [call EXCEPT !.at = "price", !.limit = SafeLimit(limit)]
  /\ UNCHANGED <<fuelVars, market>>

AskMore(limit) ==
  /\ call = Idle
  /\ call' = [call EXCEPT !.at = "price", !.limit = SafeLimit(limit)]
  /\ UNCHANGED <<fuelVars, market, word, shown>>

\* The price is read first; the request may then take as long as it likes.
GetPrice ==
  /\ call.at = "price"
  /\ \E p \in Readable :
       /\ Reads(p)
       /\ call' = [call EXCEPT !.at = "search", !.price = p]
       /\ had' = (had \/ p # NoPrice)
  /\ UNCHANGED <<redisVars, jobVars, gap, failed, market, word, shown>>

\* Lardi answers, and the page goes into the conversation.
Search ==
  /\ call.at = "search"
  /\ shown' = shown \cup {market[i] : i \in Page}
  /\ call' = Idle
  /\ UNCHANGED <<fuelVars, market, word>>

\* No place found, no answer from the connector within the time allowed, or an error.
SearchFails ==
  /\ call.at = "search" /\ "search" \in Faults
  /\ call' = Idle
  /\ UNCHANGED <<fuelVars, market, word, shown>>

\* The conversation is in the database; the price is not.
AgentRestarts ==
  /\ "agent" \in Faults
  /\ memory' = NoPrice /\ had' = FALSE
  /\ call' = Idle
  /\ UNCHANGED <<redisVars, jobVars, gap, failed, market, word, shown>>
-----------------------------------------------------------------------------
Next ==
  \/ FuelNext /\ UNCHANGED searchVars
  \/ \E c \in Cargos : Post(c)
  \/ \E i \in DOMAIN market : Withdraw(i)
  \/ \E l \in Limits : AskMore(l) \/ \E w \in Words : Ask(w, l)
  \/ GetPrice \/ Search \/ SearchFails \/ AgentRestarts

Spec == Init /\ [][Next]_vars
-----------------------------------------------------------------------------
(***************************************************************************)
(* Properties.                                                             *)
(***************************************************************************)
\* However often the driver asks for more, and whatever was posted since, a page is short
\* only when it and the pages before show all there is: lines 384-387 promise that enough
\* is left after the exclusion.
PageIsFull ==
  [][Search /\ Cardinality(shown' \ shown) < call.limit
       => {market[i] : i \in Matching} \subseteq shown']_vars

\* The page holds the best of the next 3 * limit cargos at the least: one of them that is
\* left out has no better margin than any that is in (168, 533-549).
BestOfNext ==
  [][Search =>
       \A i \in First(Enriched(Matching), 3 * call.limit) :
         market[i] \notin shown' =>
           \A d \in shown' \ shown :
             Margin(market[i], call.price) <= Margin(d, call.price)]_vars

\* Once a process has had a price, every later search has one: neither the key's expiry
\* nor Redis takes the margins away (fuel_price.py 49-55).
PriceOutlivesKey == had /\ call.at = "search" => call.price # NoPrice

\* The types, and what becomes of the price.
PriceInv == TypeOK /\ GapIsShort /\ PriceOutlivesKey
=============================================================================
