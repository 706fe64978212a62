---------------------------- MODULE GeoResolver -----------------------------
(***************************************************************************)
(* From the name of a place to a direction Lardi understands: GeoResolver  *)
(* of agent-service (services/geo_resolver.py), as search_cargo calls it   *)
(* for the two ends of a route in one database session, and the script     *)
(* that fills the table of towns (import_ua_cities.py).                    *)
(*                                                                         *)
(* All tool calls of the process share the resolver and its cache, which   *)
(* nothing ever clears; the table is shared with the script and outlives   *)
(* the process.  Every await of resolve() separates two actions.           *)
(***************************************************************************)
EXTENDS Integers, Sequences

CONSTANTS Tasks,       \* tool calls that may run at the same time
          Names,       \* lower-case names people write
          Signs,       \* country signs
          CountrySign, \* COUNTRY_UA_TO_SIGN: a sign for each name, or ""
          Osm,         \* what OpenStreetMap says of a name: a sign, "" or "nowhere"
          Similarity,  \* word_similarity of a name and a stored name, in percent
          Cities,      \* UA_CITIES, in the script's order
          Towns,       \* Lardi's town ids
          LardiHits,   \* the towns Lardi's geo API lists for a city
          Queries,     \* pairs of names the model asks about
          Faults       \* which misfortunes this instance allows

ASSUME GeoAssumption ==
  /\ "UA" \in Signs /\ "" \notin Signs /\ "nowhere" \notin Signs
  /\ CountrySign \in [Names -> Signs \cup {""}]
  /\ Osm \in [Names -> Signs \cup {"", "nowhere"}]
  /\ Similarity \in [Names -> [Names -> 0..100]]
  /\ \A n \in Names : Similarity[n][n] = 100
  /\ Cities \in Seq(Names)
  /\ Towns \subseteq Nat \ {0}
  /\ LardiHits \in [Names -> Seq([id : Towns, matches : BOOLEAN])]
  /\ Queries \subseteq Names \X Names
  /\ Faults \subseteq {"db", "osm", "lardi", "restart", "script"}

TRGM_THRESHOLD == 35

NoTown == 0                \* NULL, None
NotFound == << >>          \* None as a cached answer
Unasked == <<"unasked">>   \* a name the cache does not hold
Direction(sign, town) == <<sign, town>>
Directions == Signs \X (Towns \cup {NoTown})
-----------------------------------------------------------------------------
VARIABLES
  rows,     \* ua_cities: [name, town]; rows alike in both count once
  cache,    \* GeoResolver._cache
  at,       \* where each tool call is
  left,     \* the names it has still to resolve
  aborted,  \* its session is in an aborted transaction
  city,     \* the import's place in Cities, 0 when it does not run
  hurt,     \* history: calls in which a query of the table failed
  blamed,   \* history: names OpenStreetMap failed to answer for in this process
  known     \* history: names that had a town of their own when this process started

callVars == <<at, left, aborted>>
geoHistory == <<hurt, blamed, known>>
geoVars == <<rows, cache, callVars, city, geoHistory>>

Stages == {"idle", "look", "exact", "trgm", "osm", "save", "raised"}

TypeOK ==
  /\ rows \subseteq [name : Names, town : Towns \cup {NoTown}]
  /\ cache \in [Names -> Directions \cup {NotFound, Unasked}]
  /\ at \in [Tasks -> Stages]
  /\ left \in [Tasks -> Seq(Names)]
  /\ \A t \in Tasks : /\ Len(left[t]) <= 2
                      /\ left[t] = << >> <=> at[t] \in {"idle", "raised"}
  /\ aborted \in [Tasks -> BOOLEAN]
  /\ city \in 0..Len(Cities)
  /\ hurt \subseteq Tasks /\ blamed \subseteq Names /\ known \subseteq Names

Init ==
  /\ rows = {}
  /\ cache = [n \in Names |-> Unasked]
  /\ at = [t \in Tasks |-> "idle"] /\ left = [t \in Tasks |-> << >>]
  /\ aborted = [t \in Tasks |-> FALSE]
  /\ city = 0 /\ hurt = {} /\ blamed = {} /\ known = {}
-----------------------------------------------------------------------------
(***************************************************************************)
(* Mutants: NULLS FIRST; a row without an id taken for no row.             *)
(***************************************************************************)
Mutant_BestTown(S) ==
  IF \E r \in S : r.town = NoTown THEN NoTown
  ELSE CHOOSE x \in {r.town : r \in S} : \A r \in S : x <= r.town
Mutant_BuildDirection(town) == IF town = NoTown THEN NotFound ELSE Direction("UA", town)

\* ORDER BY lardi_town_id ASC NULLS LAST LIMIT 1, over the rows left after the WHERE and
\* the similarity.
BestTown(S) ==
  LET ids == {r.town : r \in S} \ {NoTown}
  IN IF ids = {} THEN NoTown ELSE CHOOSE x \in ids : \A y \in ids : x <= y

SameName(n) == {r \in rows : r.name = n}

MostSimilar(n) ==
  LET sim(r) == Similarity[n][r.name]
      near == {r \in rows : sim(r) >= TRGM_THRESHOLD}
  IN {r \in near : \A s \in near : sim(s) <= sim(r)}

IsCity(n) == \E i \in DOMAIN Cities : Cities[i] = n

\* The first town Lardi lists whose name contains the city's, or else simply the first.
LardiTownId(n) ==
  LET hits == LardiHits[n]
      exact == {i \in DOMAIN hits : hits[i].matches}
      best == IF exact # {} THEN exact ELSE DOMAIN hits
  IN IF best = {} THEN NoTown
     ELSE hits[CHOOSE i \in best : \A j \in best : i <= j].id

\* So Lardi's answer for another city may be the town of n.
Shared(n) == \E m \in Names \ {n} : IsCity(m) /\ LardiTownId(m) = LardiTownId(n)

\* _build_direction: both queries of the table answer for Ukraine.
BuildDirection(town) == Direction("UA", town)

\* A tool call has a session of its own, in order whatever became of the last one.
Call(t, q) ==
  /\ at[t] \in {"idle", "raised"}
  /\ at' = [at EXCEPT ![t] = "look"]
  /\ left' = [left EXCEPT ![t] = q]
  /\ aborted' = [aborted EXCEPT ![t] = FALSE]
  /\ hurt' = hurt \ {t}
  /\ UNCHANGED <<rows, cache, city, blamed, known>>

\* resolve() returns for the name at hand and the tool goes on: to the other end of the
\* route, whether this one was found or not, and then, its session closed, to the search
\* or to its error.  broken: the session is left in an aborted transaction.
Returns(t, broken) ==
  LET more == Len(left[t]) > 1
  IN /\ at' = [at EXCEPT ![t] = IF more THEN "look" ELSE "idle"]
     /\ left' = [left EXCEPT ![t] = Tail(@)]
     /\ aborted' = [aborted EXCEPT ![t] = more /\ broken]
     /\ hurt' = IF more THEN hurt ELSE hurt \ {t}

Answers(t, d, broken) ==
  Returns(t, broken) /\ cache' = [cache EXCEPT ![Head(left[t])] = d]

GoesTo(t, stage) ==
  at' = [at EXCEPT ![t] = stage] /\ UNCHANGED <<left, cache, aborted, hurt>>

ResolveCountrySign(n) == CountrySign[n]

\* Steps 1 and 2, the cache and the names of countries, without an await.
Look(t) ==
  /\ at[t] = "look"
  /\ LET n == Head(left[t])
     IN \/ cache[n] # Unasked /\ Returns(t, aborted[t]) /\ UNCHANGED cache
        \/ /\ cache[n] = Unasked /\ ResolveCountrySign(n) # ""
           /\ Answers(t, Direction(ResolveCountrySign(n), NoTown), aborted[t])
        \/ cache[n] = Unasked /\ ResolveCountrySign(n) = "" /\ GoesTo(t, "exact")
  /\ UNCHANGED <<rows, city, blamed, known>>

\* Steps 3 and 4, the two queries of the table.
Queried(t, S, next) ==
  /\ IF S # {} THEN Answers(t, BuildDirection(BestTown(S)), aborted[t]) ELSE GoesTo(t, next)
  /\ UNCHANGED <<rows, city, blamed, known>>

Exact(t) == at[t] = "exact" /\ ~aborted[t] /\ Queried(t, SameName(Head(left[t])), "trgm")
Trgm(t) == at[t] = "trgm" /\ Queried(t, MostSimilar(Head(left[t])), "osm")

\* The exact query has no handler: the tool call ends with the exception.  It fails by
\* itself, or because an earlier failure left the transaction aborted.
ExactRaises(t) ==
  /\ at[t] = "exact"
  /\ aborted[t] \/ "db" \in Faults
  /\ at' = [at EXCEPT ![t] = "raised"]
  /\ left' = [left EXCEPT ![t] = << >>]
  /\ hurt' = IF aborted[t] THEN hurt ELSE hurt \cup {t}
  /\ UNCHANGED <<rows, cache, aborted, city, blamed, known>>

\* The error is logged and nothing rolled back.
TrgmFails(t) ==
  /\ at[t] = "trgm" /\ "db" \in Faults
  /\ aborted' = [aborted EXCEPT ![t] = TRUE]
  /\ hurt' = hurt \cup {t}
  /\ at' = [at EXCEPT ![t] = "osm"]
  /\ UNCHANGED <<rows, cache, left, city, blamed, known>>
-----------------------------------------------------------------------------
\* Step 5, and step 6 where nothing was found: None is cached like any other answer.
AskOsm(t) ==
  /\ at[t] = "osm"
  /\ IF Osm[Head(left[t])] = "" THEN Answers(t, NotFound, aborted[t]) ELSE GoesTo(t, "save")
  /\ UNCHANGED <<rows, city, blamed, known>>

OsmFails(t) ==
  /\ at[t] = "osm" /\ "osm" \in Faults
  /\ blamed' = blamed \cup {Head(left[t])}
  /\ Answers(t, NotFound, aborted[t])
  /\ UNCHANGED <<rows, city, known>>

\* A place without a country code is saved, yet answered with None.
OsmAnswer(n) == IF Osm[n] = "nowhere" THEN NotFound ELSE Direction(Osm[n], NoTown)

\* The place is stored under the name that was asked, whatever its country: with no town
\* id the INSERT never conflicts.  The answer does not depend on it.
Save(t) ==
  /\ at[t] = "save" /\ ~aborted[t]
  /\ rows' = rows \cup {[name |-> Head(left[t]), town |-> NoTown]}
  /\ Answers(t, OsmAnswer(Head(left[t])), FALSE)
  /\ UNCHANGED <<city, blamed, known>>

Mutant_SaveFails(t) ==
  /\ at[t] = "save"
  /\ aborted[t] \/ "db" \in Faults
  /\ Answers(t, OsmAnswer(Head(left[t])), TRUE)
  /\ UNCHANGED <<rows, city, blamed, known>>

\* The rollback makes the session usable again.
SaveFails(t) ==
  /\ at[t] = "save"
  /\ aborted[t] \/ "db" \in Faults
  /\ Answers(t, OsmAnswer(Head(left[t])), FALSE)
  /\ UNCHANGED <<rows, city, blamed, known>>

Known == {n \in Names : ~Shared(n) /\ \E r \in SameName(n) : r.town # NoTown}

\* A new process starts with an empty cache.
Restart ==
  /\ "restart" \in Faults
  /\ cache' = [n \in Names |-> Unasked]
  /\ at' = [t \in Tasks |-> "idle"] /\ left' = [t \in Tasks |-> << >>]
  /\ aborted' = [t \in Tasks |-> FALSE]
  /\ hurt' = {} /\ blamed' = {} /\ known' = Known
  /\ UNCHANGED <<rows, city>>
-----------------------------------------------------------------------------
(***************************************************************************)
(* The script: one city after the other, each in a transaction of its own, *)
(* which is all that the rest of the system sees of it.                    *)
(***************************************************************************)
NextCity == city' = IF city = Len(Cities) THEN 0 ELSE city + 1

StartImport == city = 0 /\ NextCity /\ UNCHANGED <<rows, cache, callVars, geoHistory>>

\* A city without coordinates is skipped, and so is one the database refuses.
SkipCity ==
  /\ city # 0
  /\ \/ Osm[Cities[city]] = ""
     \/ Faults \cap {"osm", "db"} # {}
  /\ NextCity
  /\ UNCHANGED <<rows, cache, callVars, geoHistory>>

Mutant_Upsert(name, town) ==
  {r \in rows : r.town # town} \cup {[name |-> name, town |-> town]}

\* ON CONFLICT (lardi_town_id) DO UPDATE SET name_ua: the row of that town gets a new name.
Upsert(name, town) ==
  {r \in rows : town = NoTown \/ r.town # town} \cup {[name |-> name, town |-> town]}

InsertCity ==
  /\ city # 0 /\ Osm[Cities[city]] # ""
  /\ \/ rows' = Upsert(Cities[city], LardiTownId(Cities[city]))
     \/ "lardi" \in Faults /\ rows' = Upsert(Cities[city], NoTown)
  /\ NextCity
  /\ UNCHANGED <<cache, callVars, geoHistory>>

ScriptDies ==
  /\ "script" \in Faults /\ city' = 0
  /\ UNCHANGED <<rows, cache, callVars, geoHistory>>
-----------------------------------------------------------------------------
Resolving(t) ==
  \/ \E q \in Queries : Call(t, q)
  \/ Look(t) \/ Exact(t) \/ ExactRaises(t) \/ Trgm(t) \/ TrgmFails(t)
  \/ AskOsm(t) \/ OsmFails(t) \/ Save(t) \/ SaveFails(t)

Importing ==
  Cities # << >> /\ (StartImport \/ SkipCity \/ InsertCity \/ ScriptDies)

Next == (\E t \in Tasks : Resolving(t)) \/ Importing \/ Restart

Spec == Init /\ [][Next]_geoVars
-----------------------------------------------------------------------------
(***************************************************************************)
(* Properties.                                                             *)
(***************************************************************************)
\* A town that was in the table with an id of its own when the process started is answered
\* with a town, whatever fails, and however many rows without an id the fallback has added
\* under its name: lines 139-157 of geo_resolver.py.
TownIsAnswered ==
  \A n \in known :
    CountrySign[n] = ""
      => cache[n] = Unasked \/ (cache[n] # NotFound /\ cache[n][2] # NoTown)

\* Step 6 caches "not found" for good (119-130).  It is true unless OpenStreetMap did not
\* answer: a database that fails meanwhile never makes a place unknown.
NotFoundIsTrue ==
  \A n \in Names \ blamed : cache[n] = NotFound => Osm[n] \in {"", "nowhere"}

\* A place abroad is answered as one in Ukraine only where the fallback stored a place of
\* that or a similar name before, perhaps for a call that ran at the same time (242-257).
WrongCountryIsSaved ==
  \A n \in Names :
    cache[n] = Direction("UA", NoTown) /\ CountrySign[n] # "UA" /\ Osm[n] # "UA"
      => \E r \in rows : r.town = NoTown /\ Similarity[n][r.name] >= TRGM_THRESHOLD

\* The types, and what may be answered from the table.
TableInv == TypeOK /\ TownIsAnswered /\ WrongCountryIsSaved

\* A tool call raises only after a query of the table failed in its own session: neither
\* the geocoding nor the saving of its answer ever makes it raise, at either end of the
\* route (240-283).
RaiseMeansHurt == \A t \in Tasks : at[t] = "raised" => t \in hurt

\* A name the table holds is lost only to another city that Lardi gives the same town
\* (125-134 of import_ua_cities.py).
NamesAreKept ==
  [][\A r \in rows : (\E q \in rows' : q.name = r.name) \/ Shared(r.name)]_geoVars
=============================================================================
