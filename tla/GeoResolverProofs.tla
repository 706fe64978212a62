------------------------- MODULE GeoResolverProofs --------------------------
(***************************************************************************)
(* Proofs about GeoResolver for every set of tool calls, names and towns,  *)
(* every similarity, every list of cities and every set of faults.         *)
(***************************************************************************)
EXTENDS GeoResolver, WellFoundedInduction, TLAPS

\* A row's town id is the one Lardi gives its name, and a name known from the start keeps
\* its row because no other city is given the same town.
RowsInv ==
  /\ \A r \in rows : r.town # NoTown => r.town = LardiTownId(r.name) /\ IsCity(r.name)
  /\ \A n \in known : ~Shared(n) /\ \E r \in SameName(n) : r.town # NoTown

\* How far a call gets with the name at hand: a known name never gets past the exact query.
StageInv ==
  \A t \in Tasks :
    /\ at[t] \in {"exact", "trgm", "osm", "save"} => CountrySign[Head(left[t])] = ""
    /\ at[t] \in {"trgm", "osm", "save"} => Head(left[t]) \notin known
    /\ at[t] = "save" => Osm[Head(left[t])] # ""

\* What may be answered for n: TownIsAnswered, NotFoundIsTrue and WrongCountryIsSaved.
Justified(n, d) ==
  /\ n \in known /\ CountrySign[n] = "" => d # NotFound /\ d[2] # NoTown
  /\ n \notin blamed /\ d = NotFound => Osm[n] \in {"", "nowhere"}
  /\ d = Direction("UA", NoTown) /\ CountrySign[n] # "UA" /\ Osm[n] # "UA" =>
       \E r \in rows : r.town = NoTown /\ Similarity[n][r.name] >= TRGM_THRESHOLD

AnswerInv == \A n \in Names : cache[n] # Unasked => Justified(n, cache[n])

\* A transaction is aborted, and a call raises, only in a session that was hurt.
HurtInv == \A t \in Tasks : aborted[t] \/ at[t] = "raised" => t \in hurt

IInv == TypeOK /\ RowsInv /\ StageInv /\ AnswerInv /\ HurtInv
-----------------------------------------------------------------------------
(***************************************************************************)
(* Towns and directions.                                                   *)
(***************************************************************************)

\* The parts of the assumption.
LEMMA Given ==
  /\ "UA" \in Signs /\ "" \notin Signs /\ "nowhere" \notin Signs
  /\ Towns \subseteq Nat /\ NoTown \notin Towns
  /\ \A n \in Names : /\ Osm[n] \in Signs \cup {"", "nowhere"}
                      /\ CountrySign[n] \in Signs \cup {""}
                      /\ Similarity[n][n] = 100
  /\ Cities \in Seq(Names)
  /\ LardiHits \in [Names -> Seq([id : Towns, matches : BOOLEAN])]
  /\ Queries \subseteq Names \X Names
<1>1. Towns \subseteq Nat \ {0}
  BY GeoAssumption, Zenon
<1>2. Towns \subseteq Nat /\ NoTown \notin Towns
  BY <1>1 DEF NoTown
<1>3. /\ Osm \in [Names -> Signs \cup {"", "nowhere"}]
      /\ CountrySign \in [Names -> Signs \cup {""}]
  BY GeoAssumption, Zenon
<1>4. \A n \in Names : Osm[n] \in Signs \cup {"", "nowhere"} /\ CountrySign[n] \in Signs \cup {""}
  BY <1>3
<1> QED
  BY <1>2, <1>4, GeoAssumption, Zenon

LEMMA Smallest ==
  ASSUME NEW S \in SUBSET Nat, S # {}
  PROVE  \E x \in S : \A y \in S : x <= y
<1> DEFINE R == OpToRel(<, Nat)
<1>1. PICK x \in S : \A y \in S : <<y, x>> \notin R
  <2> HIDE DEF R
  <2>1. IsWellFoundedOn(R, Nat)
    BY NatLessThanWellFounded DEF R
  <2> QED
    BY <2>1, WFMin
<1>2. ASSUME NEW y \in S PROVE x <= y
  <2>1. x \in Nat /\ y \in Nat /\ ~(y < x)
    BY <1>1 DEF OpToRel
  <2> HIDE DEF R
  <2> QED
    BY <2>1
<1> QED
  BY <1>2

LEMMA Entry ==
  ASSUME NEW T, NEW s \in Seq(T)
  PROVE  (\A i \in DOMAIN s : s[i] \in T) /\ (s = << >> <=> Len(s) = 0)
OBVIOUS

LEMMA LardiGivesATown ==
  ASSUME NEW n \in Names
  PROVE  LardiTownId(n) \in Towns \cup {NoTown}
<1> DEFINE hits == LardiHits[n]
           exact == {i \in DOMAIN hits : hits[i].matches}
           best == IF exact # {} THEN exact ELSE DOMAIN hits
           first == CHOOSE i \in best : \A j \in best : i <= j
<1>1. hits \in Seq([id : Towns, matches : BOOLEAN])
  BY Given
<1>2. best \subseteq DOMAIN hits /\ DOMAIN hits \subseteq Nat
  BY <1>1
<1>3. LardiTownId(n) = IF best = {} THEN NoTown ELSE hits[first].id
  BY DEF LardiTownId
<1>4. ASSUME best # {} PROVE first \in DOMAIN hits
  <2> HIDE DEF best
  <2>1. \E i \in best : \A j \in best : i <= j
    BY <1>2, <1>4, Smallest
  <2> QED
    BY <1>2, <2>1
<1> HIDE DEF hits, best, first
<1>5. ASSUME NEW i \in DOMAIN hits PROVE hits[i].id \in Towns
  <2>1. hits[i] \in [id : Towns, matches : BOOLEAN]
    BY <1>1, Entry, Zenon
  <2> QED
    BY <2>1
<1> QED
  BY <1>3, <1>4, <1>5

\* The best of some rows has no town only if none of them has one.
LEMMA BestIs ==
  ASSUME TypeOK, NEW S \in SUBSET rows
  PROVE  /\ BestTown(S) \in Towns \cup {NoTown}
         /\ BestTown(S) = NoTown => \A r \in S : r.town = NoTown
<1> DEFINE ids == {r.town : r \in S} \ {NoTown}
           best == CHOOSE x \in ids : \A y \in ids : x <= y
<1>1. ids \subseteq Towns /\ Towns \subseteq Nat
  <2>1. \A r \in S : r.town \in Towns \cup {NoTown}
    BY DEF TypeOK
  <2>2. Towns \subseteq Nat
    BY Given, Zenon
  <2>3. ids \subseteq Towns
    BY <2>1
  <2> QED
    BY <2>2, <2>3
<1>2. BestTown(S) = IF ids = {} THEN NoTown ELSE best
  BY DEF BestTown
<1>3. ASSUME ids # {} PROVE best \in ids
  <2> HIDE DEF ids
  <2>1. \E x \in ids : \A y \in ids : x <= y
    BY <1>1, <1>3, Smallest
  <2> QED
    BY <2>1
<1> HIDE DEF best
<1>4. CASE ids = {}
  BY <1>2, <1>4
<1>5. CASE ids # {}
  <2>1. BestTown(S) \in ids
    BY <1>2, <1>3, <1>5
  <2> QED
    BY <1>1, <2>1
<1> QED
  BY <1>4, <1>5

LEMMA DirectionIs ==
  ASSUME NEW sign \in Signs, NEW town \in Towns \cup {NoTown}
  PROVE  /\ Direction(sign, town) \in Directions
         /\ Direction(sign, town) # NotFound /\ Direction(sign, town) # Unasked
         /\ Direction(sign, town)[1] = sign /\ Direction(sign, town)[2] = town
<1>1. Direction(sign, town) \in Directions
  BY DEF Direction, Directions
<1>2. Len(Direction(sign, town)) = 2 /\ Len(NotFound) = 0 /\ Len(Unasked) = 1
  BY DEF Direction, NotFound, Unasked
<1>3. Direction(sign, town)[1] = sign /\ Direction(sign, town)[2] = town
  BY DEF Direction
<1> QED
  BY <1>1, <1>2, <1>3

LEMMA NotFoundIs == NotFound # Unasked /\ NoTown \notin Towns
<1>1. Len(NotFound) = 0 /\ Len(Unasked) = 1
  BY DEF NotFound, Unasked
<1>2. NoTown \notin Towns
  BY Given, Zenon
<1> QED
  BY <1>1, <1>2

\* What OpenStreetMap finds is saved and answered with its country, or with nothing.
LEMMA OsmAnswerIs ==
  ASSUME NEW n \in Names, Osm[n] # ""
  PROVE  /\ OsmAnswer(n) \in Directions \cup {NotFound}
         /\ OsmAnswer(n) = NotFound => Osm[n] = "nowhere"
         /\ OsmAnswer(n) = Direction("UA", NoTown) => Osm[n] = "UA"
<1>1. CASE Osm[n] = "nowhere"
  <2>1. OsmAnswer(n) = NotFound
    BY <1>1 DEF OsmAnswer
  <2>2. NotFound # Direction("UA", NoTown)
    <3>1. "UA" \in Signs
      BY Given, Zenon
    <3> QED
      BY <3>1, DirectionIs
  <2> QED
    BY <1>1, <2>1, <2>2
<1>2. CASE Osm[n] \in Signs
  <2>1. OsmAnswer(n) = Direction(Osm[n], NoTown)
    BY <1>2, Given DEF OsmAnswer
  <2>2. /\ Direction(Osm[n], NoTown) \in Directions /\ Direction(Osm[n], NoTown) # NotFound
        /\ Direction(Osm[n], NoTown)[1] = Osm[n]
    BY <1>2, DirectionIs
  <2>3. Direction("UA", NoTown)[1] = "UA"
    <3>1. "UA" \in Signs
      BY Given, Zenon
    <3> QED
      BY <3>1, DirectionIs
  <2> QED
    BY <2>1, <2>2, <2>3
<1> QED
  BY <1>1, <1>2, Given
-----------------------------------------------------------------------------
(***************************************************************************)
(* Answers.                                                                *)
(***************************************************************************)

LEMMA OneLess ==
  ASSUME NEW s \in Seq(Names), s # << >>
  PROVE  /\ Len(s) \in Nat \ {0} /\ Tail(s) \in Seq(Names) /\ Len(Tail(s)) = Len(s) - 1
         /\ Tail(s) = << >> <=> ~(Len(s) > 1)
         /\ Head(s) \in Names
<1>1. Len(s) \in Nat \ {0} /\ Tail(s) \in Seq(Names) /\ Len(Tail(s)) = Len(s) - 1
  OBVIOUS
<1>2. Tail(s) = << >> <=> Len(Tail(s)) = 0
  BY <1>1, Entry, Zenon
<1> QED
  BY <1>1, <1>2

\* A call that has its answer goes on to the next name or is over.
LEMMA ReturnsFacts ==
  ASSUME TypeOK, NEW t \in Tasks, at[t] \notin {"idle", "raised"}, NEW broken \in BOOLEAN,
         Returns(t, broken)
  PROVE  /\ at' \in [Tasks -> Stages] /\ at'[t] \in {"look", "idle"}
         /\ left' \in [Tasks -> Seq(Names)] /\ Len(left'[t]) <= 2
         /\ left'[t] = << >> <=> at'[t] \in {"idle", "raised"}
         /\ \A u \in Tasks \ {t} : /\ at'[u] = at[u] /\ left'[u] = left[u]
                                   /\ aborted'[u] = aborted[u]
         /\ aborted' \in [Tasks -> BOOLEAN] /\ (aborted'[t] => broken /\ hurt' = hurt)
         /\ hurt' \in SUBSET Tasks /\ hurt \ {t} \subseteq hurt'
<1> DEFINE more == Len(left[t]) > 1
<1>1. /\ left[t] \in Seq(Names) /\ Len(left[t]) <= 2 /\ left[t] # << >>
      /\ at \in [Tasks -> Stages] /\ left \in [Tasks -> Seq(Names)]
      /\ aborted \in [Tasks -> BOOLEAN] /\ hurt \subseteq Tasks
  BY DEF TypeOK
<1>2. /\ Tail(left[t]) \in Seq(Names) /\ Len(Tail(left[t])) = Len(left[t]) - 1
      /\ Len(left[t]) \in Nat
  BY <1>1, OneLess
<1>3. Tail(left[t]) = << >> <=> ~more
  BY <1>1, OneLess
<1>4. /\ at' = [at EXCEPT ![t] = IF more THEN "look" ELSE "idle"]
      /\ left' = [left EXCEPT ![t] = Tail(left[t])]
      /\ aborted' = [aborted EXCEPT ![t] = more /\ broken]
      /\ hurt' = IF more THEN hurt ELSE hurt \ {t}
  BY DEF Returns
<1>5. more \in BOOLEAN
  OBVIOUS
<1> HIDE DEF more
<1>6. at' \in [Tasks -> Stages] /\ at'[t] = IF more THEN "look" ELSE "idle"
  BY <1>1, <1>4 DEF Stages
<1>7. left' \in [Tasks -> Seq(Names)] /\ left'[t] = Tail(left[t])
  BY <1>1, <1>2, <1>4
<1>8. aborted' \in [Tasks -> BOOLEAN] /\ aborted'[t] = (more /\ broken)
  BY <1>1, <1>4, <1>5
<1>9. \A u \in Tasks \ {t} : /\ at'[u] = at[u] /\ left'[u] = left[u]
                             /\ aborted'[u] = aborted[u]
  BY <1>1, <1>4
<1>10. Len(left'[t]) <= 2
  BY <1>1, <1>2, <1>7
<1> QED
  BY <1>1, <1>3, <1>4, <1>6, <1>7, <1>8, <1>9, <1>10

LEMMA AtHand ==
  ASSUME TypeOK, NEW t \in Tasks, at[t] \notin {"idle", "raised"}
  PROVE  left[t] \in Seq(Names) /\ left[t] # << >> /\ Head(left[t]) \in Names
<1>1. left[t] \in Seq(Names) /\ left[t] # << >>
  BY DEF TypeOK
<1> QED
  BY <1>1, OneLess

\* resolve() returns an answer for the name at hand that may be given.
Resolved(t) ==
  \E n \in Names, d \in Directions \cup {NotFound}, broken \in BOOLEAN :
    /\ at[t] \notin {"idle", "raised"} /\ n = Head(left[t]) /\ (broken => aborted[t])
    /\ Answers(t, d, broken) /\ Justified(n, d)'
    /\ rows' = rows \/ rows' = rows \cup {[name |-> n, town |-> NoTown]}
    /\ blamed' = blamed \/ blamed' = blamed \cup {n}
    /\ UNCHANGED <<city, known>>

\* The answer is in the cache.
Hit(t) ==
  at[t] = "look" /\ Returns(t, aborted[t]) /\ UNCHANGED <<rows, cache, city, blamed, known>>

\* resolve() goes on to a stage it may come to.
Goes(t) ==
  \E stage \in {"exact", "trgm", "osm", "save"} :
    /\ at[t] \notin {"idle", "raised"} /\ GoesTo(t, stage)
    /\ CountrySign[Head(left[t])] = ""
    /\ stage # "exact" => Head(left[t]) \notin known
    /\ stage = "save" => Osm[Head(left[t])] # ""
    /\ UNCHANGED <<rows, city, blamed, known>>

LEMMA LookEnds ==
  ASSUME IInv, NEW t \in Tasks, Look(t)
  PROVE  Hit(t) \/ Resolved(t) \/ Goes(t)
<1>1. PICK n \in Names : n = Head(left[t]) /\ at[t] = "look" /\ aborted[t] \in BOOLEAN
  BY AtHand DEF IInv, TypeOK, Look
<1>2. PICK sign : sign = CountrySign[n]
  OBVIOUS
<1>3. /\ UNCHANGED <<rows, city, blamed, known>>
      /\ \/ Returns(t, aborted[t]) /\ UNCHANGED cache
         \/ sign # "" /\ Answers(t, Direction(sign, NoTown), aborted[t])
         \/ sign = "" /\ GoesTo(t, "exact")
  BY <1>1, <1>2 DEF Look, ResolveCountrySign
<1>4. CASE Returns(t, aborted[t]) /\ UNCHANGED cache
  BY <1>1, <1>3, <1>4 DEF Hit
<1>5. CASE sign # "" /\ Answers(t, Direction(sign, NoTown), aborted[t])
  <2>1. sign \in Signs /\ "UA" \in Signs
    BY <1>2, <1>5, Given
  <2>2. PICK d : d = Direction(sign, NoTown)
    OBVIOUS
  <2>3. d \in Directions /\ d # NotFound /\ d[1] = sign /\ Direction("UA", NoTown)[1] = "UA"
    BY <2>1, <2>2, DirectionIs
  <2>4. d = Direction("UA", NoTown) => sign = "UA"
    BY <2>3
  <2>5. Justified(n, d)'
    BY <1>2, <1>5, <2>3, <2>4 DEF Justified
  <2> QED
    BY <1>1, <1>3, <1>5, <2>2, <2>3, <2>5 DEF Resolved
<1>6. CASE sign = "" /\ GoesTo(t, "exact")
  BY <1>1, <1>2, <1>3, <1>6 DEF Goes
<1> QED
  BY <1>3, <1>4, <1>5, <1>6

\* An answer from the table is one for Ukraine, with a town if any of its rows has one.
LEMMA FromTable ==
  ASSUME IInv, NEW n \in Names, NEW S \in SUBSET rows, S # {},
         n \in known => \E r \in S : r.town # NoTown,
         \A r \in S : Similarity[n][r.name] >= TRGM_THRESHOLD,
         UNCHANGED <<rows, known, blamed>>
  PROVE  \E d \in Directions : d = BuildDirection(BestTown(S)) /\ Justified(n, d)'
<1>1. PICK town \in Towns \cup {NoTown} : town = BestTown(S)
  BY BestIs DEF IInv
<1>2. PICK d : d = Direction("UA", town)
  OBVIOUS
<1>3. d \in Directions /\ d # NotFound /\ d[2] = town /\ Direction("UA", NoTown)[2] = NoTown
  <2>1. "UA" \in Signs
    BY Given, Zenon
  <2> QED
    BY <1>2, <2>1, DirectionIs
<1>4. town = NoTown => \A r \in S : r.town = NoTown
  BY <1>1, BestIs DEF IInv
<1>5. n \in known' /\ CountrySign[n] = "" => d # NotFound /\ d[2] # NoTown
  BY <1>3, <1>4
<1>6. d = Direction("UA", NoTown) =>
        \E r \in rows' : r.town = NoTown /\ Similarity[n][r.name] >= TRGM_THRESHOLD
  BY <1>3, <1>4
<1>7. Justified(n, d)'
  BY <1>3, <1>5, <1>6 DEF Justified
<1> QED
  BY <1>1, <1>2, <1>3, <1>7 DEF BuildDirection

LEMMA ExactEnds ==
  ASSUME IInv, NEW t \in Tasks, Exact(t)
  PROVE  Resolved(t) \/ Goes(t)
<1>1. PICK n \in Names : n = Head(left[t]) /\ at[t] = "exact" /\ aborted[t] \in BOOLEAN
  BY AtHand DEF IInv, TypeOK, Exact
<1>2. /\ UNCHANGED <<rows, city, blamed, known>>
      /\ IF SameName(n) # {} THEN Answers(t, BuildDirection(BestTown(SameName(n))), aborted[t])
         ELSE GoesTo(t, "trgm")
  BY <1>1 DEF Exact, Queried
<1>3. n \in known => \E r \in SameName(n) : r.town # NoTown
  BY DEF IInv, RowsInv
<1>4. CASE SameName(n) # {}
  <2>1. \A r \in SameName(n) : Similarity[n][r.name] >= TRGM_THRESHOLD
    <3>1. Similarity[n][n] = 100 /\ \A r \in SameName(n) : r.name = n
      BY Given, Zenon DEF SameName
    <3> QED
      BY <3>1 DEF TRGM_THRESHOLD
  <2>2. PICK d \in Directions :
          d = BuildDirection(BestTown(SameName(n))) /\ Justified(n, d)'
    <3>1. SameName(n) \in SUBSET rows
      BY DEF SameName
    <3> QED
      BY <1>2, <1>3, <1>4, <2>1, <3>1, FromTable
  <2> QED
    BY <1>1, <1>2, <1>4, <2>2 DEF Resolved
<1>5. CASE SameName(n) = {}
  <2>1. CountrySign[n] = "" /\ n \notin known
    BY <1>1, <1>3, <1>5 DEF IInv, StageInv
  <2> QED
    BY <1>1, <1>2, <1>5, <2>1 DEF Goes
<1> QED
  BY <1>4, <1>5

LEMMA TrgmEnds ==
  ASSUME IInv, NEW t \in Tasks, Trgm(t)
  PROVE  Resolved(t) \/ Goes(t)
<1>1. PICK n \in Names : n = Head(left[t]) /\ at[t] = "trgm" /\ aborted[t] \in BOOLEAN
  BY AtHand DEF IInv, TypeOK, Trgm
<1>2. /\ UNCHANGED <<rows, city, blamed, known>>
      /\ IF MostSimilar(n) # {}
         THEN Answers(t, BuildDirection(BestTown(MostSimilar(n))), aborted[t])
         ELSE GoesTo(t, "osm")
  BY <1>1 DEF Trgm, Queried
<1>3. CountrySign[n] = "" /\ n \notin known
  BY <1>1 DEF IInv, StageInv
<1>4. CASE MostSimilar(n) # {}
  <2>1. /\ MostSimilar(n) \in SUBSET rows
        /\ \A r \in MostSimilar(n) : Similarity[n][r.name] >= TRGM_THRESHOLD
    BY DEF MostSimilar
  <2>2. PICK d \in Directions :
          d = BuildDirection(BestTown(MostSimilar(n))) /\ Justified(n, d)'
    BY <1>2, <1>3, <1>4, <2>1, FromTable
  <2> QED
    BY <1>1, <1>2, <1>4, <2>2 DEF Resolved
<1>5. CASE MostSimilar(n) = {}
  BY <1>1, <1>2, <1>3, <1>5 DEF Goes
<1> QED
  BY <1>4, <1>5

\* Without an answer of the table nothing is found, for as long as OpenStreetMap is right.
LEMMA AskOsmEnds ==
  ASSUME IInv, NEW t \in Tasks, AskOsm(t) \/ OsmFails(t)
  PROVE  Resolved(t) \/ Goes(t)
<1>1. PICK n \in Names : n = Head(left[t]) /\ at[t] = "osm" /\ aborted[t] \in BOOLEAN
  BY AtHand DEF IInv, TypeOK, AskOsm, OsmFails
<1>2. CountrySign[n] = "" /\ n \notin known
  BY <1>1 DEF IInv, StageInv
<1>3. NotFound # Direction("UA", NoTown)
  <2>1. "UA" \in Signs
    BY Given, Zenon
  <2> QED
    BY <2>1, DirectionIs
<1>4. CASE AskOsm(t) /\ Osm[n] = ""
  <2>1. UNCHANGED <<rows, city, blamed, known>> /\ Answers(t, NotFound, aborted[t])
    BY <1>1, <1>4 DEF AskOsm
  <2>2. Justified(n, NotFound)'
    BY <1>2, <1>3, <1>4, <2>1 DEF Justified
  <2> QED
    BY <1>1, <2>1, <2>2 DEF Resolved
<1>5. CASE AskOsm(t) /\ Osm[n] # ""
  BY <1>1, <1>2, <1>5 DEF AskOsm, Goes
<1>6. CASE OsmFails(t)
  <2>1. /\ UNCHANGED <<rows, city, known>> /\ blamed' = blamed \cup {n}
        /\ Answers(t, NotFound, aborted[t])
    BY <1>1, <1>6 DEF OsmFails
  <2>2. Justified(n, NotFound)'
    BY <1>2, <1>3, <2>1 DEF Justified
  <2> QED
    BY <1>1, <2>1, <2>2 DEF Resolved
<1> QED
  BY <1>4, <1>5, <1>6

\* The answer does not depend on whether it could be saved.
LEMMA SaveEnds ==
  ASSUME IInv, NEW t \in Tasks, Save(t) \/ SaveFails(t)
  PROVE  Resolved(t)
<1>1. PICK n \in Names : n = Head(left[t]) /\ at[t] = "save"
  BY AtHand DEF IInv, Save, SaveFails
<1>2. CountrySign[n] = "" /\ n \notin known /\ Osm[n] # ""
  BY <1>1 DEF IInv, StageInv
<1>3. PICK d \in Directions \cup {NotFound} :
        /\ d = OsmAnswer(n)
        /\ d = NotFound => Osm[n] = "nowhere"
        /\ d = Direction("UA", NoTown) => Osm[n] = "UA"
  BY <1>2, OsmAnswerIs
<1>4. /\ Answers(t, d, FALSE) /\ UNCHANGED <<city, blamed, known>>
      /\ rows' = rows \/ rows' = rows \cup {[name |-> n, town |-> NoTown]}
  BY <1>1, <1>3 DEF Save, SaveFails
<1>5. Justified(n, d)'
  BY <1>2, <1>3, <1>4 DEF Justified
<1> QED
  BY <1>1, <1>4, <1>5 DEF Resolved

\* Every step of a call begins it, ends resolve() for a name, goes on, or fails in a query.
LEMMA CallSteps ==
  ASSUME IInv, NEW t \in Tasks, Resolving(t)
  PROVE  \/ \E q \in Queries : Call(t, q)
         \/ Hit(t) \/ Resolved(t) \/ Goes(t)
         \/ ExactRaises(t) \/ TrgmFails(t)
BY LookEnds, ExactEnds, TrgmEnds, AskOsmEnds, SaveEnds DEF Resolving
-----------------------------------------------------------------------------
(***************************************************************************)
(* Each part of the invariant is kept.                                     *)
(***************************************************************************)

LEMMA ImportSteps ==
  ASSUME IInv, Importing
  PROVE  /\ city' \in 0..Len(Cities) /\ UNCHANGED <<cache, callVars, geoHistory>>
         /\ \/ UNCHANGED rows
            \/ \E c \in Names, town \in Towns \cup {NoTown} :
                 /\ IsCity(c) /\ town \in {NoTown, LardiTownId(c)} /\ rows' = Upsert(c, town)
<1>1. city \in 0..Len(Cities) /\ Cities \in Seq(Names) /\ Len(Cities) \in Nat /\ Len(Cities) # 0
  <2>1. Cities \in Seq(Names) /\ Cities # << >>
    BY Given, Zenon DEF Importing
  <2> QED
    BY <2>1 DEF IInv, TypeOK
<1>2. NextCity => city' \in 0..Len(Cities)
  BY <1>1 DEF NextCity
<1>3. CASE StartImport
  BY <1>2, <1>3 DEF StartImport
<1>4. CASE SkipCity
  BY <1>2, <1>4 DEF SkipCity
<1>5. CASE InsertCity
  <2>1. PICK c \in Names : c = Cities[city] /\ IsCity(c)
    <3>1. city # 0
      BY <1>5 DEF InsertCity
    <3>2. city \in DOMAIN Cities
      BY <1>1, <3>1
    <3>3. Cities[city] \in Names
      BY <1>1, <3>2, Entry, Zenon
    <3> QED
      BY <3>2, <3>3 DEF IsCity
  <2>2. LardiTownId(c) \in Towns \cup {NoTown}
    BY LardiGivesATown
  <2>3. rows' = Upsert(c, LardiTownId(c)) \/ rows' = Upsert(c, NoTown)
    BY <1>5, <2>1 DEF InsertCity
  <2> QED
    BY <1>2, <1>5, <2>1, <2>2, <2>3 DEF InsertCity
<1>6. CASE ScriptDies
  BY <1>1, <1>6 DEF ScriptDies
<1> QED
  BY <1>3, <1>4, <1>5, <1>6 DEF Importing

LEMMA TypeKept == IInv /\ [Next]_geoVars => TypeOK'
<1> SUFFICES ASSUME IInv, [Next]_geoVars PROVE TypeOK'
  OBVIOUS
<1>0. TypeOK
  BY DEF IInv
<1> USE DEF callVars, geoHistory
<1>1. ASSUME NEW t \in Tasks, NEW q \in Queries, Call(t, q) PROVE TypeOK'
  <2>1. q \in Seq(Names) /\ Len(q) = 2 /\ q # << >>
    <3>1. q \in Names \X Names
      BY Given, Zenon
    <3>2. PICK a \in Names, b \in Names : q = <<a, b>>
      BY <3>1
    <3> QED
      BY <3>2
  <2>2. /\ at' = [at EXCEPT ![t] = "look"] /\ left' = [left EXCEPT ![t] = q]
        /\ aborted' = [aborted EXCEPT ![t] = FALSE]
        /\ hurt' = hurt \ {t} /\ UNCHANGED <<rows, cache, city, blamed, known>>
    BY <1>1 DEF Call
  <2>3. /\ at' \in [Tasks -> Stages] /\ left' \in [Tasks -> Seq(Names)]
        /\ aborted' \in [Tasks -> BOOLEAN] /\ hurt' \subseteq Tasks
    BY <1>0, <2>1, <2>2 DEF TypeOK, Stages
  <2>4. ASSUME NEW u \in Tasks
        PROVE  Len(left'[u]) <= 2 /\ (left'[u] = << >> <=> at'[u] \in {"idle", "raised"})
    <3>1. CASE u = t
      <4>1. left'[u] = q /\ at'[u] = "look"
        BY <1>0, <2>2, <3>1 DEF TypeOK
      <4>2. Len(left'[u]) = 2 /\ left'[u] # << >>
        BY <2>1, <4>1, Zenon
      <4> QED
        BY <4>1, <4>2
    <3>2. CASE u # t
      <4>1. left'[u] = left[u] /\ at'[u] = at[u]
        BY <1>0, <2>2, <3>2 DEF TypeOK
      <4> QED
        BY <1>0, <4>1 DEF TypeOK
    <3> QED
      BY <3>1, <3>2
  <2> QED
    BY <1>0, <2>2, <2>3, <2>4 DEF TypeOK
<1>2. ASSUME NEW t \in Tasks, NEW broken \in BOOLEAN, at[t] \notin {"idle", "raised"},
             Returns(t, broken),
             /\ rows' \subseteq [name : Names, town : Towns \cup {NoTown}]
             /\ cache' \in [Names -> Directions \cup {NotFound, Unasked}]
             /\ blamed' \subseteq Names /\ UNCHANGED <<city, known>>
      PROVE  TypeOK'
  <2>1. /\ at' \in [Tasks -> Stages] /\ left' \in [Tasks -> Seq(Names)]
        /\ aborted' \in [Tasks -> BOOLEAN] /\ hurt' \subseteq Tasks
        /\ Len(left'[t]) <= 2
        /\ left'[t] = << >> <=> at'[t] \in {"idle", "raised"}
        /\ \A u \in Tasks \ {t} : at'[u] = at[u] /\ left'[u] = left[u]
    BY <1>0, <1>2, ReturnsFacts
  <2>2. ASSUME NEW u \in Tasks
        PROVE  Len(left'[u]) <= 2 /\ (left'[u] = << >> <=> at'[u] \in {"idle", "raised"})
    <3>1. CASE u = t
      BY <2>1, <3>1
    <3>2. CASE u # t
      BY <1>0, <2>1, <3>2 DEF TypeOK
    <3> QED
      BY <3>1, <3>2
  <2>3. city' \in 0..Len(Cities) /\ known' \subseteq Names
    BY <1>0, <1>2 DEF TypeOK
  <2> QED
    BY <1>2, <2>1, <2>2, <2>3 DEF TypeOK
<1>3. ASSUME NEW t \in Tasks, Hit(t) PROVE TypeOK'
  <2>1. aborted[t] \in BOOLEAN
    BY <1>0 DEF TypeOK
  <2> QED
    BY <1>0, <1>2, <1>3, <2>1 DEF Hit, TypeOK
<1>4. ASSUME NEW t \in Tasks, Resolved(t) PROVE TypeOK'
  <2>1. PICK n \in Names, d \in Directions \cup {NotFound}, broken \in BOOLEAN :
          /\ at[t] \notin {"idle", "raised"} /\ Returns(t, broken)
          /\ cache' = [cache EXCEPT ![n] = d]
          /\ rows' = rows \/ rows' = rows \cup {[name |-> n, town |-> NoTown]}
          /\ blamed' = blamed \/ blamed' = blamed \cup {n}
          /\ UNCHANGED <<city, known>>
    BY <1>4 DEF Resolved, Answers
  <2>2. /\ rows' \subseteq [name : Names, town : Towns \cup {NoTown}]
        /\ blamed' \subseteq Names
    BY <1>0, <2>1 DEF TypeOK
  <2>3. cache' \in [Names -> Directions \cup {NotFound, Unasked}]
    BY <1>0, <2>1 DEF TypeOK
  <2> QED
    BY <1>2, <2>1, <2>2, <2>3
<1>5. ASSUME NEW t \in Tasks, Goes(t) PROVE TypeOK'
  <2>1. PICK stage \in {"exact", "trgm", "osm", "save"} :
          /\ at[t] \notin {"idle", "raised"} /\ at' = [at EXCEPT ![t] = stage]
          /\ UNCHANGED <<rows, cache, left, aborted, city, hurt, blamed, known>>
    BY <1>5 DEF Goes, GoesTo
  <2> QED
    BY <1>0, <2>1 DEF TypeOK, Stages
<1>6. ASSUME NEW t \in Tasks, ExactRaises(t) PROVE TypeOK'
  <2>1. /\ at' = [at EXCEPT ![t] = "raised"] /\ left' = [left EXCEPT ![t] = << >>]
        /\ hurt' = hurt \/ hurt' = hurt \cup {t}
        /\ UNCHANGED <<rows, cache, aborted, city, blamed, known>>
    BY <1>6 DEF ExactRaises
  <2> QED
    BY <1>0, <2>1 DEF TypeOK, Stages
<1>7. ASSUME NEW t \in Tasks, TrgmFails(t) PROVE TypeOK'
  <2>1. /\ at[t] = "trgm" /\ at' = [at EXCEPT ![t] = "osm"]
        /\ aborted' = [aborted EXCEPT ![t] = TRUE] /\ hurt' = hurt \cup {t}
        /\ UNCHANGED <<rows, cache, left, city, blamed, known>>
    BY <1>7 DEF TrgmFails
  <2> QED
    BY <1>0, <2>1 DEF TypeOK, Stages
<1>8. CASE Importing
  <2>1. rows' \subseteq [name : Names, town : Towns \cup {NoTown}]
    BY <1>0, <1>8, ImportSteps DEF TypeOK, Upsert
  <2>2. city' \in 0..Len(Cities) /\ UNCHANGED <<cache, callVars, geoHistory>>
    BY <1>8, ImportSteps
  <2> QED
    BY <1>0, <2>1, <2>2 DEF TypeOK
<1>9. CASE Restart
  <2>1. << >> \in Seq(Names) /\ Len(<< >>) <= 2
    OBVIOUS
  <2>2. /\ cache' = [n \in Names |-> Unasked]
        /\ at' = [t \in Tasks |-> "idle"] /\ left' = [t \in Tasks |-> << >>]
        /\ aborted' = [t \in Tasks |-> FALSE]
        /\ hurt' = {} /\ blamed' = {} /\ known' \subseteq Names
        /\ UNCHANGED <<rows, city>>
    BY <1>9 DEF Restart, Known
  <2> QED
    BY <1>0, <2>1, <2>2 DEF TypeOK, Stages
<1>10. CASE UNCHANGED geoVars
  BY <1>0, <1>10 DEF geoVars, TypeOK
<1> QED
  BY <1>1, <1>3, <1>4, <1>5, <1>6, <1>7, <1>8, <1>9, <1>10, CallSteps DEF Next

\* An insert takes the row of a name, or its town, only for a city of the same town.
LEMMA UpsertKeeps ==
  ASSUME IInv, NEW c \in Names, IsCity(c), NEW town \in {NoTown, LardiTownId(c)},
         NEW r \in rows
  PROVE  \/ Shared(r.name)
         \/ \E q \in Upsert(c, town) : q.name = r.name /\ (r.town # NoTown => q.town # NoTown)
<1>1. CASE town = NoTown \/ r.town # town
  BY <1>1 DEF Upsert
<1>2. CASE town # NoTown /\ r.town = town
  <2>1. r.town = LardiTownId(r.name) /\ town = LardiTownId(c)
    BY <1>2 DEF IInv, RowsInv
  <2>2. CASE r.name = c
    <3>1. [name |-> c, town |-> town] \in Upsert(c, town)
      BY DEF Upsert
    <3> QED
      BY <1>2, <2>2, <3>1
  <2>3. CASE r.name # c
    BY <1>2, <2>1, <2>3 DEF Shared
  <2> QED
    BY <2>2, <2>3
<1> QED
  BY <1>1, <1>2

LEMMA RowsKept == IInv /\ [Next]_geoVars => RowsInv'
<1> SUFFICES ASSUME IInv, [Next]_geoVars PROVE RowsInv'
  OBVIOUS
<1> USE DEF callVars, geoHistory, SameName
<1>1. RowsInv /\ TypeOK
  BY DEF IInv
<1>2. CASE UNCHANGED <<rows, known>>
  BY <1>1, <1>2 DEF RowsInv
<1>3. ASSUME NEW t \in Tasks, Resolved(t) PROVE RowsInv'
  <2>1. PICK n \in Names :
          /\ rows' = rows \/ rows' = rows \cup {[name |-> n, town |-> NoTown]}
          /\ UNCHANGED known
    BY <1>3 DEF Resolved
  <2> QED
    BY <1>1, <2>1 DEF RowsInv
<1>4. CASE Importing
  <2>1. CASE UNCHANGED rows
    BY <1>2, <1>4, <2>1, ImportSteps
  <2>2. ASSUME NEW c \in Names, NEW town \in Towns \cup {NoTown}, IsCity(c),
               town \in {NoTown, LardiTownId(c)}, rows' = Upsert(c, town), UNCHANGED known
        PROVE  RowsInv'
    <3>1. \A r \in rows' : r.town # NoTown => r.town = LardiTownId(r.name) /\ IsCity(r.name)
      BY <1>1, <2>2 DEF Upsert, RowsInv
    <3>2. ASSUME NEW n \in known
          PROVE  ~Shared(n) /\ \E q \in rows' : q.name = n /\ q.town # NoTown
      <4>1. PICK r \in rows : ~Shared(n) /\ r.name = n /\ r.town # NoTown
        BY <1>1 DEF RowsInv
      <4> QED
        BY <2>2, <4>1, UpsertKeeps
    <3> QED
      BY <2>2, <3>1, <3>2 DEF RowsInv
  <2> QED
    BY <1>4, <2>1, <2>2, ImportSteps
<1>5. CASE Restart
  BY <1>1, <1>5 DEF Restart, Known, RowsInv
<1>6. ASSUME NEW t \in Tasks, Resolving(t) PROVE RowsInv'
  BY <1>2, <1>3, <1>6, CallSteps DEF Call, Hit, Goes, ExactRaises, TrgmFails
<1> QED
  BY <1>2, <1>4, <1>5, <1>6 DEF Next, geoVars

\* What holds of the stages of all calls holds after one of them has moved.
LEMMA OneMoves ==
  ASSUME StageInv, NEW t \in Tasks, UNCHANGED known,
         \A u \in Tasks \ {t} : at'[u] = at[u] /\ left'[u] = left[u],
         /\ at'[t] \in {"exact", "trgm", "osm", "save"} => CountrySign[Head(left'[t])] = ""
         /\ at'[t] \in {"trgm", "osm", "save"} => Head(left'[t]) \notin known
         /\ at'[t] = "save" => Osm[Head(left'[t])] # ""
  PROVE  StageInv'
BY DEF StageInv

LEMMA StageKept == IInv /\ [Next]_geoVars => StageInv'
<1> SUFFICES ASSUME IInv, [Next]_geoVars PROVE StageInv'
  OBVIOUS
<1> USE DEF callVars, geoHistory
<1>1. /\ StageInv /\ TypeOK
      /\ at \in [Tasks -> Stages] /\ left \in [Tasks -> Seq(Names)]
  BY DEF IInv, TypeOK
<1>2. ASSUME NEW t \in Tasks, NEW q \in Queries, Call(t, q) PROVE StageInv'
  <2>1. /\ at'[t] = "look" /\ UNCHANGED known
        /\ \A u \in Tasks \ {t} : at'[u] = at[u] /\ left'[u] = left[u]
    BY <1>1, <1>2 DEF Call
  <2> QED
    BY <1>1, <2>1, OneMoves
<1>3. ASSUME NEW t \in Tasks, Hit(t) \/ Resolved(t) PROVE StageInv'
  <2>1. PICK broken \in BOOLEAN :
          at[t] \notin {"idle", "raised"} /\ Returns(t, broken) /\ UNCHANGED known
    BY <1>1, <1>3 DEF Hit, Resolved, Answers, TypeOK
  <2>2. /\ at'[t] \in {"look", "idle"}
        /\ \A u \in Tasks \ {t} : at'[u] = at[u] /\ left'[u] = left[u]
    BY <1>1, <2>1, ReturnsFacts
  <2> QED
    BY <1>1, <2>1, <2>2, OneMoves
<1>4. ASSUME NEW t \in Tasks, Goes(t) PROVE StageInv'
  <2>1. PICK stage \in {"exact", "trgm", "osm", "save"} :
          /\ at' = [at EXCEPT ![t] = stage] /\ UNCHANGED <<left, known>>
          /\ CountrySign[Head(left[t])] = ""
          /\ stage # "exact" => Head(left[t]) \notin known
          /\ stage = "save" => Osm[Head(left[t])] # ""
    BY <1>4 DEF Goes, GoesTo
  <2>2. at'[t] = stage /\ \A u \in Tasks \ {t} : at'[u] = at[u]
    BY <1>1, <2>1
  <2> QED
    BY <1>1, <2>1, <2>2, OneMoves
<1>5. ASSUME NEW t \in Tasks, ExactRaises(t) PROVE StageInv'
  <2>1. /\ at'[t] = "raised" /\ UNCHANGED known
        /\ \A u \in Tasks \ {t} : at'[u] = at[u] /\ left'[u] = left[u]
    BY <1>1, <1>5 DEF ExactRaises
  <2> QED
    BY <1>1, <2>1, OneMoves
<1>6. ASSUME NEW t \in Tasks, TrgmFails(t) PROVE StageInv'
  <2>1. /\ at[t] = "trgm" /\ at'[t] = "osm" /\ UNCHANGED <<left, known>>
        /\ \A u \in Tasks \ {t} : at'[u] = at[u]
    BY <1>1, <1>6 DEF TrgmFails
  <2>2. CountrySign[Head(left[t])] = "" /\ Head(left[t]) \notin known
    BY <1>1, <2>1 DEF StageInv
  <2> QED
    BY <1>1, <2>1, <2>2, OneMoves
<1>7. CASE Importing \/ UNCHANGED geoVars
  <2>1. UNCHANGED <<at, left, known>>
    BY <1>7, ImportSteps DEF geoVars
  <2> QED
    BY <1>1, <2>1 DEF StageInv
<1>8. CASE Restart
  <2>1. \A u \in Tasks : at'[u] = "idle"
    BY <1>8 DEF Restart
  <2> QED
    BY <2>1 DEF StageInv
<1> QED
  BY <1>2, <1>3, <1>4, <1>5, <1>6, <1>7, <1>8, CallSteps DEF Next

LEMMA AnswerKept == IInv /\ [Next]_geoVars => AnswerInv'
<1> SUFFICES ASSUME IInv, [Next]_geoVars PROVE AnswerInv'
  OBVIOUS
<1> USE DEF callVars, geoHistory
<1>1. AnswerInv /\ TypeOK /\ cache \in [Names -> Directions \cup {NotFound, Unasked}]
  BY DEF IInv, TypeOK
\* Rows without a town stay, and names blamed stay blamed.
<1>2. ASSUME UNCHANGED known, blamed \subseteq blamed',
             \A r \in rows : r.town = NoTown => r \in rows',
             NEW n \in Names, NEW d, Justified(n, d)
      PROVE  Justified(n, d)'
  BY <1>2 DEF Justified
<1>3. CASE /\ UNCHANGED <<known, cache>> /\ blamed \subseteq blamed'
           /\ \A r \in rows : r.town = NoTown => r \in rows'
  <2>1. ASSUME NEW n \in Names, cache[n] # Unasked PROVE Justified(n, cache[n])'
    <3>1. PICK d : d = cache[n] /\ d = cache'[n]
      BY <1>3
    <3>2. Justified(n, d)
      BY <1>1, <2>1, <3>1 DEF AnswerInv
    <3>3. Justified(n, d)'
      BY <1>2, <1>3, <3>2
    <3> QED
      BY <3>1, <3>3 DEF Justified
  <2> QED
    BY <1>3, <2>1 DEF AnswerInv
<1>4. ASSUME NEW t \in Tasks, Resolved(t) PROVE AnswerInv'
  <2>1. PICK n \in Names, d \in Directions \cup {NotFound} :
          /\ cache' = [cache EXCEPT ![n] = d] /\ Justified(n, d)'
          /\ rows' = rows \/ rows' = rows \cup {[name |-> n, town |-> NoTown]}
          /\ blamed' = blamed \/ blamed' = blamed \cup {n}
          /\ UNCHANGED known
    BY <1>4 DEF Resolved, Answers
  <2>2. ASSUME NEW m \in Names, cache'[m] # Unasked PROVE Justified(m, cache[m])'
    <3>1. PICK e : e = cache'[m]
      OBVIOUS
    <3>2. CASE m = n
      <4>1. e = d
        BY <1>1, <2>1, <3>1, <3>2
      <4> QED
        BY <2>1, <3>1, <3>2, <4>1 DEF Justified
    <3>3. CASE m # n
      <4>1. e = cache[m]
        BY <1>1, <2>1, <3>1, <3>3
      <4>2. Justified(m, e)
        BY <1>1, <2>2, <3>1, <4>1 DEF AnswerInv
      <4>3. Justified(m, e)'
        BY <1>2, <2>1, <4>2
      <4> QED
        BY <3>1, <4>3 DEF Justified
    <3> QED
      BY <3>2, <3>3
  <2> QED
    BY <2>2 DEF AnswerInv
<1>5. CASE Importing
  <2>1. UNCHANGED <<cache, known, blamed>>
    BY <1>5, ImportSteps
  <2>2. \A r \in rows : r.town = NoTown => r \in rows'
    BY <1>5, ImportSteps DEF Upsert
  <2> QED
    BY <1>3, <2>1, <2>2
<1>6. CASE Restart
  BY <1>6 DEF Restart, AnswerInv
<1>7. ASSUME NEW t \in Tasks, Resolving(t), ~Resolved(t) PROVE AnswerInv'
  <2>1. UNCHANGED <<rows, known, cache, blamed>>
    BY <1>7, CallSteps DEF Call, Hit, Goes, GoesTo, ExactRaises, TrgmFails
  <2> QED
    BY <1>3, <2>1
<1> QED
  BY <1>3, <1>4, <1>5, <1>6, <1>7 DEF Next, geoVars

LEMMA HurtKept == IInv /\ [Next]_geoVars => HurtInv'
<1> SUFFICES ASSUME IInv, [Next]_geoVars PROVE HurtInv'
  OBVIOUS
<1> USE DEF callVars, geoHistory
<1>1. /\ HurtInv /\ TypeOK /\ at \in [Tasks -> Stages] /\ aborted \in [Tasks -> BOOLEAN]
  BY DEF IInv, TypeOK
<1>2. ASSUME NEW t \in Tasks, hurt \ {t} \subseteq hurt',
             \A u \in Tasks \ {t} : at'[u] = at[u] /\ aborted'[u] = aborted[u],
             aborted'[t] \/ at'[t] = "raised" => t \in hurt'
      PROVE  HurtInv'
  BY <1>1, <1>2 DEF HurtInv
<1>3. ASSUME NEW t \in Tasks, NEW q \in Queries, Call(t, q) PROVE HurtInv'
  <2>1. /\ at'[t] = "look" /\ ~aborted'[t] /\ hurt' = hurt \ {t}
        /\ \A u \in Tasks \ {t} : at'[u] = at[u] /\ aborted'[u] = aborted[u]
    BY <1>1, <1>3 DEF Call
  <2> QED
    BY <1>2, <2>1
<1>4. ASSUME NEW t \in Tasks, Hit(t) \/ Resolved(t) PROVE HurtInv'
  <2>1. PICK broken \in BOOLEAN :
          at[t] \notin {"idle", "raised"} /\ Returns(t, broken) /\ (broken => aborted[t])
    BY <1>1, <1>4 DEF Hit, Resolved, Answers
  <2>2. /\ at'[t] \in {"look", "idle"} /\ (aborted'[t] => broken /\ hurt' = hurt)
        /\ hurt \ {t} \subseteq hurt'
        /\ \A u \in Tasks \ {t} : at'[u] = at[u] /\ aborted'[u] = aborted[u]
    BY <1>1, <2>1, ReturnsFacts
  <2>3. aborted'[t] => t \in hurt'
    BY <1>1, <2>1, <2>2 DEF HurtInv
  <2> QED
    BY <1>2, <2>2, <2>3
<1>5. ASSUME NEW t \in Tasks, Goes(t) PROVE HurtInv'
  <2>1. PICK stage \in {"exact", "trgm", "osm", "save"} :
          at' = [at EXCEPT ![t] = stage] /\ UNCHANGED <<aborted, hurt>>
    BY <1>5 DEF Goes, GoesTo
  <2>2. at'[t] # "raised" /\ \A u \in Tasks \ {t} : at'[u] = at[u]
    BY <1>1, <2>1
  <2> QED
    BY <1>1, <2>1, <2>2 DEF HurtInv
<1>6. ASSUME NEW t \in Tasks, ExactRaises(t) PROVE HurtInv'
  <2>1. /\ hurt' = IF aborted[t] THEN hurt ELSE hurt \cup {t}
        /\ UNCHANGED aborted /\ at' = [at EXCEPT ![t] = "raised"]
    BY <1>6 DEF ExactRaises
  <2>2. \A u \in Tasks \ {t} : at'[u] = at[u]
    BY <1>1, <2>1
  <2>3. hurt \subseteq hurt' /\ t \in hurt'
    BY <1>1, <2>1 DEF HurtInv
  <2> QED
    BY <1>2, <2>1, <2>2, <2>3
<1>7. ASSUME NEW t \in Tasks, TrgmFails(t) PROVE HurtInv'
  <2>1. /\ hurt' = hurt \cup {t}
        /\ \A u \in Tasks \ {t} : at'[u] = at[u] /\ aborted'[u] = aborted[u]
    BY <1>1, <1>7 DEF TrgmFails
  <2> QED
    BY <1>2, <2>1
<1>8. CASE Importing \/ UNCHANGED geoVars
  <2>1. UNCHANGED <<at, aborted, hurt>>
    BY <1>8, ImportSteps DEF geoVars
  <2> QED
    BY <1>1, <2>1 DEF HurtInv
<1>9. CASE Restart
  <2>1. \A u \in Tasks : at'[u] = "idle" /\ ~aborted'[u]
    BY <1>9 DEF Restart
  <2> QED
    BY <2>1 DEF HurtInv
<1> QED
  BY <1>3, <1>4, <1>5, <1>6, <1>7, <1>8, <1>9, CallSteps DEF Next

LEMMA Initially == Init => IInv
<1> SUFFICES ASSUME Init PROVE IInv
  OBVIOUS
<1>1. << >> \in Seq(Names) /\ Len(<< >>) <= 2 /\ 0 \in 0..Len(Cities)
  <2>1. Cities \in Seq(Names)
    BY Given, Zenon
  <2> QED
    BY <2>1
<1>2. TypeOK
  BY <1>1 DEF Init, TypeOK, Stages
<1>3. RowsInv /\ StageInv /\ AnswerInv /\ HurtInv
  BY DEF Init, RowsInv, StageInv, AnswerInv, HurtInv
<1> QED
  BY <1>2, <1>3 DEF IInv
-----------------------------------------------------------------------------
(***************************************************************************)
(* The theorems.                                                           *)
(***************************************************************************)

\* The inductive invariant holds in every reachable state.
THEOREM Invariance == Spec => []IInv
<1>1. IInv /\ [Next]_geoVars => IInv'
  BY TypeKept, RowsKept, StageKept, AnswerKept, HurtKept, Zenon DEF IInv
<1> QED
  BY <1>1, Initially, PTL DEF Spec

\* Types; a town that was in the table when the process started is answered with its town,
\* and a place abroad becomes one in Ukraine only where the fallback stored a row for it
\* (geo_resolver.py:139-157, :242-257).
THEOREM TheTableAnswers == Spec => []TableInv
<1>1. IInv => TableInv
  <2> SUFFICES ASSUME IInv PROVE TableInv
    OBVIOUS
  <2>1. NotFound # Unasked /\ Direction("UA", NoTown) # Unasked
    <3>1. "UA" \in Signs
      BY Given, Zenon
    <3> QED
      BY <3>1, DirectionIs, NotFoundIs
  <2>2. TypeOK /\ known \subseteq Names
    BY DEF IInv, TypeOK
  <2>3. TownIsAnswered
    BY <2>2 DEF IInv, AnswerInv, Justified, TownIsAnswered
  <2>4. WrongCountryIsSaved
    BY <2>1 DEF IInv, AnswerInv, Justified, WrongCountryIsSaved
  <2> QED
    BY <2>2, <2>3, <2>4 DEF TableInv
<1> QED
  BY <1>1, Invariance, PTL

\* "Not found" is cached only for what OpenStreetMap does not know or cannot place, unless
\* it failed to answer (geo_resolver.py:119-130).
THEOREM NothingIsLost == Spec => []NotFoundIsTrue
<1>1. IInv => NotFoundIsTrue
  BY NotFoundIs DEF IInv, AnswerInv, Justified, NotFoundIsTrue
<1> QED
  BY <1>1, Invariance, PTL

\* A tool call raises only after a query of its own session failed (geo_resolver.py:240-283).
THEOREM RaisesWhenHurt == Spec => []RaiseMeansHurt
<1>1. IInv => RaiseMeansHurt
  BY DEF IInv, HurtInv, RaiseMeansHurt
<1> QED
  BY <1>1, Invariance, PTL

\* The import takes a name out of the table only for another city of the same town
\* (import_ua_cities.py:125-134).
THEOREM NamesStay == Spec => NamesAreKept
<1>1. IInv /\ [Next]_geoVars =>
        [\A r \in rows : (\E q \in rows' : q.name = r.name) \/ Shared(r.name)]_geoVars
  <2> SUFFICES ASSUME IInv, [Next]_geoVars, NEW r \in rows
               PROVE  (\E q \in rows' : q.name = r.name) \/ Shared(r.name)
    OBVIOUS
  <2>1. CASE r \in rows'
    BY <2>1
  <2>2. CASE Importing
    BY <2>1, <2>2, ImportSteps, UpsertKeeps
  <2>3. ASSUME NEW t \in Tasks, Resolving(t) PROVE r \in rows'
    BY <2>3, CallSteps DEF Call, Hit, Resolved, Goes, ExactRaises, TrgmFails
  <2>4. CASE Restart
    BY <2>1, <2>4 DEF Restart
  <2> QED
    BY <2>1, <2>2, <2>3, <2>4 DEF Next, geoVars
<1> QED
  BY <1>1, Invariance, PTL DEF Spec, NamesAreKept
=============================================================================
