--------------------------- MODULE MCGeoResolver ----------------------------
(***************************************************************************)
(* An instance of GeoResolver for TLC: three towns, of which two share an  *)
(* id, a place abroad with a name like a town's, and a country.            *)
(***************************************************************************)
EXTENDS GeoResolver, TLC

MCNames == {"kyiv", "bila", "bile", "lodz", "poland"}
MCCountrySign == [n \in MCNames |-> IF n = "poland" THEN "PL" ELSE ""]
MCOsm == [n \in MCNames |-> CASE n \in {"kyiv", "bila", "bile"} -> "UA"
                              [] n \in {"lodz", "poland"} -> "PL"
                              [] OTHER -> ""]
MCSimilarity ==
  [n \in MCNames |-> [m \in MCNames |-> CASE n = m -> 100
                                          [] n = "lodz" /\ m = "bile" -> 60
                                          [] OTHER -> 5]]
MCCities == <<"kyiv", "bila", "bile">>
MCLardiHits ==
  [n \in MCNames |-> CASE n = "kyiv" -> <<[id |-> 2, matches |-> FALSE], [id |-> 1, matches |-> TRUE]>>
                       [] n \in {"bila", "bile"} -> <<[id |-> 2, matches |-> n = "bila"]>>
                       [] OTHER -> << >>]
MCQueries == {<<"kyiv", "lodz">>, <<"poland", "poland">>}
AllFaults == {"db", "osm", "lardi", "restart", "script"}

Symmetry == Permutations(Tasks)
=============================================================================
