--------------------------- MODULE MCCargoSearch ----------------------------
(***************************************************************************)
(* An instance of CargoSearch for TLC: a cargo that pays little and is     *)
(* near, one that pays more and is far, one in another currency, one with  *)
(* another body, and a word for a body that the table does not hold.       *)
(***************************************************************************)
EXTENDS CargoSearch, TLC

MCCargos == {"near", "far", "euro", "tilt"}
MCDistance == [c \in MCCargos |-> IF c = "far" THEN 4 ELSE 1]
MCPayment == [c \in MCCargos |-> IF c = "far" THEN 9 ELSE 5]
MCCurrency == [c \in MCCargos |-> IF c = "euro" THEN 2 ELSE UAH]
MCBodyType == [c \in MCCargos |-> IF c = "tilt" THEN 34 ELSE 5]
MCWords == {"tent", "tarp"}
MCBodyIds == [w \in MCWords |-> IF w = "tent" THEN 34 ELSE 0]
AllFaults == {"source", "redis", "worker", "agent", "search"}
=============================================================================
