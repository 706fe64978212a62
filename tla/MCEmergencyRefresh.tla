------------------------- MODULE MCEmergencyRefresh -------------------------
(***************************************************************************)
(* Instances of EmergencyRefresh for TLC.                                  *)
(***************************************************************************)
EXTENDS EmergencyRefresh, TLC

AllFaults == {"redis", "lost_reply", "connection", "crash", "stop"}
Outages == {"redis", "lost_reply", "connection"}

Symmetry == Permutations(Workers)
=============================================================================
