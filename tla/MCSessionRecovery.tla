-------------------------- MODULE MCSessionRecovery --------------------------
(***************************************************************************)
(* Instances of SessionRecovery for TLC: which Redis reads may fail.       *)
(***************************************************************************)
EXTENDS SessionRecovery, TLC

ToleratedFaults == {"endpoint_read", "poll_read"}
AllFaults == {"endpoint_read", "old_read", "poll_read"}

Symmetry == Permutations(Requests)
=============================================================================
