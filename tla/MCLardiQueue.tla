---------------------------- MODULE MCLardiQueue ----------------------------
(***************************************************************************)
(* Instances of LardiQueue for TLC: the sets of faults of the three runs.  *)
(***************************************************************************)
EXTENDS LardiQueue, TLC

AllFaults == {"refused", "lost_reply", "cancel", "stop", "crash"}
RecoverableFaults == {"refused", "cancel"}
StopOnly == {"stop"}

Symmetry == Permutations(Requests)
=============================================================================
