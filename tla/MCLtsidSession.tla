--------------------------- MODULE MCLtsidSession ---------------------------
(***************************************************************************)
(* Instances of LtsidSession for TLC.                                      *)
(***************************************************************************)
EXTENDS LtsidSession, TLC

AllFaults == {"login", "redis", "lost_reply", "crash"}
=============================================================================
