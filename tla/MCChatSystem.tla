---------------------------- MODULE MCChatSystem ----------------------------
(***************************************************************************)
(* Instances of ChatSystem for TLC.                                        *)
(***************************************************************************)
EXTENDS ChatSystem, TLC

CONSTANTS t1

TwoChats == {<<t1, 1>>, <<t1, 2>>}
AllFaults == {"client", "agent", "gateway", "db", "redis"}
=============================================================================
