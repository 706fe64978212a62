----------------------------- MODULE MCAccounts -----------------------------
(***************************************************************************)
(* Instances of Accounts for TLC: ann, who is the first admin, and bob,    *)
(* whose address may be typed in two ways.                                 *)
(***************************************************************************)
EXTENDS Accounts, TLC

TwoPeople == {[address |-> "ann", form |-> "lower"], [address |-> "bob", form |-> "lower"],
              [address |-> "bob", form |-> "mixed"]}
AllFaults == {"net", "db", "expiry"}
=============================================================================
