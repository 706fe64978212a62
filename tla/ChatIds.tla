------------------------------ MODULE ChatIds -------------------------------
(***************************************************************************)
(* What the browser and the services name alike.                           *)
(***************************************************************************)
EXTENDS Naturals, Sequences

CONSTANTS Tabs,        \* browser tabs
          Chats,       \* the ids create_chat hands out: the tab that asked, and a number
          MaxMessages, \* bound: messages users send
          MaxTokens    \* bound: tokens of one answer

ASSUME IdsAssumption ==
  /\ Chats \subseteq Tabs \X Nat
  /\ MaxMessages \in Nat /\ MaxTokens \in Nat

Messages == 1..MaxMessages \* numbered in the order they are sent

TabOf(c) == c[1]
=============================================================================
