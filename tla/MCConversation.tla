--------------------------- MODULE MCConversation --------------------------
(* Finite instances of Conversation: one client sends twice, so that its   *)
(* answers have an order, the other asks once, so that it comes in between.*)
EXTENDS Conversation, TLC

CONSTANTS k1, k2

MCMaxSends == k1 :> 2 @@ k2 :> 1
=============================================================================
