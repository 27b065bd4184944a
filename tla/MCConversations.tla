---------------------------- MODULE MCConversations ----------------------------
(* Conversations for TLC: the requests may be exchanged for one another.      *)
EXTENDS Conversations, TLC

Exchangeable == Permutations(Requests)
=============================================================================
