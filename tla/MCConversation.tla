----------------------------- MODULE MCConversation -----------------------------
(* Instances of Conversation for TLC: requests are model values. *)
EXTENDS Conversation

(* Requests are interchangeable. *)
RequestSymmetry == Permutations(Request)
===============================================================================
