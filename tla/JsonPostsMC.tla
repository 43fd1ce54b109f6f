---------------------------- MODULE JsonPostsMC ----------------------------
(* Two workers, and the POSTs of one webhook. *)
EXTENDS JsonPosts, TLC

CONSTANT H1

MCHookOf == [r \in Post |-> H1]
=============================================================================
