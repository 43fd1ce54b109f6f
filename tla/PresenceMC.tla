----------------------------- MODULE PresenceMC -----------------------------
(* Ids are integers, so that the model checker's choice of a new one is    *)
(* always the least that nobody remembers.                                 *)
EXTENDS Presence, TLC
=============================================================================
