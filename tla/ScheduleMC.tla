----------------------------- MODULE ScheduleMC -----------------------------
(* Two servers that may both stop answering, so that they compete for the  *)
(* share of the offline, or for the only slot; one may ask for a hold, and *)
(* a delivery and a person's command use its lane as well.                 *)
EXTENDS Schedule, TLC

CONSTANTS s1, s2, L1, L2, c1, c2, c3

MCLook == (s1 :> L1) @@ (s2 :> L2)
MCLaneOf == [c \in Command |-> s1]
MCPrio == [j \in Job |-> IF j \in Command THEN (IF j = c1 THEN 1 ELSE 0) ELSE 2]
=============================================================================
