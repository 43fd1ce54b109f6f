----------------------------- MODULE MembersMC -----------------------------
(* Two people, one link that lets one of them in, and two requests at once. *)
EXTENDS Members, TLC

CONSTANTS l1, a, b
MCSymmetry == Permutations(Req)
=============================================================================
