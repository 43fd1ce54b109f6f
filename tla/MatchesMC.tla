----------------------------- MODULE MatchesMC -----------------------------
(* A server with a feed and three matches, and one with a player and two,  *)
(* on two maps.                                                            *)
EXTENDS Matches, TLC

CONSTANTS p1, m1, m2
MCKind == {[feed |-> TRUE, players |-> {}, matches |-> 3],
             [feed |-> FALSE, players |-> {p1}, matches |-> 2]}
MCSymmetry == Permutations(Map)
=============================================================================
