------------------------------ MODULE LeaseMC ------------------------------
(* Two processes: A prepares a look at a server, dated and behind its      *)
(* totals lock; B settles an outbox row, which names no period.            *)
EXTENDS Lease, TLC

CONSTANTS A, B, Look, Row

MCProcOf == (Look :> A) @@ (Row :> B)
MCOwnWork == [w \in Work |-> A]
MCSkew == [p \in Proc |-> 0]
MCAhead == [p \in Proc |-> IF p = B THEN 1 ELSE 0]
MCSymmetry == Permutations(Period)
MCFloor == -1
=============================================================================
