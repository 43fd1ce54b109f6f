------------------------------ MODULE OutboxMC ------------------------------
(* Two workers and a row of a server, of any kind. *)
EXTENDS Outbox, TLC

CONSTANT S1

MCServerOf == [r \in Row |-> S1]
MCAll == [r \in Row |-> Kinds]
=============================================================================
