---------------------------- MODULE OwnedWrites ----------------------------
(***************************************************************************)
(* What the worker lease promises (src/lib/server/leadership.ts, header    *)
(* comment and withOwnedTransaction), with no clock, no lease row and no   *)
(* locks: at any time one process or nobody holds ownership, and a piece   *)
(* of work is written only while its process is the holder.  Work that     *)
(* names the period it was read in is written only if ownership has not    *)
(* changed hands since it was read, not even to come back.                 *)
(***************************************************************************)
CONSTANTS Proc,     \* worker processes, one token each
          NoProc,   \* nobody
          Work,     \* transactions the processes prepare
          ProcOf,   \* the process that runs each of them
          Dated     \* those that name the period they were read in

VARIABLES holder,   \* the process that may write
          fate      \* what became of each piece of work

vars == <<holder, fate>>

Fate == {"none", "valid", "stale", "written", "dropped"}

TypeOK == /\ holder \in Proc \cup {NoProc}
          /\ fate \in [Work -> Fate]

Init == /\ holder \in Proc \cup {NoProc}
        /\ fate = [w \in Work |-> "none"]

(* Ownership changes hands: what was prepared before is stale from now on. *)
HandOver(p) ==
    /\ holder # p
    /\ holder' = p
    /\ fate' = [w \in Work |-> IF fate[w] = "valid" THEN "stale" ELSE fate[w]]

(* A process reads what it will write, once done with what it wrote        *)
(* before.  One that has lost ownership and not noticed prepares work      *)
(* that is stale from the start.                                           *)
Prepare(w) ==
    /\ fate[w] \in {"none", "written", "dropped"}
    /\ \/ holder = ProcOf[w] /\ fate' = [fate EXCEPT ![w] = "valid"]
       \/ fate' = [fate EXCEPT ![w] = "stale"]
    /\ UNCHANGED holder

Write(w) ==
    /\ holder = ProcOf[w]
    /\ fate[w] \in {"valid", "stale"}
    /\ w \in Dated => fate[w] = "valid"
    /\ fate' = [fate EXCEPT ![w] = "written"]
    /\ UNCHANGED holder

Drop(w) ==
    /\ fate[w] \in {"valid", "stale"}
    /\ fate' = [fate EXCEPT ![w] = "dropped"]
    /\ UNCHANGED holder

(* A process dies: everything it had prepared goes with it. *)
Die(p) ==
    /\ fate' = [w \in Work |-> IF ProcOf[w] = p /\ fate[w] \in {"valid", "stale"}
                               THEN "dropped" ELSE fate[w]]
    /\ UNCHANGED holder

Next == \/ \E p \in Proc : HandOver(p) \/ Die(p)
        \/ \E w \in Work : Prepare(w) \/ Write(w) \/ Drop(w)

Spec == Init /\ [][Next]_vars
=============================================================================
