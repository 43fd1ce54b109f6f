------------------------------ MODULE Delivery ------------------------------
(***************************************************************************)
(* What the outbox promises of every row, whatever process delivers it:    *)
(* it takes effect at most once; it ends once, and its ending tells the    *)
(* truth: delivered means it took effect, skipped that it never will.  A   *)
(* row nobody can vouch for ends as unknown, and may take effect even      *)
(* after that.                                                             *)
(***************************************************************************)
EXTENDS Naturals

CONSTANT Row

VARIABLES fate,           \* how each row ended, "open" until then
          effects         \* how often it took effect

vars == <<fate, effects>>

Outcome == {"delivered", "failed", "skipped", "unknown"}

TypeOK == /\ fate \in [Row -> {"open"} \cup Outcome]
          /\ effects \in [Row -> 0 .. 1]

Init == /\ fate = [r \in Row |-> "open"]
        /\ effects = [r \in Row |-> 0]

Act(r) ==
    /\ fate[r] \in {"open", "unknown"}
    /\ effects[r] = 0
    /\ effects' = [effects EXCEPT ![r] = 1]
    /\ UNCHANGED fate

(* Rows end: some of them at once, as when a sweep counts them unknown.    *)
(* Recording a row may be the effect itself.                               *)
Ends(r) ==
    /\ fate[r] = "open"
    /\ fate'[r] \in Outcome
    /\ \/ effects'[r] = effects[r]
       \/ effects[r] = 0 /\ effects'[r] = 1 /\ fate'[r] = "delivered"
    /\ fate'[r] = "delivered" => effects'[r] = 1
    /\ fate'[r] = "skipped" => effects'[r] = 0

End ==
    /\ DOMAIN fate' = Row /\ DOMAIN effects' = Row
    /\ \A r \in Row : Ends(r) \/ (fate'[r] = fate[r] /\ effects'[r] = effects[r])

Next == \/ \E r \in Row : Act(r)
        \/ End

Spec == Init /\ [][Next]_vars
=============================================================================
