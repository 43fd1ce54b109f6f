-------------------------------- MODULE Lanes --------------------------------
(***************************************************************************)
(* One lane per game server: src/lib/server/dispatcher.ts.  At most one    *)
(* request is in flight per server; the others wait, a person's before a   *)
(* delivery before a background look.  A lane that is full refuses, and a  *)
(* job past its deadline when its turn comes is dropped instead of run.    *)
(*                                                                         *)
(* The operators here take and give lanes; Schedule makes actions of them, *)
(* together with the callers.                                              *)
(***************************************************************************)
EXTENDS Naturals, FiniteSets

CONSTANTS
    Job,           \* requests: looks and commands
    Free,          \* nothing in flight
    Prio,          \* 0 a person is waiting, 1 a delivery, 2 a look
    MAX_QUEUED

ASSUME LaneAssumption == /\ Free \notin Job
                         /\ Prio \in [Job -> 0 .. 2]
                         /\ MAX_QUEUED \in Nat \ {0}

(* Whoever waits, waits in a queue: for each of them, those who came       *)
(* before.                                                                 *)
IsQueue(q) ==
    /\ q \in [DOMAIN q -> SUBSET DOMAIN q]
    /\ \A j \in DOMAIN q : j \notin q[j]
    /\ \A j, k \in DOMAIN q : /\ j = k \/ j \in q[k] \/ k \in q[j]
                              /\ j \in q[k] => q[j] \subseteq q[k]

Nobody == [j \in {} |-> {}]
Behind(q, j) == [k \in DOMAIN q \cup {j} |-> IF k = j THEN DOMAIN q ELSE q[k]]
Without(q, S) == [j \in DOMAIN q \ S |-> q[j] \ S]

(* A lane: what it runs, and who waits, in order of arrival (seq). *)
Idle == [running |-> Free, jobs |-> Nobody]
Waiting(l) == DOMAIN l.jobs

(* Whose turn comes first: the priority decides, then the arrival. *)
Before(l, j, k) ==
    \/ Prio[j] < Prio[k]
    \/ Prio[j] = Prio[k] /\ j \in l.jobs[k]

(* Jobs that may still run, and which of them is next. *)
Timely(l, late) == Waiting(l) \ late
First(l, S) == CHOOSE j \in S : \A k \in S \ {j} : Before(l, j, k)

(* Whose turn comes, past the deadline, before anything can run. *)
Expired(l, late) ==
    {j \in Waiting(l) \cap late : \A k \in Timely(l, late) : Before(l, j, k)}

(* Mutant: a turn that drops a job runs none. *)
Pumped_DropOnly(l, late) ==
    IF l.running # Free THEN l
    ELSE IF Timely(l, late) = {} THEN Idle
    ELSE LET next == First(l, Timely(l, late)) IN
         IF Expired(l, late) # {}
         THEN [running |-> Free, jobs |-> Without(l.jobs, Expired(l, late))]
         ELSE [running |-> next, jobs |-> Without(l.jobs, {next})]

(* pump: nothing while something runs; else the first that is not late. *)
Pumped(l, late) ==
    IF l.running # Free THEN l
    ELSE IF Timely(l, late) = {} THEN Idle
    ELSE LET next == First(l, Timely(l, late)) IN
         [running |-> next,
          jobs |-> Without(l.jobs, Expired(l, late) \cup {next})]

(* Mutant: whoever waited too long is dropped without a word. *)
Rejected_Nobody(l, late) == {}

(* Whom the pump tells LaneTimeout. *)
Rejected(l, late) == IF l.running # Free THEN {} ELSE Expired(l, late)

(* Mutant: one job too many. *)
Full_OneMore(l) == Cardinality(Waiting(l)) > MAX_QUEUED

(* withServer, past the check that the lane is not full. *)
Full(l) == Cardinality(Waiting(l)) >= MAX_QUEUED
Joined(l, j) == [running |-> l.running, jobs |-> Behind(l.jobs, j)]

Freed(l) == [running |-> Free, jobs |-> l.jobs]
=============================================================================
