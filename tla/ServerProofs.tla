---------------------------- MODULE ServerProofs ----------------------------
(***************************************************************************)
(* The worker at its game servers, for every number of servers, commands,  *)
(* slots, places in a lane, players, matches and faults.                   *)
(*                                                                         *)
(* First the scheduler and its lanes (module Schedule): the counters are   *)
(* the looks in flight, the offline keep to their share of the budget, a   *)
(* look somebody asked for is never forgotten, a free lane has nobody      *)
(* waiting, and nobody leaves a lane unanswered.                           *)
(*                                                                         *)
(* Then what the looks at one server and its feed make of its matches      *)
(* (module Matches): one row at most is open, a result is of a match the   *)
(* row was seen in, no kill is in two lines, and none that was seen is     *)
(* lost while nothing goes wrong.                                          *)
(***************************************************************************)
EXTENDS Schedule, Matches, SequenceTheorems, FiniteSetTheorems, WellFoundedInduction, TLAPS

-----------------------------------------------------------------------------
(* Queues *)

(* The empty queue, a queue with one more, and a queue with some gone.     *)
LEMMA QueueNobody ==
  IsQueue(Nobody) /\ DOMAIN Nobody = {}
BY DEF IsQueue, Nobody

LEMMA QueueBehind ==
  ASSUME NEW q, IsQueue(q), NEW j, j \notin DOMAIN q
  PROVE  IsQueue(Behind(q, j)) /\ DOMAIN Behind(q, j) = DOMAIN q \cup {j}
<1> DEFINE b == Behind(q, j)
<1>1. /\ DOMAIN b = DOMAIN q \cup {j}
      /\ b[j] = DOMAIN q
      /\ \A k \in DOMAIN q : b[k] = q[k]
      BY DEF Behind
<1>2. /\ \A k \in DOMAIN q : q[k] \subseteq DOMAIN q /\ k \notin q[k]
      /\ \A k, m \in DOMAIN q : /\ k = m \/ k \in q[m] \/ m \in q[k]
                                /\ k \in q[m] => q[k] \subseteq q[m]
      BY DEF IsQueue
<1>3. b \in [DOMAIN b -> SUBSET DOMAIN b]
      BY <1>1, <1>2 DEF Behind
<1>4. \A k \in DOMAIN b : k \notin b[k]
      BY <1>1, <1>2
<1>5. \A k, m \in DOMAIN b : k = m \/ k \in b[m] \/ m \in b[k]
      BY <1>1, <1>2
<1>6. \A k, m \in DOMAIN b : k \in b[m] => b[k] \subseteq b[m]
      BY <1>1, <1>2
<1> QED BY <1>1, <1>3, <1>4, <1>5, <1>6 DEF IsQueue

LEMMA QueueWithout ==
  ASSUME NEW q, IsQueue(q), NEW S
  PROVE  IsQueue(Without(q, S)) /\ DOMAIN Without(q, S) = DOMAIN q \ S
<1> DEFINE w == Without(q, S)
<1>1. /\ DOMAIN w = DOMAIN q \ S
      /\ \A k \in DOMAIN q \ S : w[k] = q[k] \ S
      BY DEF Without
<1>2. /\ \A k \in DOMAIN q : q[k] \subseteq DOMAIN q /\ k \notin q[k]
      /\ \A k, m \in DOMAIN q : /\ k = m \/ k \in q[m] \/ m \in q[k]
                                /\ k \in q[m] => q[k] \subseteq q[m]
      BY DEF IsQueue
<1>3. w \in [DOMAIN w -> SUBSET DOMAIN w]
      BY <1>1, <1>2 DEF Without
<1> QED BY <1>1, <1>2, <1>3 DEF IsQueue

(* Of some who wait in a queue, one came first.                            *)
LEMMA FirstInQueue ==
  ASSUME NEW q, IsQueue(q), IsFiniteSet(DOMAIN q),
         NEW T, T \subseteq DOMAIN q, T # {}
  PROVE  \E j \in T : \A k \in T \ {j} : j \in q[k]
<1> DEFINE D == DOMAIN q
           R == StrictSubsetOrdering(D)
           M == {q[j] : j \in T}
<1>1. /\ \A k \in D : q[k] \subseteq D /\ k \notin q[k]
      /\ \A k, m \in D : /\ k = m \/ k \in q[m] \/ m \in q[k]
                         /\ k \in q[m] => q[k] \subseteq q[m]
      BY DEF IsQueue
<1>2. IsWellFoundedOn(R, SUBSET D)
      BY FS_StrictSubsetOrderingWellFounded, FS_FiniteSubsetsOfFinite
<1>3. M \subseteq SUBSET D /\ M # {}
      BY <1>1
<1>4. PICK m \in M : \A y \in M : <<y, m>> \notin R
  <2> HIDE DEF M, R
  <2> QED BY <1>2, <1>3, WFMin
<1>5. PICK j \in T : m = q[j]
      BY <1>4
<1>6. ASSUME NEW k \in T \ {j}, k \in q[j] PROVE FALSE
  <2>1. q[k] \subseteq q[j] /\ q[k] # q[j]
        BY <1>1, <1>6
  <2>2. q[k] \subseteq D /\ q[j] \subseteq D
        BY <1>1
  <2>3. <<q[k], q[j]>> \in R
        BY <2>1, <2>2 DEF StrictSubsetOrdering
  <2> QED BY <1>4, <1>5, <2>3
<1> QED BY <1>1, <1>6

(* And one came last.                                                      *)
LEMMA LastInQueue ==
  ASSUME NEW q, IsQueue(q), IsFiniteSet(DOMAIN q),
         NEW T, T \subseteq DOMAIN q, T # {}
  PROVE  \E j \in T : \A k \in T \ {j} : k \in q[j]
<1> DEFINE D == DOMAIN q
           R == StrictSubsetOrdering(D)
           M == {D \ q[j] : j \in T}
<1>1. /\ \A k \in D : q[k] \subseteq D /\ k \notin q[k]
      /\ \A k, m \in D : /\ k = m \/ k \in q[m] \/ m \in q[k]
                         /\ k \in q[m] => q[k] \subseteq q[m]
      BY DEF IsQueue
<1>2. IsWellFoundedOn(R, SUBSET D)
      BY FS_StrictSubsetOrderingWellFounded, FS_FiniteSubsetsOfFinite
<1>3. M \subseteq SUBSET D /\ M # {}
  <2>1. \A j \in T : D \ q[j] \in SUBSET D
        OBVIOUS
  <2>2. PICK j \in T : TRUE
        OBVIOUS
  <2>3. D \ q[j] \in M
        OBVIOUS
  <2> QED BY <2>1, <2>3
<1>4. PICK m \in M : \A y \in M : <<y, m>> \notin R
  <2> HIDE DEF M, R
  <2> QED BY <1>2, <1>3, WFMin
<1>5. PICK j \in T : m = D \ q[j]
      BY <1>4
<1>6. ASSUME NEW k \in T \ {j}, j \in q[k] PROVE FALSE
  <2>1. D \ q[k] \subseteq D \ q[j] /\ j \in D \ q[j] /\ j \notin D \ q[k]
        BY <1>1, <1>6
  <2>2. <<D \ q[k], D \ q[j]>> \in R
        BY <2>1 DEF StrictSubsetOrdering
  <2>3. D \ q[k] \in M
        BY <1>6
  <2> QED BY <1>4, <1>5, <2>2, <2>3
<1> QED BY <1>1, <1>6

-----------------------------------------------------------------------------
(* Lanes *)

(* Of some jobs that wait in a lane, one comes before the others: so pump  *)
(* finds the first.                                                        *)
LEMMA FirstIsFirst ==
  ASSUME NEW l, IsQueue(l.jobs), IsFiniteSet(Waiting(l)), Waiting(l) \subseteq Job,
         NEW S, S \subseteq Waiting(l), S # {}
  PROVE  First(l, S) \in S /\ \A k \in S \ {First(l, S)} : Before(l, First(l, S), k)
<1> DEFINE Of(p) == {j \in S : Prio[j] = p}
<1>1. \A j \in S : Prio[j] \in 0 .. 2
      BY LaneAssumption
<1>2. PICK p \in 0 .. 2 : Of(p) # {} /\ \A j \in S : p <= Prio[j]
  <2>1. CASE Of(0) # {}
        BY <1>1, <2>1
  <2>2. CASE Of(0) = {} /\ Of(1) # {}
        BY <1>1, <2>2
  <2>3. CASE Of(0) = {} /\ Of(1) = {}
        BY <1>1, <2>3
  <2> QED BY <2>1, <2>2, <2>3
<1>3. PICK j \in Of(p) : \A k \in Of(p) \ {j} : j \in l.jobs[k]
  <2>1. Of(p) \subseteq DOMAIN l.jobs /\ Of(p) # {}
        BY <1>2 DEF Waiting
  <2> HIDE DEF Of
  <2> QED BY <2>1, FirstInQueue DEF Waiting
<1>4. \A k \in S \ {j} : Before(l, j, k)
      BY <1>1, <1>2, <1>3 DEF Before
<1> QED BY <1>3, <1>4 DEF First

(* A lane that is free takes its next job, if one can still run; who was   *)
(* there and is not any more was late.                                     *)
LEMMA PumpedFree ==
  ASSUME NEW l, l.running = Free, IsQueue(l.jobs), IsFiniteSet(Waiting(l)),
         Waiting(l) \subseteq Job, NEW when
  PROVE  LET new == Pumped(l, when) IN
         /\ new.running \in Timely(l, when) \cup {Free}
         /\ new.running = Free => Timely(l, when) = {} /\ Waiting(new) = {}
         /\ Waiting(new) \subseteq Waiting(l) \ {new.running}
         /\ Waiting(l) \ (Waiting(new) \cup {new.running}) \subseteq when
         /\ IsQueue(new.jobs)
<1> DEFINE new == Pumped(l, when)
<1>1. CASE Timely(l, when) = {}
  <2>1. new = Idle
        BY <1>1 DEF Pumped
  <2>2. new.running = Free /\ new.jobs = Nobody
        BY <2>1 DEF Idle
  <2> QED BY <1>1, <2>2, QueueNobody DEF Waiting, Timely
<1>2. CASE Timely(l, when) # {}
  <2> DEFINE next == First(l, Timely(l, when))
             gone == Expired(l, when) \cup {next}
  <2>1. next \in Timely(l, when)
        BY <1>2, FirstIsFirst DEF Timely
  <2>2. new.running = next /\ new.jobs = Without(l.jobs, gone)
        BY <1>2 DEF Pumped
  <2>3. IsQueue(new.jobs) /\ Waiting(new) = Waiting(l) \ gone
    <3> HIDE DEF gone
    <3> QED BY <2>2, QueueWithout DEF Waiting
  <2>4. next # Free
        BY <2>1, LaneAssumption DEF Timely
  <2>5. Expired(l, when) \subseteq when
        BY DEF Expired
  <2> QED BY <2>1, <2>2, <2>3, <2>4, <2>5
<1> QED BY <1>1, <1>2

LEMMA PumpedBusy ==
  ASSUME NEW l, l.running # Free, NEW when
  PROVE  Pumped(l, when) = l /\ Rejected(l, when) = {}
BY DEF Pumped, Rejected

(* Whom the pump rejects is who was there and is not any more.             *)
LEMMA RejectedFree ==
  ASSUME NEW l, l.running = Free, IsQueue(l.jobs), IsFiniteSet(Waiting(l)),
         Waiting(l) \subseteq Job, NEW when
  PROVE  LET new == Pumped(l, when) IN
         /\ Rejected(l, when) = Waiting(l) \ (Waiting(new) \cup {new.running})
         /\ Rejected(l, when) \subseteq when
<1> DEFINE new == Pumped(l, when)
<1>1. Rejected(l, when) = Expired(l, when) /\ Expired(l, when) \subseteq Waiting(l) \cap when
      BY DEF Rejected, Expired
<1>2. CASE Timely(l, when) = {}
  <2>1. new.running = Free /\ Waiting(new) = {}
        BY <1>2 DEF Pumped, Idle, Waiting, Nobody
  <2>2. Expired(l, when) = Waiting(l)
        BY <1>2 DEF Expired, Timely
  <2> QED BY <1>1, <2>1, <2>2, LaneAssumption
<1>3. CASE Timely(l, when) # {}
  <2> DEFINE next == First(l, Timely(l, when))
             gone == Expired(l, when) \cup {next}
  <2>1. next \in Waiting(l) \ when
        BY <1>3, FirstIsFirst DEF Timely
  <2>2. new.running = next /\ new.jobs = Without(l.jobs, gone)
        BY <1>3 DEF Pumped
  <2>3. Waiting(new) = Waiting(l) \ gone
    <3> HIDE DEF gone
    <3> QED BY <2>2, QueueWithout DEF Waiting
  <2>4. Expired(l, when) = Waiting(l) \ (Waiting(new) \cup {new.running})
    <3> HIDE DEF new, next
    <3> QED BY <1>1, <2>1, <2>2, <2>3
  <2> QED BY <1>1, <2>4
<1> QED BY <1>2, <1>3

-----------------------------------------------------------------------------
(* The inductive invariant *)

(* A server's lane: what runs and who waits is the server's, once; there   *)
(* is room for it; and nobody waits while nothing runs.                    *)
LaneOK(s, l) ==
    /\ l.running \in Jobs(s) \cup {Free}
    /\ Waiting(l) \subseteq Jobs(s) \ {l.running}
    /\ IsQueue(l.jobs)
    /\ IsFiniteSet(Waiting(l))
    /\ Cardinality(Waiting(l)) <= MAX_QUEUED
    /\ l.running = Free => Waiting(l) = {}

LanesOK ==
    /\ DOMAIN lane = Server
    /\ \A s \in Server : LaneOK(s, lane[s])
    /\ late \subseteq WaitingJobs
    /\ answer \in [Command -> {"none", "full", "dropped", "done"}]

RestOK ==
    /\ flying \subseteq Server /\ counted \subseteq flying
    /\ IsQueue(due) /\ DOMAIN due \subseteq Server
    /\ again \subseteq flying /\ hold \subseteq Server /\ offline \subseteq Server
    /\ total \in Totals
    /\ asked \subseteq Server
    /\ calls \in 0 .. MaxCalls

(* A look is in flight as long as its lane has it, waiting or running.     *)
InLaneOf(s) == Waiting(lane[s]) \cup {lane[s].running}
LooksAreInLanes == \A s \in Server : s \in flying <=> Look[s] \in InLaneOf(s)

(* A server inside a hold is not due, and no look of it is in flight.      *)
HeldAreIdle == \A s \in hold : s \notin DOMAIN due /\ s \notin flying

IInv ==
    /\ LanesOK
    /\ RestOK
    /\ LooksAreInLanes
    /\ HeldAreIdle
    /\ CountersAreTheFlights
    /\ AskedIsKept

(* No job is two servers', and a job is not Free.                          *)
LEMMA JobsApart ==
  /\ \A s \in Server : Jobs(s) \subseteq Job /\ Free \notin Jobs(s) /\ Look[s] \in Jobs(s)
  /\ \A s, t \in Server : \A j \in Jobs(s) \cap Jobs(t) : s = t
  /\ \A c \in Command : LaneOf[c] \in Server /\ c \in Jobs(LaneOf[c])
  /\ \A c \in Command : \A s \in Server : Look[s] # c
BY JobAssumption, LaneAssumption DEF Jobs

(* What is in flight, and any part of the servers, is finite.              *)
LEMMA Finite ==
  ASSUME NEW S, S \subseteq Server
  PROVE  IsFiniteSet(S) /\ Cardinality(S) \in Nat
BY ServerAssumption, FS_Subset, FS_CardinalityType

(* The invariant says all that the type says, and that nobody waits for a  *)
(* lane that is free.                                                      *)
LEMMA InvariantParts ==
  IInv => TypeOK /\ NobodyWaitsForNothing
<1> SUFFICES ASSUME IInv PROVE TypeOK /\ NobodyWaitsForNothing
    OBVIOUS
<1>1. active \in Nat /\ activeOffline \in Nat
  <2>1. flying \subseteq Server /\ counted \subseteq Server
        BY DEF IInv, RestOK
  <2> QED BY <2>1, Finite DEF IInv, CountersAreTheFlights
<1>2. TypeOK
      BY <1>1 DEF IInv, LanesOK, LaneOK, RestOK, TypeOK
<1> QED BY <1>2 DEF IInv, LanesOK, LaneOK, NobodyWaitsForNothing

LEMMA AskedParts ==
  ASSUME IInv, NEW t \in asked
  PROVE  /\ t \in Server
         /\ t \in DOMAIN due \/ t \in hold \/ t \in again
            \/ (t \in flying /\ lane[t].running # Look[t])
BY DEF IInv, RestOK, AskedIsKept, Overdue

-----------------------------------------------------------------------------
(* What a step does to a lane *)

(* A job that joins a lane with room for it waits there, behind whoever    *)
(* came before, or runs at once.                                           *)
LEMMA JoinedLane ==
  ASSUME NEW s \in Server, NEW l, LaneOK(s, l), ~Full(l), NEW when,
         NEW j \in Jobs(s), j \notin Waiting(l) \cup {l.running}, j \notin when
  PROVE  LET new == Pumped(Joined(l, j), when) IN
         /\ LaneOK(s, new)
         /\ l.running = Free => new.running = j /\ Waiting(new) = {}
         /\ l.running # Free => new.running = l.running /\ Waiting(new) = Waiting(l) \cup {j}
<1> DEFINE k == Joined(l, j)
           new == Pumped(k, when)
<1>1. /\ k.running = l.running
      /\ k.jobs = Behind(l.jobs, j)
      BY DEF Joined
<1>2. IsQueue(k.jobs) /\ Waiting(k) = Waiting(l) \cup {j}
      BY <1>1, QueueBehind DEF Waiting, LaneOK
<1>3. IsFiniteSet(Waiting(k)) /\ Cardinality(Waiting(k)) <= MAX_QUEUED
  <2>1. IsFiniteSet(Waiting(l))
        BY DEF LaneOK
  <2>2. Cardinality(Waiting(l)) \in Nat /\ MAX_QUEUED \in Nat /\ Cardinality(Waiting(l)) < MAX_QUEUED
        BY <2>1, FS_CardinalityType, LaneAssumption DEF Full
  <2>3. IsFiniteSet(Waiting(k)) /\ Cardinality(Waiting(k)) = Cardinality(Waiting(l)) + 1
        BY <1>2, <2>1, FS_AddElement
  <2> QED BY <2>2, <2>3
<1>4. ASSUME l.running # Free
      PROVE  LaneOK(s, new) /\ new.running = l.running /\ Waiting(new) = Waiting(l) \cup {j}
  <2>1. new = k
        BY <1>1, <1>4, PumpedBusy
  <2> QED BY <1>1, <1>2, <1>3, <1>4, <2>1 DEF LaneOK
<1>5. ASSUME l.running = Free
      PROVE  LaneOK(s, new) /\ new.running = j /\ Waiting(new) = {}
  <2>1. Waiting(k) = {j} /\ Waiting(k) \subseteq Job
        BY <1>2, <1>5, JobsApart DEF LaneOK
  <2>2. Timely(k, when) = {j}
        BY <2>1 DEF Timely
  <2>3. /\ new.running \in Timely(k, when) \cup {Free}
        /\ new.running = Free => Timely(k, when) = {}
        /\ Waiting(new) \subseteq Waiting(k) \ {new.running}
        /\ IsQueue(new.jobs)
    <3> HIDE DEF k
    <3> QED BY <1>1, <1>2, <1>3, <1>5, <2>1, PumpedFree
  <2>4. new.running = j /\ Waiting(new) = {}
        BY <2>1, <2>2, <2>3
  <2>5. j # Free /\ IsFiniteSet({}) /\ Cardinality({}) <= MAX_QUEUED
        BY JobsApart, FS_EmptySet, LaneAssumption
  <2> HIDE DEF new
  <2> QED BY <2>3, <2>4, <2>5 DEF LaneOK
<1> QED BY <1>4, <1>5

(* A lane whose turn is over goes on with one who waited, or is free with  *)
(* nobody waiting.                                                         *)
LEMMA NextLane ==
  ASSUME NEW s \in Server, NEW l, LaneOK(s, l), NEW when
  PROVE  LET new == Pumped(Freed(l), when) IN
         /\ LaneOK(s, new)
         /\ new.running \in Waiting(l) \cup {Free}
         /\ Waiting(new) \subseteq Waiting(l)
<1> DEFINE k == Freed(l)
           new == Pumped(k, when)
<1>1. k.running = Free /\ k.jobs = l.jobs /\ Waiting(k) = Waiting(l)
      BY DEF Freed, Waiting
<1>2. /\ IsQueue(k.jobs) /\ IsFiniteSet(Waiting(k)) /\ Waiting(k) \subseteq Job
      /\ Waiting(l) \subseteq Jobs(s)
      BY <1>1, JobsApart DEF LaneOK
<1>3. /\ new.running \in Timely(k, when) \cup {Free}
      /\ new.running = Free => Waiting(new) = {}
      /\ Waiting(new) \subseteq Waiting(k) \ {new.running}
      /\ IsQueue(new.jobs)
  <2> HIDE DEF k
  <2> QED BY <1>1, <1>2, PumpedFree
<1>4. IsFiniteSet(Waiting(new)) /\ Cardinality(Waiting(new)) <= MAX_QUEUED
  <2>1. Waiting(new) \subseteq Waiting(l) /\ IsFiniteSet(Waiting(l))
        BY <1>1, <1>3 DEF LaneOK
  <2>2. /\ IsFiniteSet(Waiting(new))
        /\ Cardinality(Waiting(new)) <= Cardinality(Waiting(l))
        /\ Cardinality(Waiting(new)) \in Nat /\ Cardinality(Waiting(l)) \in Nat
        BY <2>1, FS_Subset, FS_CardinalityType
  <2> QED BY <2>2, LaneAssumption DEF LaneOK
<1>5. new.running \in Waiting(l) \cup {Free} /\ Waiting(new) \subseteq Waiting(l)
  <2> HIDE DEF new, k
  <2> QED BY <1>1, <1>3 DEF Timely
<1>6. LaneOK(s, new)
  <2> HIDE DEF new, k
  <2> QED BY <1>1, <1>2, <1>3, <1>4, <1>5 DEF LaneOK
<1> QED BY <1>5, <1>6

(* A job that joins in time makes the pump reject nobody.                  *)
LEMMA JoinedRejectsNobody ==
  ASSUME NEW s \in Server, NEW l, LaneOK(s, l), ~Full(l), NEW when,
         NEW j \in Jobs(s), j \notin Waiting(l) \cup {l.running}, j \notin when
  PROVE  Rejected(Joined(l, j), when) = {}
<1> DEFINE k == Joined(l, j)
<1>1. k.running = l.running /\ k.jobs = Behind(l.jobs, j)
      BY DEF Joined
<1>2. IsQueue(k.jobs) /\ Waiting(k) = Waiting(l) \cup {j}
      BY <1>1, QueueBehind DEF Waiting, LaneOK
<1>3. CASE l.running # Free
      BY <1>1, <1>3, PumpedBusy
<1>4. CASE l.running = Free
  <2>1. Waiting(k) = {j} /\ j \in Job
        BY <1>2, <1>4, JobsApart DEF LaneOK
  <2>2. Rejected(k, when) = {}
    <3> HIDE DEF k
    <3> QED BY <2>1 DEF Rejected, Expired
  <2> QED BY <2>2
<1> QED BY <1>3, <1>4

(* A next turn rejects who is gone after it, all of them late; what runs   *)
(* then is in time.                                                        *)
LEMMA NextRejects ==
  ASSUME NEW s \in Server, NEW l, LaneOK(s, l), NEW when
  PROVE  LET new == Pumped(Freed(l), when) IN
         /\ Rejected(Freed(l), when) = Waiting(l) \ (Waiting(new) \cup {new.running})
         /\ Rejected(Freed(l), when) \subseteq when
         /\ new.running # Free => new.running \notin when
<1> DEFINE k == Freed(l)
<1>1. k.running = Free /\ k.jobs = l.jobs /\ Waiting(k) = Waiting(l)
      BY DEF Freed, Waiting
<1>2. IsQueue(k.jobs) /\ IsFiniteSet(Waiting(k)) /\ Waiting(k) \subseteq Job
      BY <1>1, JobsApart DEF LaneOK
<1> HIDE DEF k
<1>3. Pumped(k, when).running \in Timely(k, when) \cup {Free}
      BY <1>1, <1>2, PumpedFree
<1>4. /\ Rejected(k, when) = Waiting(k) \ (Waiting(Pumped(k, when)) \cup {Pumped(k, when).running})
      /\ Rejected(k, when) \subseteq when
      BY <1>1, <1>2, RejectedFree
<1> QED BY <1>1, <1>3, <1>4 DEF Timely, k

(* The lanes become others that are in order: so are the lanes, and what   *)
(* is still asked for has not begun, been rejected or refused.             *)
LEMMA LanesBecameOK ==
  ASSUME LanesOK, NEW new, DOMAIN new = Server, \A s \in Server : LaneOK(s, new[s]),
         NEW rejected, NEW refused, NEW done, LanesBecome(new, rejected, refused, done)
  PROVE  /\ LanesOK' /\ lane' = new
         /\ asked' \subseteq asked
         /\ \A s \in asked' : Look[s] \notin Begun \cup rejected \cup refused
<1>1. /\ lane' = new
      /\ late' \subseteq WaitingJobs'
      /\ asked' = {s \in asked : Look[s] \notin Begun \cup rejected \cup refused}
      BY DEF LanesBecome
<1>2. answer' \in [Command -> {"none", "full", "dropped", "done"}]
      BY DEF LanesBecome, LanesOK
<1> QED BY <1>1, <1>2 DEF LanesOK

(* What begins does so in the lane of its own server.                      *)
LEMMA BegunInItsLane ==
  ASSUME LanesOK, LanesOK', NEW s \in Server, NEW j \in Jobs(s)
  PROVE  j \in Begun <=> lane'[s].running = j /\ lane[s].running # j
<1>1. \A t \in Server : lane[t].running = j => s = t
      BY JobsApart DEF LanesOK, LaneOK
<1>2. \A t \in Server : lane'[t].running = j => s = t
      BY JobsApart DEF LanesOK, LaneOK
<1> QED BY <1>1, <1>2 DEF Begun

(* Only what waits can be late.                                            *)
LEMMA WaitsToBeLate ==
  ASSUME LanesOK, NEW s \in Server, NEW j \in Jobs(s), j \notin Waiting(lane[s])
  PROVE  j \notin late
<1>1. \A t \in Server : j \in Waiting(lane[t]) => s = t
      BY JobsApart DEF LanesOK, LaneOK
<1> QED BY <1>1 DEF LanesOK, WaitingJobs

-----------------------------------------------------------------------------
(* The servers that are due *)

(* One server becomes the last that is due.                                *)
LEMMA LastDueOK ==
  ASSUME IsQueue(due), NEW s
  PROVE  IsQueue(LastDue(s)) /\ DOMAIN LastDue(s) = DOMAIN due \cup {s}
<1> DEFINE w == Without(due, {s})
<1>1. IsQueue(w) /\ DOMAIN w = DOMAIN due \ {s}
      BY QueueWithout
<1>2. IsQueue(Behind(w, s)) /\ DOMAIN Behind(w, s) = DOMAIN w \cup {s}
  <2> HIDE DEF w
  <2> QED BY <1>1, QueueBehind
<1> QED BY <1>1, <1>2 DEF LastDue

(* A look that is over leaves its server due if it was, or was asked for,  *)
(* unless a hold comes first.                                              *)
LEMMA ReplannedOK ==
  ASSUME IsQueue(due), NEW s
  PROVE  /\ IsQueue(Replanned(s))
         /\ DOMAIN due \ {s} \subseteq DOMAIN Replanned(s)
         /\ DOMAIN Replanned(s) \subseteq DOMAIN due \cup {s}
         /\ s \in hold' => s \notin DOMAIN Replanned(s)
         /\ s \notin hold' /\ (s \in DOMAIN due \/ s \in again) => s \in DOMAIN Replanned(s)
<1>1. IsQueue(Without(due, {s})) /\ DOMAIN Without(due, {s}) = DOMAIN due \ {s}
      BY QueueWithout
<1>2. IsQueue(LastDue(s)) /\ DOMAIN LastDue(s) = DOMAIN due \cup {s}
      BY LastDueOK
<1>3. CASE s \in hold'
      BY <1>1, <1>3 DEF Replanned
<1>4. CASE s \notin hold' /\ (s \in DOMAIN due \/ s \in again)
      BY <1>2, <1>4 DEF Replanned, Overdue
<1>5. CASE s \notin hold' /\ s \notin DOMAIN due /\ s \notin again
      BY <1>5 DEF Replanned, Overdue
<1> QED BY <1>3, <1>4, <1>5

(* Planned anew: the others keep their places, those planned follow.       *)
Anew(q, planned, rest, r) ==
    [s \in DOMAIN q |-> IF s \in planned THEN rest \cup r[s] ELSE q[s] \cap rest]

LEMMA QueueReplanned ==
  ASSUME NEW q, IsQueue(q), NEW planned, NEW rest, DOMAIN q = planned \cup rest,
         planned \cap rest = {},
         NEW r, IsQueue(r), DOMAIN r = planned
  PROVE  IsQueue(Anew(q, planned, rest, r)) /\ DOMAIN Anew(q, planned, rest, r) = DOMAIN q
<1> DEFINE w == Anew(q, planned, rest, r)
<1>1. /\ DOMAIN w = DOMAIN q
      /\ \A s \in planned : w[s] = rest \cup r[s]
      /\ \A s \in rest : w[s] = q[s] \cap rest
      BY DEF Anew
<1>2. /\ \A k \in DOMAIN q : q[k] \subseteq DOMAIN q /\ k \notin q[k]
      /\ \A k, m \in DOMAIN q : /\ k = m \/ k \in q[m] \/ m \in q[k]
                                /\ k \in q[m] => q[k] \subseteq q[m]
      BY DEF IsQueue
<1>3. /\ \A k \in planned : r[k] \subseteq planned /\ k \notin r[k]
      /\ \A k, m \in planned : /\ k = m \/ k \in r[m] \/ m \in r[k]
                               /\ k \in r[m] => r[k] \subseteq r[m]
      BY DEF IsQueue
<1>4. w \in [DOMAIN w -> SUBSET DOMAIN w]
      BY <1>1, <1>3 DEF Anew
<1>5. \A k \in DOMAIN q : k \notin w[k]
      BY <1>1, <1>2, <1>3
<1>6. \A k, m \in DOMAIN q : k = m \/ k \in w[m] \/ m \in w[k]
      BY <1>1, <1>2, <1>3
<1>7. \A k, m \in DOMAIN q : k \in w[m] => w[k] \subseteq w[m]
      BY <1>1, <1>2, <1>3
<1> HIDE DEF w
<1>8. IsQueue(w)
      BY <1>1, <1>4, <1>5, <1>6, <1>7 DEF IsQueue
<1> QED BY <1>1, <1>8 DEF w

-----------------------------------------------------------------------------
(* The invariant holds at first, and every action keeps it *)

LEMMA InitInvariant ==
  Init => IInv
<1> SUFFICES ASSUME Init PROVE IInv
    OBVIOUS
<1>1. \A s \in Server : lane[s].running = Free /\ lane[s].jobs = Nobody /\ Waiting(lane[s]) = {}
      BY QueueNobody DEF Init, Idle, Waiting
<1>2. IsFiniteSet({}) /\ Cardinality({}) = 0 /\ 0 <= MAX_QUEUED
      BY FS_EmptySet, LaneAssumption
<1>3. LanesOK
      BY <1>1, <1>2, QueueNobody DEF Init, LanesOK, LaneOK
<1>4. RestOK
      BY QueueNobody, CallAssumption DEF Init, RestOK
<1>5. LooksAreInLanes
      BY <1>1, JobsApart DEF Init, LooksAreInLanes, InLaneOf
<1> QED BY <1>2, <1>3, <1>4, <1>5 DEF Init, IInv, HeldAreIdle, CountersAreTheFlights, AskedIsKept

(* Nothing but what is due, held or late changes.                          *)
LEMMA SameLanesOK ==
  ASSUME LanesOK, LooksAreInLanes, UNCHANGED <<lane, answer, flying>>, late' \subseteq WaitingJobs
  PROVE  LanesOK' /\ LooksAreInLanes'
BY DEF LanesOK, LooksAreInLanes, InLaneOf, WaitingJobs

LEMMA BecomeDueOK ==
  ASSUME IInv, NEW s \in Server, BecomeDue(s)
  PROVE  IInv'
<1> USE DEF IInv
<1>1. /\ UNCHANGED <<lanes, looks, hold, offline, total, calls>>
      /\ due' = Behind(due, s) /\ s \notin DOMAIN due /\ s \notin hold
      BY DEF BecomeDue, Overdue
<1>2. IsQueue(due') /\ DOMAIN due' = DOMAIN due \cup {s}
      BY <1>1, QueueBehind DEF RestOK
<1>3. LanesOK' /\ LooksAreInLanes'
      BY <1>1, SameLanesOK DEF lanes, looks, LanesOK
<1>4. RestOK'
      BY <1>1, <1>2 DEF RestOK, lanes, looks
<1>5. HeldAreIdle'
      BY <1>1, <1>2 DEF HeldAreIdle, looks
<1>6. CountersAreTheFlights'
      BY <1>1 DEF CountersAreTheFlights, looks
<1>7. AskedIsKept'
      BY <1>1, <1>2 DEF AskedIsKept, Overdue, lanes, looks
<1> QED BY <1>3, <1>4, <1>5, <1>6, <1>7

LEMMA HoldEndsOK ==
  ASSUME IInv, NEW s \in Server, HoldEnds(s)
  PROVE  IInv'
<1> USE DEF IInv
<1>1. /\ UNCHANGED <<lanes, looks, offline, total, calls>>
      /\ due' = Behind(due, s) /\ s \notin DOMAIN due /\ hold' = hold \ {s}
      BY DEF HoldEnds, HeldAreIdle, Overdue
<1>2. IsQueue(due') /\ DOMAIN due' = DOMAIN due \cup {s}
      BY <1>1, QueueBehind DEF RestOK
<1>3. LanesOK' /\ LooksAreInLanes'
      BY <1>1, SameLanesOK DEF lanes, looks, LanesOK
<1>4. RestOK'
      BY <1>1, <1>2 DEF RestOK, lanes, looks
<1>5. HeldAreIdle'
      BY <1>1, <1>2 DEF HeldAreIdle, looks
<1>6. CountersAreTheFlights'
      BY <1>1 DEF CountersAreTheFlights, looks
<1>7. AskedIsKept'
      BY <1>1, <1>2 DEF AskedIsKept, Overdue, lanes, looks
<1> QED BY <1>3, <1>4, <1>5, <1>6, <1>7

LEMMA ObserveSoonOK ==
  ASSUME IInv, NEW s \in Server, ObserveSoon(s)
  PROVE  IInv'
<1> USE DEF IInv
<1>1. /\ UNCHANGED <<lane, late, answer, flying, counted, active, activeOffline, hold, offline, total>>
      /\ calls < MaxCalls /\ calls' = calls + 1
      /\ asked' = asked \cup {s}
      /\ s \in flying => again' = again \cup {s}
      /\ s \notin flying => again' = again
      /\ s \in flying \cup hold => due' = due
      /\ s \notin flying \cup hold => due' = LastDue(s)
      BY DEF ObserveSoon
<1>2. /\ IsQueue(due') /\ DOMAIN due \subseteq DOMAIN due' /\ DOMAIN due' \subseteq DOMAIN due \cup {s}
      /\ s \notin flying \cup hold => s \in DOMAIN due'
      /\ s \in flying \cup hold => DOMAIN due' = DOMAIN due
      BY <1>1, LastDueOK DEF RestOK
<1>3. LanesOK' /\ LooksAreInLanes'
      BY <1>1, SameLanesOK DEF LanesOK
<1>4. RestOK'
      BY <1>1, <1>2, CallAssumption DEF RestOK
<1>5. HeldAreIdle'
      BY <1>1, <1>2 DEF HeldAreIdle
<1>6. CountersAreTheFlights'
      BY <1>1 DEF CountersAreTheFlights
<1>7. AskedIsKept'
      BY <1>1, <1>2 DEF AskedIsKept, Overdue
<1> QED BY <1>3, <1>4, <1>5, <1>6, <1>7

LEMMA NewSettingsOK ==
  ASSUME IInv, NewSettings
  PROVE  IInv'
<1> USE DEF IInv
<1> DEFINE planned == DOMAIN due \ flying
           rest == DOMAIN due \cap flying
<1>1. PICK roster \in {r \in [planned -> SUBSET planned] : IsQueue(r)} :
        due' = [s \in DOMAIN due |-> IF s \in planned THEN rest \cup roster[s]
                                     ELSE due[s] \cap rest]
      BY DEF NewSettings
<1>2. /\ UNCHANGED <<lanes, looks, hold, offline>>
      /\ total' \in Totals /\ calls < MaxCalls /\ calls' = calls + 1
      BY DEF NewSettings
<1>3. IsQueue(due') /\ DOMAIN due' = DOMAIN due
  <2>1. IsQueue(roster) /\ DOMAIN roster = planned
        BY <1>1
  <2>2. DOMAIN due = planned \cup rest /\ planned \cap rest = {} /\ IsQueue(due)
        BY DEF RestOK
  <2> HIDE DEF planned, rest
  <2>3. due' = Anew(due, planned, rest, roster)
        BY <1>1 DEF Anew
  <2> QED BY <2>1, <2>2, <2>3, QueueReplanned
<1> HIDE DEF planned, rest
<1>4. LanesOK' /\ LooksAreInLanes'
      BY <1>2, SameLanesOK DEF lanes, looks, LanesOK
<1>5. RestOK'
      BY <1>2, <1>3, CallAssumption DEF RestOK, lanes, looks
<1>6. HeldAreIdle'
      BY <1>2, <1>3 DEF HeldAreIdle, looks
<1>7. CountersAreTheFlights'
      BY <1>2 DEF CountersAreTheFlights, looks
<1>8. AskedIsKept'
      BY <1>2, <1>3 DEF AskedIsKept, Overdue, lanes, looks
<1> QED BY <1>4, <1>5, <1>6, <1>7, <1>8

LEMMA ExpireOK ==
  ASSUME IInv, NEW s \in Server, Expire(s)
  PROVE  IInv'
<1> USE DEF IInv
<1>1. PICK j \in Waiting(lane[s]) : late' = late \cup {j}
      BY DEF Expire
<1>2. UNCHANGED <<lane, answer, asked, looks, due, hold, offline, total, calls>>
      BY DEF Expire
<1>3. late' \subseteq WaitingJobs
      BY <1>1 DEF LanesOK, WaitingJobs
<1>4. LanesOK' /\ LooksAreInLanes'
      BY <1>2, <1>3, SameLanesOK DEF looks
<1> QED BY <1>2, <1>4 DEF RestOK, HeldAreIdle, CountersAreTheFlights, AskedIsKept, Overdue, looks

(* A command that is sent waits, runs or is refused: the looks are not     *)
(* touched.                                                                *)
LEMMA SendOK ==
  ASSUME IInv, NEW c \in Command, Send(c)
  PROVE  IInv'
<1> USE DEF IInv
<1> DEFINE s == LaneOf[c]
           joined == Pumped(Joined(lane[s], c), late)
<1>1. /\ s \in Server /\ c \in Jobs(s)
      /\ c \notin Waiting(lane[s]) \cup {lane[s].running}
      /\ UNCHANGED <<looks, due, hold, offline, total, calls>>
      BY JobsApart DEF Send
<1>2. /\ LanesOK' /\ asked' \subseteq asked
      /\ \A t \in Server : /\ Look[t] \in InLaneOf(t)' <=> Look[t] \in InLaneOf(t)
                           /\ lane'[t].running = Look[t] => lane[t].running = Look[t]
  <2>1. ASSUME Full(lane[s])
        PROVE  LanesOK' /\ lane' = lane /\ asked' \subseteq asked
    <3>1. LanesBecome(lane, {}, {c}, {})
          BY <2>1 DEF Send
    <3>2. DOMAIN lane = Server /\ \A t \in Server : LaneOK(t, lane[t])
          BY DEF LanesOK
    <3> QED BY <3>1, <3>2, LanesBecameOK
  <2>2. ASSUME ~Full(lane[s])
        PROVE  /\ LanesOK' /\ asked' \subseteq asked
               /\ lane'[s] = joined /\ \A t \in Server \ {s} : lane'[t] = lane[t]
               /\ lane[s].running = Free => joined.running = c /\ Waiting(joined) = {}
               /\ lane[s].running # Free => /\ joined.running = lane[s].running
                                            /\ Waiting(joined) = Waiting(lane[s]) \cup {c}
    <3> DEFINE new == [lane EXCEPT ![s] = joined]
    <3>1. LanesBecome(new, Rejected(Joined(lane[s], c), late), {}, {})
          BY <2>2 DEF Send
    <3>2. /\ LaneOK(s, joined)
          /\ lane[s].running = Free => joined.running = c /\ Waiting(joined) = {}
          /\ lane[s].running # Free => /\ joined.running = lane[s].running
                                       /\ Waiting(joined) = Waiting(lane[s]) \cup {c}
      <4>1. LaneOK(s, lane[s]) /\ c \notin late
            BY <1>1, WaitsToBeLate DEF LanesOK
      <4> HIDE DEF s
      <4> QED BY <1>1, <2>2, <4>1, JoinedLane
    <3> HIDE DEF joined
    <3>3. /\ DOMAIN new = Server
          /\ new[s] = joined /\ \A t \in Server \ {s} : new[t] = lane[t]
          BY <1>1 DEF LanesOK
    <3>4. \A t \in Server : LaneOK(t, new[t])
          BY <3>2, <3>3 DEF LanesOK
    <3>5. LanesOK' /\ lane' = new /\ asked' \subseteq asked
      <4> HIDE DEF new
      <4> QED BY <3>1, <3>3, <3>4, LanesBecameOK
    <3> QED BY <3>2, <3>3, <3>5
  <2>3. CASE Full(lane[s])
        BY <2>1, <2>3 DEF InLaneOf
  <2>4. CASE ~Full(lane[s])
    <3>1. \A t \in Server : Look[t] # c /\ Look[t] # Free
          BY JobsApart
    <3>2. lane[s].running = Free => Waiting(lane[s]) = {}
          BY <1>1 DEF LanesOK, LaneOK
    <3>3. lane'[s].running \in {lane[s].running, c}
          BY <2>2, <2>4
    <3>4. InLaneOf(s)' \ {c, Free} = InLaneOf(s) \ {c, Free}
      <4> HIDE DEF s, joined
      <4> QED BY <2>2, <2>4, <3>2 DEF InLaneOf
    <3>5. \A t \in Server \ {s} : InLaneOf(t)' = InLaneOf(t) /\ lane'[t].running = lane[t].running
          BY <2>2, <2>4 DEF InLaneOf
    <3> HIDE DEF s, joined
    <3> QED BY <2>2, <2>4, <3>1, <3>3, <3>4, <3>5
  <2> QED BY <2>3, <2>4
<1> HIDE DEF s
<1>3. LooksAreInLanes'
      BY <1>1, <1>2 DEF LooksAreInLanes, looks
<1>4. RestOK' /\ HeldAreIdle' /\ CountersAreTheFlights'
      BY <1>1, <1>2 DEF RestOK, HeldAreIdle, CountersAreTheFlights, looks
<1>5. AskedIsKept'
      BY <1>1, <1>2 DEF AskedIsKept, RestOK, Overdue, looks
<1> QED BY <1>2, <1>3, <1>4, <1>5

(* A look that is over gives back its slot, and the share it was counted   *)
(* against, and its server is planned anew.                                *)
LEMMA LandOK ==
  ASSUME RestOK, HeldAreIdle, CountersAreTheFlights, NEW s \in flying, Land(s),
         hold' \subseteq hold \cup {s}, offline' \subseteq Server, asked' \subseteq asked,
         UNCHANGED <<total, calls>>
  PROVE  RestOK' /\ HeldAreIdle' /\ CountersAreTheFlights'
<1>1. /\ flying' = flying \ {s} /\ counted' = counted \ {s} /\ again' = again \ {s}
      /\ active' = active - 1
      /\ activeOffline' = IF s \in counted THEN activeOffline - 1 ELSE activeOffline
      /\ due' = Replanned(s)
      BY DEF Land
<1>2. /\ IsQueue(due') /\ DOMAIN due' \subseteq DOMAIN due \cup {s}
      /\ s \in hold' => s \notin DOMAIN due'
      BY <1>1, ReplannedOK DEF RestOK
<1>3. RestOK'
      BY <1>1, <1>2 DEF RestOK
<1>4. HeldAreIdle'
      BY <1>1, <1>2 DEF HeldAreIdle
<1>5. CountersAreTheFlights'
  <2>1. IsFiniteSet(flying) /\ IsFiniteSet(counted)
        BY Finite DEF RestOK
  <2>2. /\ Cardinality(flying \ {s}) = Cardinality(flying) - 1
        /\ Cardinality(counted \ {s}) = IF s \in counted THEN Cardinality(counted) - 1
                                                         ELSE Cardinality(counted)
        BY <2>1, FS_RemoveElement
  <2> QED BY <1>1, <2>2 DEF CountersAreTheFlights
<1> QED BY <1>3, <1>4, <1>5

(* The next turn of a server's lane: the other lanes stay, and in its own  *)
(* nobody is new.                                                          *)
LEMMA NextTurnOK ==
  ASSUME LanesOK, NEW s \in Server, NEW done, LanesBecome(NextTurn(s), Overslept(s), {}, done)
  PROVE  /\ LanesOK' /\ asked' \subseteq asked
         /\ \A t \in asked' : Look[t] \notin Begun \cup Overslept(s)
         /\ \A t \in Server \ {s} : lane'[t] = lane[t]
         /\ lane'[s].running \in Waiting(lane[s]) \cup {Free}
         /\ Waiting(lane'[s]) \subseteq Waiting(lane[s])
         /\ Overslept(s) = Waiting(lane[s]) \ InLaneOf(s)'
         /\ Overslept(s) \subseteq late
         /\ lane'[s].running # Free => lane'[s].running \notin late
<1> DEFINE next == Pumped(Freed(lane[s]), late)
           new == NextTurn(s)
<1>1. DOMAIN new = Server /\ new[s] = next /\ \A t \in Server \ {s} : new[t] = lane[t]
      BY DEF NextTurn, LanesOK
<1>2. /\ LaneOK(s, next)
      /\ next.running \in Waiting(lane[s]) \cup {Free}
      /\ Waiting(next) \subseteq Waiting(lane[s])
      /\ Overslept(s) = Waiting(lane[s]) \ (Waiting(next) \cup {next.running})
      /\ Overslept(s) \subseteq late
      /\ next.running # Free => next.running \notin late
      BY NextLane, NextRejects DEF LanesOK, Overslept
<1> HIDE DEF next
<1>3. \A t \in Server : LaneOK(t, new[t])
      BY <1>1, <1>2 DEF LanesOK
<1> HIDE DEF new
<1>4. /\ LanesOK' /\ lane' = new /\ asked' \subseteq asked
      /\ \A t \in asked' : Look[t] \notin Begun \cup Overslept(s)
      BY <1>1, <1>3, LanesBecameOK DEF new
<1> QED BY <1>1, <1>2, <1>4 DEF InLaneOf

LEMMA LookEndsOK ==
  ASSUME IInv, NEW s \in Server, LookEnds(s)
  PROVE  IInv'
<1> USE DEF IInv
<1>1. /\ lane[s].running = Look[s] /\ Land(s)
      /\ LanesBecome(NextTurn(s), Overslept(s), {}, {})
      /\ hold' \subseteq hold \cup {s} /\ hold \ {s} \subseteq hold'
      /\ offline' \subseteq offline \cup {s}
      /\ UNCHANGED <<total, calls>>
      BY DEF LookEnds
<1>2. s \in flying /\ s \notin hold
      BY <1>1 DEF LooksAreInLanes, InLaneOf, HeldAreIdle
<1>3. /\ LanesOK' /\ asked' \subseteq asked
      /\ \A t \in Server \ {s} : lane'[t] = lane[t]
      /\ lane'[s].running \in Waiting(lane[s]) \cup {Free}
      /\ Waiting(lane'[s]) \subseteq Waiting(lane[s])
      BY <1>1, NextTurnOK
<1>4. RestOK' /\ HeldAreIdle' /\ CountersAreTheFlights'
      BY <1>1, <1>2, <1>3, LandOK DEF RestOK
<1>5. flying' = flying \ {s} /\ again' = again \ {s} /\ due' = Replanned(s)
      BY <1>1 DEF Land
<1>6. LooksAreInLanes'
  <2>1. Look[s] \notin Waiting(lane[s]) /\ Look[s] # Free
        BY <1>1, JobsApart DEF LanesOK, LaneOK
  <2>2. Look[s] \notin InLaneOf(s)'
        BY <1>3, <2>1 DEF InLaneOf
  <2>3. \A t \in Server \ {s} : InLaneOf(t)' = InLaneOf(t)
        BY <1>3 DEF InLaneOf
  <2> QED BY <1>5, <2>2, <2>3 DEF LooksAreInLanes
<1>7. AskedIsKept'
  <2>1. /\ DOMAIN due \ {s} \subseteq DOMAIN due'
        /\ s \notin hold' /\ (s \in DOMAIN due \/ s \in again) => s \in DOMAIN due'
        BY <1>5, ReplannedOK DEF RestOK
  <2>2. ASSUME NEW t \in asked'
        PROVE  t \in DOMAIN due' \/ t \in hold' \/ t \in again'
               \/ (t \in flying' /\ lane'[t].running # Look[t])
    <3>1. /\ t \in Server
          /\ t \in DOMAIN due \/ t \in hold \/ t \in again
             \/ (t \in flying /\ lane[t].running # Look[t])
      <4>1. t \in asked
            BY <1>3, <2>2
      <4> QED BY <4>1, AskedParts
    <3>2. CASE t = s
          BY <1>1, <1>2, <2>1, <3>1, <3>2
    <3>3. CASE t # s
          BY <1>1, <1>3, <1>5, <2>1, <3>1, <3>3
    <3> QED BY <3>2, <3>3
  <2> QED BY <2>2 DEF AskedIsKept, Overdue
<1> QED BY <1>3, <1>4, <1>6, <1>7

LEMMA CommandEndsOK ==
  ASSUME IInv, NEW c \in Command, CommandEnds(c)
  PROVE  IInv'
<1> USE DEF IInv
<1> DEFINE s == LaneOf[c]
<1>1. /\ lane[s].running = c
      /\ LanesBecome(NextTurn(s), Overslept(s), {}, {c})
      /\ UNCHANGED <<hold, offline, total, calls>>
      /\ Look[s] \in Overslept(s) => Land(s)
      /\ Look[s] \notin Overslept(s) => UNCHANGED <<looks, due>>
      BY DEF CommandEnds
<1>2. s \in Server /\ c # Look[s] /\ Look[s] \in Jobs(s) /\ Look[s] # Free
      BY JobsApart
<1> HIDE DEF s
<1>3. /\ LanesOK' /\ asked' \subseteq asked
      /\ \A t \in asked' : Look[t] \notin Begun \cup Overslept(s)
      /\ \A t \in Server \ {s} : lane'[t] = lane[t]
      /\ lane'[s].running \in Waiting(lane[s]) \cup {Free}
      /\ Waiting(lane'[s]) \subseteq Waiting(lane[s])
      /\ Look[s] \in Overslept(s) <=> Look[s] \in Waiting(lane[s]) /\ Look[s] \notin InLaneOf(s)'
      BY <1>1, <1>2, NextTurnOK
<1>4. /\ Look[s] \in Overslept(s) <=> Look[s] \in Waiting(lane[s]) /\ Look[s] \notin InLaneOf(s)'
      /\ Look[s] \in Begun <=> lane'[s].running = Look[s]
      BY <1>1, <1>2, <1>3, BegunInItsLane
<1>5. s \in flying <=> Look[s] \in Waiting(lane[s])
      BY <1>1, <1>2 DEF LooksAreInLanes, InLaneOf
<1>6. InLaneOf(s)' \subseteq InLaneOf(s) \cup {Free}
      BY <1>3 DEF InLaneOf
<1>7. \A t \in Server \ {s} : InLaneOf(t)' = InLaneOf(t)
      BY <1>3 DEF InLaneOf
<1>8. ASSUME Look[s] \in Overslept(s) PROVE IInv'
  <2>1. s \in flying /\ Land(s)
        BY <1>1, <1>4, <1>5, <1>8
  <2>2. RestOK' /\ HeldAreIdle' /\ CountersAreTheFlights'
        BY <1>1, <1>3, <2>1, LandOK DEF RestOK
  <2>3. flying' = flying \ {s} /\ again' = again \ {s} /\ due' = Replanned(s)
        BY <2>1 DEF Land
  <2>4. LooksAreInLanes'
        BY <1>4, <1>7, <1>8, <2>3 DEF LooksAreInLanes
  <2>5. DOMAIN due \ {s} \subseteq DOMAIN due'
        BY <2>3, ReplannedOK DEF RestOK
  <2>6. s \notin asked'
        BY <1>3, <1>8
  <2>7. AskedIsKept'
        BY <1>1, <1>3, <2>3, <2>5, <2>6 DEF AskedIsKept, Overdue, RestOK
  <2> QED BY <1>3, <2>2, <2>4, <2>7
<1>9. ASSUME Look[s] \notin Overslept(s) PROVE IInv'
  <2>1. UNCHANGED <<looks, due>>
        BY <1>1, <1>9
  <2>2. RestOK' /\ HeldAreIdle' /\ CountersAreTheFlights'
        BY <1>1, <1>3, <2>1 DEF RestOK, HeldAreIdle, CountersAreTheFlights, looks
  <2>3. Look[s] \in InLaneOf(s)' <=> Look[s] \in InLaneOf(s)
        BY <1>1, <1>2, <1>4, <1>6, <1>9 DEF InLaneOf
  <2>4. LooksAreInLanes'
        BY <1>7, <2>1, <2>3 DEF LooksAreInLanes, looks
  <2>5. s \in asked' => lane'[s].running # Look[s]
        BY <1>3, <1>4
  <2>6. AskedIsKept'
        BY <1>1, <1>3, <2>1, <2>5 DEF AskedIsKept, Overdue, RestOK, looks
  <2> QED BY <1>3, <2>2, <2>4, <2>6
<1> QED BY <1>8, <1>9

(* What a beat does to the lanes: whom it picked joins its lane, unless    *)
(* the lane is full.                                                       *)
Launches(picked, launched) ==
    /\ launched = {s \in picked : ~Full(lane[s])}
    /\ LanesBecome(Queued(launched), Outwaited(launched),
                   {Look[s] : s \in picked \ launched}, {})

(* A beat: each server it launches waits for its lane or has it, and each  *)
(* other lane stays as it was.                                             *)
LEMMA BeatLanes ==
  ASSUME IInv, NEW picked, picked \subseteq DOMAIN due \ flying,
         NEW launched, Launches(picked, launched)
  PROVE  /\ LanesOK' /\ asked' \subseteq asked
         /\ \A t \in asked' : Look[t] \notin Begun /\ t \notin picked \ launched
         /\ \A s \in Server \ launched : lane'[s] = lane[s]
         /\ Outwaited(launched) = {}
         /\ \A s \in launched : /\ Look[s] \in InLaneOf(s)'
                                /\ Waiting(lane[s]) \subseteq Waiting(lane'[s])
                                /\ Waiting(lane'[s]) \subseteq Waiting(lane[s]) \cup {Look[s]}
                                /\ lane'[s].running \in {lane[s].running, Look[s]}
                                /\ lane[s].running # Free => lane'[s].running = lane[s].running
<1> USE DEF IInv
<1> DEFINE joined(s) == Pumped(WithLook(s), late)
           new == Queued(launched)
           rejected == Outwaited(launched)
           refused == {Look[s] : s \in picked \ launched}
<1>1. launched \subseteq Server /\ \A s \in launched : ~Full(lane[s]) /\ s \notin flying
      BY DEF RestOK, Launches
<1>2. ASSUME NEW s \in launched
      PROVE  /\ LaneOK(s, joined(s))
             /\ lane[s].running = Free =>
                  /\ joined(s).running = Look[s]
                  /\ Waiting(joined(s)) = {} /\ Waiting(lane[s]) = {}
             /\ lane[s].running # Free =>
                  /\ joined(s).running = lane[s].running
                  /\ Waiting(joined(s)) = Waiting(lane[s]) \cup {Look[s]}
             /\ Rejected(WithLook(s), late) = {}
  <2>1. LaneOK(s, lane[s]) /\ ~Full(lane[s]) /\ s \in Server
        BY <1>1 DEF LanesOK
  <2>2. Look[s] \in Jobs(s) /\ Look[s] \notin Waiting(lane[s]) \cup {lane[s].running}
        BY <1>1, JobsApart DEF LooksAreInLanes, InLaneOf
  <2>3. Look[s] \notin late
        BY <2>1, <2>2, WaitsToBeLate
  <2>4. lane[s].running = Free => Waiting(lane[s]) = {}
        BY <2>1 DEF LaneOK
  <2> QED BY <2>1, <2>2, <2>3, <2>4, JoinedLane, JoinedRejectsNobody DEF WithLook
<1>3. /\ DOMAIN new = Server
      /\ \A s \in Server \ launched : new[s] = lane[s]
      /\ \A s \in launched : new[s] = joined(s)
      BY <1>1 DEF Queued
<1>4. LanesBecome(new, rejected, refused, {}) /\ rejected = {}
  <2> HIDE DEF refused, new, joined
  <2>1. rejected = {}
        BY <1>2 DEF Outwaited
  <2>2. LanesBecome(new, rejected, refused, {})
    <3> USE DEF refused, new
    <3> QED BY DEF Launches
  <2> QED BY <2>1, <2>2
<1> HIDE DEF joined, new, rejected
<1>5. \A s \in Server : LaneOK(s, new[s])
      BY <1>2, <1>3 DEF LanesOK
<1>6. /\ LanesOK' /\ lane' = new /\ asked' \subseteq asked
      /\ \A t \in asked' : Look[t] \notin Begun \cup rejected \cup refused
  <2> HIDE DEF refused
  <2> QED BY <1>3, <1>4, <1>5, LanesBecameOK
<1>7. \A s \in launched : /\ Look[s] \in InLaneOf(s)'
                          /\ Waiting(lane[s]) \subseteq Waiting(lane'[s])
                          /\ Waiting(lane'[s]) \subseteq Waiting(lane[s]) \cup {Look[s]}
                          /\ lane'[s].running \in {lane[s].running, Look[s]}
                          /\ lane[s].running # Free => lane'[s].running = lane[s].running
      BY <1>2, <1>3, <1>6 DEF InLaneOf
<1>8. \A t \in asked' : Look[t] \notin Begun /\ t \notin picked \ launched
      BY <1>6
<1> QED BY <1>3, <1>4, <1>6, <1>7, <1>8 DEF rejected

(* What the beat picks, and what of it is offline, fits in what the budget *)
(* and the share of the offline have left: whoever of them came last found *)
(* room behind the others.                                                 *)
LEMMA PickedFit ==
  ASSUME IInv, NEW picked \in Picks
  PROVE  /\ Cardinality(picked) <= Left \/ picked = {}
         /\ Cardinality(picked \cap offline) <= OfflineLeft \/ picked \cap offline = {}
<1> DEFINE ahead(s) == picked \cap due[s]
<1>1. /\ picked \subseteq DOMAIN due \ flying
      /\ \A s \in picked : /\ Cardinality(ahead(s)) < Left
                           /\ s \in offline => Cardinality(ahead(s) \cap offline) < OfflineLeft
      BY DEF Picks
<1>2. /\ IsQueue(due) /\ DOMAIN due \subseteq Server
      /\ IsFiniteSet(DOMAIN due) /\ picked \subseteq Server
      BY <1>1, Finite DEF IInv, RestOK
<1>3. /\ Left \in Nat /\ OfflineLeft \in Nat
  <2>1. active \in Nat /\ activeOffline \in Nat /\ total \in Nat
        BY InvariantParts, BudgetAssumption DEF TypeOK
  <2> QED BY <2>1 DEF Left, OfflineLeft, Limit
<1>4. ASSUME NEW T, T \subseteq picked, T # {}
      PROVE  \E s \in T : T = (ahead(s) \cap T) \cup {s} /\ s \notin ahead(s)
  <2>1. PICK s \in T : \A t \in T \ {s} : t \in due[s]
    <3>1. T \subseteq DOMAIN due
          BY <1>1, <1>4
    <3> QED BY <1>2, <1>4, <3>1, LastInQueue
  <2>2. s \notin due[s]
        BY <1>1, <1>2, <1>4 DEF IsQueue
  <2> QED BY <1>4, <2>1, <2>2
<1>5. ASSUME picked # {} PROVE Cardinality(picked) <= Left
  <2>1. PICK s \in picked : picked = (ahead(s) \cap picked) \cup {s} /\ s \notin ahead(s)
        BY <1>4, <1>5
  <2>2. picked = ahead(s) \cup {s}
        BY <2>1
  <2>3. IsFiniteSet(ahead(s)) /\ Cardinality(ahead(s)) \in Nat
        BY <1>2, Finite
  <2>4. Cardinality(ahead(s)) < Left
        BY <1>1
  <2> HIDE DEF ahead
  <2>5. Cardinality(picked) = Cardinality(ahead(s)) + 1
        BY <2>1, <2>2, <2>3, FS_AddElement
  <2> QED BY <1>3, <2>3, <2>4, <2>5
<1>6. ASSUME picked \cap offline # {} PROVE Cardinality(picked \cap offline) <= OfflineLeft
  <2> DEFINE T == picked \cap offline
  <2>1. PICK s \in T : T = (ahead(s) \cap T) \cup {s} /\ s \notin ahead(s)
        BY <1>4, <1>6
  <2> DEFINE A == ahead(s) \cap offline
  <2>2. T = A \cup {s} /\ s \notin A
        BY <2>1
  <2>3. IsFiniteSet(A) /\ Cardinality(A) \in Nat
        BY <1>2, Finite
  <2>4. Cardinality(A) < OfflineLeft
        BY <1>1
  <2> HIDE DEF A, T
  <2>5. Cardinality(T) = Cardinality(A) + 1
        BY <2>2, <2>3, FS_AddElement
  <2> QED BY <1>3, <2>3, <2>4, <2>5 DEF T
<1> QED BY <1>5, <1>6

(* The counters grow by what the beat launches, and no further than the    *)
(* budget and the share of the offline.                                    *)
LEMMA LaunchedFit ==
  ASSUME IInv, NEW picked \in Picks, NEW launched, launched \subseteq picked
  PROVE  LET off == launched \cap offline IN
         /\ Cardinality(flying \cup launched) = active + Cardinality(launched)
         /\ Cardinality(counted \cup off) = activeOffline + Cardinality(off)
         /\ launched # {} => Cardinality(flying \cup launched) <= total
         /\ off # {} => Cardinality(counted \cup off) <= Limit
<1> DEFINE off == launched \cap offline
<1>1. /\ picked \subseteq Server /\ flying \subseteq Server /\ counted \subseteq flying
      /\ flying \cap launched = {} /\ counted \cap off = {}
      BY DEF Picks, IInv, RestOK
<1>2. /\ active = Cardinality(flying) /\ activeOffline = Cardinality(counted)
      /\ active \in Nat /\ activeOffline \in Nat /\ total \in Nat
      BY InvariantParts, BudgetAssumption DEF IInv, CountersAreTheFlights, TypeOK
<1>3. ASSUME NEW S, S \subseteq Server, NEW T, T \subseteq Server, S \cap T = {}
      PROVE  Cardinality(S \cup T) = Cardinality(S) + Cardinality(T)
  <2>1. IsFiniteSet(S) /\ IsFiniteSet(T) /\ Cardinality(S) \in Nat /\ Cardinality(T) \in Nat
        BY <1>3, Finite
  <2>2. Cardinality(S \cup T) = Cardinality(S) + Cardinality(T) - Cardinality(S \cap T)
        BY <2>1, FS_Union
  <2>3. Cardinality(S \cap T) = 0
        BY <1>3, FS_EmptySet
  <2> QED BY <2>1, <2>2, <2>3
<1>4. Cardinality(flying \cup launched) = active + Cardinality(launched)
      BY <1>1, <1>2, <1>3
<1>5. Cardinality(counted \cup off) = activeOffline + Cardinality(off)
      BY <1>1, <1>2, <1>3
<1>6. /\ Cardinality(launched) <= Cardinality(picked)
      /\ Cardinality(off) <= Cardinality(picked \cap offline)
      /\ Cardinality(launched) \in Nat /\ Cardinality(off) \in Nat
      /\ Cardinality(picked) \in Nat /\ Cardinality(picked \cap offline) \in Nat
  <2>1. /\ IsFiniteSet(picked) /\ IsFiniteSet(picked \cap offline)
        /\ launched \in SUBSET picked /\ off \in SUBSET (picked \cap offline)
        BY <1>1, Finite
  <2>2. Cardinality(launched) <= Cardinality(picked)
        BY <2>1, FS_Subset
  <2>3. Cardinality(off) <= Cardinality(picked \cap offline)
    <3> HIDE DEF off
    <3> QED BY <2>1, FS_Subset
  <2>4. /\ Cardinality(launched) \in Nat /\ Cardinality(off) \in Nat
        /\ Cardinality(picked) \in Nat /\ Cardinality(picked \cap offline) \in Nat
        BY <1>1, Finite
  <2> QED BY <2>2, <2>3, <2>4
<1>7. ASSUME launched # {} PROVE Cardinality(flying \cup launched) <= total
  <2>1. Cardinality(picked) <= Left /\ Cardinality(picked) # 0
    <3>1. picked # {} /\ IsFiniteSet(picked)
          BY <1>1, <1>7, Finite
    <3> QED BY <3>1, PickedFit, FS_EmptySet
  <2> QED BY <1>2, <1>4, <1>6, <2>1 DEF Left
<1>8. ASSUME off # {} PROVE Cardinality(counted \cup off) <= Limit
  <2>1. Cardinality(picked \cap offline) <= OfflineLeft /\ Cardinality(picked \cap offline) # 0
    <3>1. picked \cap offline # {} /\ IsFiniteSet(picked \cap offline)
          BY <1>1, <1>8, Finite
    <3> QED BY <3>1, PickedFit, FS_EmptySet
  <2>2. Limit \in Nat
        BY <1>2 DEF Limit
  <2> HIDE DEF off
  <2> QED BY <1>2, <1>5, <1>6, <2>1, <2>2 DEF OfflineLeft
<1> QED BY <1>4, <1>5, <1>7, <1>8

LEMMA BeatOK ==
  ASSUME IInv, Beat
  PROVE  IInv'
<1> USE DEF IInv
<1>1. PICK picked \in Picks :
        LET launched == {s \in picked : ~Full(lane[s])} IN
        /\ LanesBecome(Queued(launched), Outwaited(launched),
                       {Look[s] : s \in picked \ launched}, {})
        /\ flying' = flying \cup launched
        /\ counted' = counted \cup (launched \cap offline)
        /\ active' = active + Cardinality(launched)
        /\ activeOffline' = activeOffline + Cardinality(launched \cap offline)
        /\ due' = Without(due, picked)
        /\ UNCHANGED <<again, hold, offline, total, calls>>
      BY DEF Beat
<1>2. PICK launched : launched = {s \in picked : ~Full(lane[s])}
      OBVIOUS
<1>3. /\ flying' = flying \cup launched
      /\ counted' = counted \cup (launched \cap offline)
      /\ active' = active + Cardinality(launched)
      /\ activeOffline' = activeOffline + Cardinality(launched \cap offline)
      /\ due' = Without(due, picked)
      /\ UNCHANGED <<again, hold, offline, total, calls>>
      BY <1>1, <1>2
<1>4. /\ launched \subseteq picked /\ picked \subseteq DOMAIN due \ flying
      /\ DOMAIN due \subseteq Server
      BY <1>2 DEF Picks, RestOK
<1>5. /\ LanesOK' /\ asked' \subseteq asked
      /\ \A t \in asked' : Look[t] \notin Begun /\ t \notin picked \ launched
      /\ \A s \in Server \ launched : lane'[s] = lane[s]
      /\ \A s \in launched : /\ Look[s] \in InLaneOf(s)'
                             /\ Waiting(lane[s]) \subseteq Waiting(lane'[s])
                             /\ lane'[s].running \in {lane[s].running, Look[s]}
                             /\ lane[s].running # Free => lane'[s].running = lane[s].running
  <2>1. Launches(picked, launched)
        BY <1>1, <1>2 DEF Launches
  <2> QED BY <1>4, <2>1, BeatLanes
<1>6. IsQueue(due') /\ DOMAIN due' = DOMAIN due \ picked
      BY <1>3, QueueWithout DEF RestOK
<1>7. LooksAreInLanes'
  <2>1. \A s \in Server \ launched : InLaneOf(s)' = InLaneOf(s)
        BY <1>5 DEF InLaneOf
  <2> QED BY <1>3, <1>5, <2>1 DEF LooksAreInLanes
<1>8. RestOK'
      BY <1>3, <1>4, <1>5, <1>6 DEF RestOK
<1>9. HeldAreIdle'
      BY <1>3, <1>4, <1>6 DEF HeldAreIdle
<1>10. CountersAreTheFlights'
      BY <1>3, <1>4, LaunchedFit DEF CountersAreTheFlights
<1>11. AskedIsKept'
  <2>1. ASSUME NEW t \in asked'
        PROVE  t \in DOMAIN due' \/ t \in hold' \/ t \in again'
               \/ (t \in flying' /\ lane'[t].running # Look[t])
    <3>1. /\ t \in Server
          /\ t \in DOMAIN due \/ t \in hold \/ t \in again
             \/ (t \in flying /\ lane[t].running # Look[t])
      <4>1. t \in asked
            BY <1>5, <2>1
      <4> QED BY <4>1, AskedParts
    <3>2. CASE t \in launched
      <4>1. Look[t] \notin Begun /\ Look[t] \in Jobs(t)
            BY <1>5, <2>1, <3>1, JobsApart
      <4>2. lane[t].running # Look[t]
            BY <1>4, <3>1, <3>2 DEF LooksAreInLanes, InLaneOf
      <4>3. lane'[t].running # Look[t]
            BY <1>5, <3>1, <4>1, <4>2, BegunInItsLane
      <4> QED BY <1>3, <3>2, <4>3
    <3>3. CASE t \notin launched
          BY <1>3, <1>5, <1>6, <2>1, <3>1, <3>3
    <3> QED BY <3>2, <3>3
  <2> QED BY <2>1 DEF AskedIsKept, Overdue
<1> QED BY <1>5, <1>7, <1>8, <1>9, <1>10, <1>11

LEMMA SameOK ==
  ASSUME IInv, UNCHANGED vars
  PROVE  IInv'
<1> USE DEF IInv
<1>1. UNCHANGED <<lanes, looks, due, hold, offline, total, calls>>
      BY DEF vars
<1>2. LanesOK' /\ LooksAreInLanes'
      BY <1>1, SameLanesOK DEF LanesOK, lanes, looks
<1> QED BY <1>1, <1>2 DEF RestOK, HeldAreIdle, CountersAreTheFlights, AskedIsKept, Overdue,
                          lanes, looks

LEMMA NextInvariant ==
  ASSUME IInv, [Next]_vars
  PROVE  IInv'
BY BecomeDueOK, LookEndsOK, HoldEndsOK, ObserveSoonOK, ExpireOK, SendOK, CommandEndsOK,
   BeatOK, NewSettingsOK, SameOK DEF Next

LEMMA InvariantHolds ==
  Spec => []IInv
<1>1. IInv /\ [Next]_vars => IInv'
      BY NextInvariant
<1> QED BY InitInvariant, <1>1, PTL DEF Spec

-----------------------------------------------------------------------------
(* The theorems *)

(* The type of every variable (observable in poller.ts, poller-schedule.ts *)
(* and dispatcher.ts): among the rest, that a lane never holds more than   *)
(* it may, nor a job twice.                                                *)
THEOREM TypeCorrect == Spec => []TypeOK
BY InvariantHolds, InvariantParts, PTL

(* No slot of the budget is lost or given twice: the scheduler's counters  *)
(* (state.active, state.offlineActive of poller.ts) are the looks in       *)
(* flight, however each ended and whatever became of its server meanwhile. *)
THEOREM CountersHold == Spec => []CountersAreTheFlights
<1>1. IInv => CountersAreTheFlights
      BY DEF IInv
<1> QED BY <1>1, InvariantHolds, PTL

(* A look somebody asked for (observeSoon) is never forgotten.             *)
THEOREM AskedHolds == Spec => []AskedIsKept
<1>1. IInv => AskedIsKept
      BY DEF IInv
<1> QED BY <1>1, InvariantHolds, PTL

(* A lane that is free has nobody waiting for it (pump, dispatcher.ts).    *)
THEOREM NobodyWaits == Spec => []NobodyWaitsForNothing
BY InvariantHolds, InvariantParts, PTL

(* What pickDue launches keeps within the budget, and the offline within   *)
(* their share of it, whatever the settings became meanwhile.              *)
THEOREM ShareHolds == Spec => LaunchesKeepTheShare
<1> DEFINE Kept == /\ flying' \subseteq flying \/ Cardinality(flying') <= total
                   /\ counted' \subseteq counted \/ Cardinality(counted') <= Limit
<1>1. ASSUME IInv, Beat PROVE Kept
  <2>1. PICK picked \in Picks :
          LET launched == {s \in picked : ~Full(lane[s])} IN
          /\ flying' = flying \cup launched
          /\ counted' = counted \cup (launched \cap offline)
        BY <1>1 DEF Beat
  <2>2. PICK launched : launched = {s \in picked : ~Full(lane[s])}
        OBVIOUS
  <2>3. /\ flying' = flying \cup launched
        /\ counted' = counted \cup (launched \cap offline)
        /\ launched \subseteq picked
        BY <2>1, <2>2
  <2>4. /\ launched # {} => Cardinality(flying') <= total
        /\ launched \cap offline # {} => Cardinality(counted') <= Limit
        BY <1>1, <2>3, LaunchedFit
  <2> QED BY <2>3, <2>4
<1>2. ASSUME [Next]_vars, ~Beat PROVE flying' \subseteq flying /\ counted' \subseteq counted
  <2>1. ASSUME NEW s \in Server, Land(s) PROVE flying' \subseteq flying /\ counted' \subseteq counted
        BY <2>1 DEF Land
  <2>2. ASSUME UNCHANGED looks PROVE flying' \subseteq flying /\ counted' \subseteq counted
        BY <2>2 DEF looks
  <2>3. CASE \E s \in Server : LookEnds(s)
        BY <2>1, <2>3 DEF LookEnds
  <2>4. CASE \E c \in Command : CommandEnds(c)
    <3>1. PICK c \in Command : CommandEnds(c)
          BY <2>4
    <3>2. LaneOf[c] \in Server /\ (Land(LaneOf[c]) \/ UNCHANGED looks)
          BY <3>1, JobsApart DEF CommandEnds
    <3> QED BY <2>1, <2>2, <3>2
  <2>5. CASE \E s \in Server : ObserveSoon(s)
        BY <2>5 DEF ObserveSoon
  <2>6. CASE \/ \E s \in Server : BecomeDue(s) \/ HoldEnds(s) \/ Expire(s)
             \/ \E c \in Command : Send(c)
             \/ NewSettings \/ UNCHANGED vars
        BY <2>2, <2>6 DEF BecomeDue, HoldEnds, Expire, Send, NewSettings, vars
  <2> QED BY <1>2, <2>3, <2>4, <2>5, <2>6 DEF Next
<1>3. IInv /\ [Next]_vars => [Kept]_vars
      BY <1>1, <1>2
<1> QED BY <1>3, InvariantHolds, PTL DEF Spec, LaunchesKeepTheShare

(* Who was told anything is in no lane.                                    *)
ToldIsGone == \A c \in Command : answer[c] # "none" => ~InLane(c)

(* The lanes become others: everybody who leaves one is answered, once and *)
(* as it left, if the pump rejected the late who left and no others, if    *)
(* who ended had run, and if whoever came or was refused was new.          *)
LEMMA EveryoneHears ==
  ASSUME LanesOK, ToldIsGone,
         NEW new, NEW rejected, NEW refused, NEW done, LanesBecome(new, rejected, refused, done),
         \A c \in Command :
           /\ c \in rejected <=> c \in Waiting(lane[LaneOf[c]]) /\ ~InLane(c)'
           /\ c \in rejected => c \in late
           /\ c \in done <=> lane[LaneOf[c]].running = c /\ ~InLane(c)'
           /\ c \in refused => answer[c] = "none" /\ ~InLane(c) /\ ~InLane(c)'
           /\ InLane(c)' /\ ~InLane(c) => answer[c] = "none"
           /\ c \in late => lane'[LaneOf[c]].running # c
  PROVE  ToldIsGone' /\ \A c \in Command : AnsweredOnce(c)
<1> SUFFICES ASSUME NEW c \in Command
             PROVE  (answer'[c] # "none" => ~InLane(c)') /\ AnsweredOnce(c)
    BY DEF ToldIsGone
<1>1. answer'[c] = IF c \in rejected THEN "dropped"
                   ELSE IF c \in refused THEN "full"
                   ELSE IF c \in done THEN "done" ELSE answer[c]
      BY DEF LanesBecome
<1>2. c \in Waiting(lane[LaneOf[c]]) => lane[LaneOf[c]].running # c
      BY JobsApart DEF LanesOK, LaneOK
<1>3. InLane(c) <=> c \in Waiting(lane[LaneOf[c]]) \/ lane[LaneOf[c]].running = c
      BY DEF InLane
<1>4. answer[c] # "none" => ~InLane(c)
      BY DEF ToldIsGone
<1> QED BY <1>1, <1>2, <1>3, <1>4 DEF AnsweredOnce

(* Nothing of the lanes moves, but that a deadline may pass.               *)
LEMMA NobodyMoves ==
  ASSUME LanesOK, ToldIsGone, UNCHANGED <<lane, answer>>
  PROVE  ToldIsGone' /\ \A c \in Command : AnsweredOnce(c)
<1> SUFFICES ASSUME NEW c \in Command
             PROVE  (InLane(c)' <=> InLane(c)) /\ (c \in late => lane[LaneOf[c]].running # c)
    BY DEF ToldIsGone, AnsweredOnce
<1>1. c \in late => c \in Waiting(lane[LaneOf[c]])
      BY JobsApart, WaitsToBeLate
<1> QED BY <1>1, JobsApart DEF InLane, LanesOK, LaneOK

LEMMA BeatHears ==
  ASSUME IInv, ToldIsGone, Beat
  PROVE  ToldIsGone' /\ \A c \in Command : AnsweredOnce(c)
<1>1. PICK picked \in Picks :
        LET launched == {s \in picked : ~Full(lane[s])} IN
          LanesBecome(Queued(launched), Outwaited(launched),
                      {Look[s] : s \in picked \ launched}, {})
      BY DEF Beat
<1>2. PICK launched : launched = {s \in picked : ~Full(lane[s])}
      OBVIOUS
<1>3. PICK rejected : rejected = Outwaited(launched)
      OBVIOUS
<1>4. /\ Launches(picked, launched)
      /\ LanesBecome(Queued(launched), rejected, {Look[s] : s \in picked \ launched}, {})
      BY <1>1, <1>2, <1>3 DEF Launches
<1>5. /\ picked \subseteq DOMAIN due \ flying /\ launched \subseteq Server
      /\ DOMAIN due \subseteq Server /\ picked \subseteq Server
      BY <1>2 DEF Picks, IInv, RestOK
<1>6. /\ rejected = {}
      /\ \A s \in Server \ launched : lane'[s] = lane[s]
      /\ \A s \in launched : /\ Waiting(lane[s]) \subseteq Waiting(lane'[s])
                             /\ Waiting(lane'[s]) \subseteq Waiting(lane[s]) \cup {Look[s]}
                             /\ lane'[s].running \in {lane[s].running, Look[s]}
                             /\ lane[s].running # Free => lane'[s].running = lane[s].running
  <2>1. Launches(picked, launched) /\ picked \subseteq DOMAIN due \ flying
        BY <1>4, <1>5
  <2>2. IInv
        OBVIOUS
  <2>3. /\ Outwaited(launched) = {}
        /\ \A s \in Server \ launched : lane'[s] = lane[s]
        BY <2>1, <2>2, BeatLanes
  <2>4. ASSUME NEW s \in launched
        PROVE  /\ Waiting(lane[s]) \subseteq Waiting(lane'[s])
               /\ Waiting(lane'[s]) \subseteq Waiting(lane[s]) \cup {Look[s]}
               /\ lane'[s].running \in {lane[s].running, Look[s]}
               /\ lane[s].running # Free => lane'[s].running = lane[s].running
        BY <2>1, <2>2, BeatLanes
  <2> QED BY <1>3, <2>3, <2>4
<1>7. ASSUME NEW c \in Command
      PROVE  /\ InLane(c)' <=> InLane(c)
             /\ c \in late => lane'[LaneOf[c]].running # c
             /\ \A s \in Server : Look[s] # c
  <2>1. LaneOf[c] \in Server /\ c # Free /\ \A s \in Server : Look[s] # c
        BY JobsApart
  <2>2. c \in late => c \in Waiting(lane[LaneOf[c]]) /\ lane[LaneOf[c]].running # c
        BY JobsApart, WaitsToBeLate DEF IInv, LanesOK, LaneOK
  <2> QED BY <1>6, <2>1, <2>2 DEF InLane
<1>8. LanesOK
      BY DEF IInv
<1>9. ASSUME NEW c \in Command
      PROVE  /\ c \notin rejected /\ c \notin {Look[s] : s \in picked \ launched}
             /\ c \in Waiting(lane[LaneOf[c]]) => InLane(c)'
             /\ lane[LaneOf[c]].running = c => InLane(c)'
      BY <1>5, <1>6, <1>7 DEF InLane
<1> HIDE DEF InLane
<1> QED BY <1>4, <1>7, <1>8, <1>9, EveryoneHears

LEMMA SendHears ==
  ASSUME IInv, ToldIsGone, NEW d \in Command, Send(d)
  PROVE  ToldIsGone' /\ \A c \in Command : AnsweredOnce(c)
<1> DEFINE s == LaneOf[d]
<1>1. LanesOK /\ s \in Server /\ d \in Jobs(s)
      BY JobsApart DEF IInv
<1>2. answer[d] = "none" /\ lane[s].running # d /\ d \notin Waiting(lane[s])
      BY DEF Send
<1>3. ASSUME NEW c \in Command, c \in late
      PROVE  c \in Waiting(lane[LaneOf[c]]) /\ lane[LaneOf[c]].running # c /\ c # d
      BY <1>1, <1>2, <1>3, JobsApart, WaitsToBeLate DEF LanesOK, LaneOK
<1>4. CASE Full(lane[s])
  <2>1. LanesBecome(lane, {}, {d}, {}) /\ lane' = lane
        BY <1>4 DEF Send, LanesBecome
  <2>2. \A c \in Command : InLane(c)' <=> InLane(c)
        BY <2>1 DEF InLane
  <2>3. ~InLane(d)
        BY <1>2 DEF InLane
  <2>4. \A c \in Command : /\ c \in Waiting(lane[LaneOf[c]]) => InLane(c)
                           /\ lane[LaneOf[c]].running = c => InLane(c)
        BY DEF InLane
  <2>5. \A c \in Command : c \in late => lane'[LaneOf[c]].running # c
        BY <1>3, <2>1
  <2> QED BY <1>1, <1>2, <2>1, <2>2, <2>3, <2>4, <2>5, EveryoneHears
<1>5. CASE ~Full(lane[s])
  <2> DEFINE joined == Pumped(Joined(lane[s], d), late)
             new == [lane EXCEPT ![s] = joined]
  <2>1. LanesBecome(new, Rejected(Joined(lane[s], d), late), {}, {})
        BY <1>5 DEF Send
  <2>2. LaneOK(s, lane[s]) /\ d \notin late
        BY <1>1, <1>2, WaitsToBeLate DEF LanesOK
  <2>3. /\ lane[s].running = Free => joined.running = d /\ Waiting(joined) = {}
        /\ lane[s].running # Free => /\ joined.running = lane[s].running
                                     /\ Waiting(joined) = Waiting(lane[s]) \cup {d}
        /\ Rejected(Joined(lane[s], d), late) = {}
    <3> HIDE DEF s
    <3> QED BY <1>1, <1>2, <1>5, <2>2, JoinedLane, JoinedRejectsNobody
  <2>4. lane'[s] = joined /\ \A t \in Server \ {s} : lane'[t] = lane[t]
        BY <1>1, <2>1 DEF LanesBecome, LanesOK
  <2>5. lane[s].running = Free => Waiting(lane[s]) = {}
        BY <2>2 DEF LaneOK
  <2>6. LanesBecome(new, {}, {}, {})
        BY <2>1, <2>3
  <2> HIDE DEF joined, new, s
  <2>7. ASSUME NEW c \in Command
        PROVE  /\ InLane(c) => InLane(c)'
               /\ InLane(c)' => InLane(c) \/ c = d
               /\ lane'[LaneOf[c]].running \in {lane[LaneOf[c]].running, d}
    <3>1. LaneOf[c] \in Server /\ c # Free
          BY JobsApart
    <3> QED BY <2>3, <2>4, <2>5, <3>1 DEF InLane
  <2>8. \A c \in Command : c \in late => lane'[LaneOf[c]].running # c
        BY <1>3, <2>7
  <2>9. \A c \in Command : /\ c \in Waiting(lane[LaneOf[c]]) => InLane(c)
                           /\ lane[LaneOf[c]].running = c => InLane(c)
        BY DEF InLane
  <2> QED BY <1>1, <1>2, <2>6, <2>7, <2>8, <2>9, EveryoneHears
<1> QED BY <1>4, <1>5

LEMMA NextTurnHears ==
  ASSUME IInv, ToldIsGone, NEW s \in Server, NEW done,
         LanesBecome(NextTurn(s), Overslept(s), {}, done),
         \A c \in Command : c \in done <=> lane[s].running = c
  PROVE  ToldIsGone' /\ \A c \in Command : AnsweredOnce(c)
<1>1. LanesOK
      BY DEF IInv
<1>2. /\ \A t \in Server \ {s} : lane'[t] = lane[t]
      /\ lane'[s].running \in Waiting(lane[s]) \cup {Free}
      /\ Waiting(lane'[s]) \subseteq Waiting(lane[s])
      /\ Overslept(s) = Waiting(lane[s]) \ InLaneOf(s)'
      /\ Overslept(s) \subseteq late
      /\ lane'[s].running # Free => lane'[s].running \notin late
      BY <1>1, NextTurnOK
<1>3. ASSUME NEW c \in Command
      PROVE  /\ LaneOf[c] \in Server /\ c # Free
             /\ c \in late => lane[LaneOf[c]].running # c
             /\ c \in Waiting(lane[LaneOf[c]]) => lane[LaneOf[c]].running # c
             /\ c \in Waiting(lane[s]) \cup {lane[s].running} => LaneOf[c] = s
  <2>1. LaneOf[c] \in Server /\ c # Free /\ c \in Jobs(LaneOf[c])
        BY JobsApart
  <2>2. c \in late => c \in Waiting(lane[LaneOf[c]])
        BY <1>1, <2>1, WaitsToBeLate
  <2>3. c \in Waiting(lane[LaneOf[c]]) => lane[LaneOf[c]].running # c
        BY <1>1, <2>1 DEF LanesOK, LaneOK
  <2>4. c \in Waiting(lane[s]) \cup {lane[s].running} => LaneOf[c] = s
        BY <1>1, <2>1, JobsApart DEF LanesOK, LaneOK
  <2> QED BY <2>1, <2>2, <2>3, <2>4
<1>4. ASSUME NEW c \in Command
      PROVE  /\ c \in Overslept(s) <=> c \in Waiting(lane[LaneOf[c]]) /\ ~InLane(c)'
             /\ c \in Overslept(s) => c \in late
             /\ c \in done <=> lane[LaneOf[c]].running = c /\ ~InLane(c)'
             /\ InLane(c)' => InLane(c)
             /\ c \in late => lane'[LaneOf[c]].running # c
  <2>1. CASE LaneOf[c] = s
        BY <1>2, <1>3, <2>1 DEF InLane, InLaneOf
  <2>2. CASE LaneOf[c] # s
        BY <1>2, <1>3, <2>2 DEF InLane, InLaneOf
  <2> QED BY <2>1, <2>2
<1> QED BY <1>1, <1>4, EveryoneHears

(* Everyone is answered once, and as it went: who leaves a lane was run or *)
(* rejected by the pump (dispatcher.ts), nobody else is told so, and who   *)
(* was told anything is not run any more.                                  *)
THEOREM EveryoneIsAnswered == Spec => NobodyLeavesUnanswered
<1> DEFINE Inv == IInv /\ ToldIsGone
           Once == \A c \in Command : AnsweredOnce(c)
<1>1. Init => ToldIsGone
      BY DEF Init, ToldIsGone
<1>2. ASSUME Inv, [Next]_vars PROVE ToldIsGone' /\ Once
  <2>1. CASE \/ \E s \in Server : BecomeDue(s) \/ HoldEnds(s) \/ ObserveSoon(s) \/ Expire(s)
             \/ NewSettings \/ UNCHANGED vars
    <3>1. UNCHANGED <<lane, answer>>
          BY <2>1 DEF BecomeDue, HoldEnds, ObserveSoon, Expire, NewSettings, vars, lanes
    <3> QED BY <1>2, <3>1, NobodyMoves DEF IInv
  <2>2. ASSUME NEW s \in Server, LookEnds(s) PROVE ToldIsGone' /\ Once
    <3>1. /\ LanesBecome(NextTurn(s), Overslept(s), {}, {})
          /\ \A c \in Command : c \in {} <=> lane[s].running = c
          BY <2>2, JobsApart DEF LookEnds
    <3> QED BY <1>2, <3>1, NextTurnHears
  <2>3. ASSUME NEW d \in Command, CommandEnds(d) PROVE ToldIsGone' /\ Once
    <3>1. /\ LanesBecome(NextTurn(LaneOf[d]), Overslept(LaneOf[d]), {}, {d})
          /\ lane[LaneOf[d]].running = d /\ LaneOf[d] \in Server
          BY <2>3, JobsApart DEF CommandEnds
    <3>2. \A c \in Command : c \in {d} <=> lane[LaneOf[d]].running = c
          BY <3>1
    <3> QED BY <1>2, <3>1, <3>2, NextTurnHears
  <2> QED BY <1>2, <2>1, <2>2, <2>3, BeatHears, SendHears DEF Next
<1>3. Inv /\ [Next]_vars => Inv'
      BY <1>2, NextInvariant
<1>4. Inv /\ [Next]_vars => [Once]_vars
      BY <1>2
<1> HIDE DEF Once
<1>5. Spec => [][Once]_vars
      BY <1>1, <1>3, <1>4, InitInvariant, PTL DEF Spec
<1> QED BY <1>5 DEF NobodyLeavesUnanswered, Once

-----------------------------------------------------------------------------
Row == [map : Map, open : BOOLEAN, result : Result, late : BOOLEAN,
        during : SUBSET Match, lines : [Player -> Kills]]
Held == [of : Match, fresh : BOOLEAN]
Closed == [row : Nat, recent : BOOLEAN, byFeed : BOOLEAN]
Memory == [last : {None} \cup Last, held : {None} \cup Held, closed : {None} \cup Closed,
           tally : [Player -> {None} \cup Tally], failures : 0 .. OFFLINE_AFTER_FAILURES,
           status : BOOLEAN]
Game == [kind : Kind, n : Match, list : Match, map : Map, score : 0 .. MAX_SCORE,
         young : BOOLEAN, kills : [Player -> Kills]]
Past == [seen : [Player -> Kills], since : [Player -> 0 .. MAX_MATCHES],
         twice : SUBSET Player, missed : SUBSET Player, faults : 0 .. MaxFaults,
         calm : BOOLEAN, astray : BOOLEAN]

Types ==
    /\ game \in Game /\ mem \in Memory /\ past \in Past
    /\ look \in {None} \cup Looked
    /\ fix \in {None} \cup [row : Nat, of : Match]
    /\ rows \in Seq(Row)
    /\ mem.closed # None => mem.closed.row \in DOMAIN rows
    /\ fix # None => fix.row \in DOMAIN rows

(* No line is longer than what the looks saw, and the game's counter is    *)
(* the last one seen or started again.                                     *)
TallyHolds ==
    \A p \in Player :
        /\ game.kills[p] <= past.seen[p]
        /\ mem.tally[p] # None =>
              /\ TallyRow(mem.tally[p]) <= past.seen[p]
              /\ game.kills[p] \in {0, mem.tally[p].last}

(* The match whose result the feed has to tell: the one before, in the     *)
(* first minutes of a match, and later its own.                            *)
Coming == IF game.young THEN game.n - 1 ELSE game.n
Spans(S, n) == \E a, b \in S : a <= n /\ n <= b

GameHolds ==
    /\ game.list \in {game.n, game.n + 1}
    /\ game.list # game.n => ~game.young

LastHolds ==
    mem.last # None =>
        /\ mem.last.of <= game.n
        /\ mem.last.of = game.n => mem.last.map = game.map /\ mem.last.score <= game.score

(* An open row was seen in matches that began, and in an earlier one when  *)
(* its map is not the one on.                                              *)
OpenHolds(r) ==
    /\ r.result = NoResult /\ ~r.late
    /\ \A m \in r.during : m <= game.n
    /\ r.map = game.map \/ \E m \in r.during : m < game.n

RowsHold ==
    /\ \A i, j \in Open : i = j
    /\ \A i \in DOMAIN rows : rows[i].during # {}
    /\ \A i \in Open : OpenHolds(rows[i])

EndHolds(end) ==
    /\ end.by # "none"
    /\ end.by = "feed" => end.of = Coming
    /\ \A i \in Open : /\ end.by = "look" => end.of \in rows[i].during
                       /\ \E m \in rows[i].during : m < game.n

LookHolds ==
    IF look = None
    THEN mem.last # None => \A i \in Open : mem.last.of \in rows[i].during
    ELSE /\ look.of = game.n /\ look.young = game.young /\ look.map = game.map
         /\ mem.last # None => mem.last.of = look.of
         /\ look.ended # NoResult => EndHolds(look.ended)

HeldHolds == mem.held # None /\ mem.held.fresh => mem.held.of = Coming

ClosedHolds ==
    mem.closed # None /\ mem.closed.recent /\ ~rows[mem.closed.row].late =>
        Spans(rows[mem.closed.row].during, Coming)

FixHolds == fix # None /\ ~rows[fix.row].late => Spans(rows[fix.row].during, fix.of)

ResultsHold ==
    \A i \in DOMAIN rows :
        ~rows[i].late /\ rows[i].result # NoResult => Spans(rows[i].during, rows[i].result.of)

OInv == /\ GameHolds /\ LastHolds /\ RowsHold /\ LookHolds
        /\ HeldHolds /\ ClosedHolds /\ FixHolds /\ ResultsHold
MatchInv == Types /\ TallyHolds /\ OInv

-----------------------------------------------------------------------------
(* Sets of matches *)

LEMMA Constants ==
  /\ OFFLINE_AFTER_FAILURES \in Nat \ {0} /\ MAX_MATCHES \in Nat \ {0}
  /\ MAX_SCORE \in Nat /\ MAX_KILLS \in Nat /\ MaxFaults \in Nat
  BY BoundsAssumption

LEMMA Extremes ==
  ASSUME NEW S \in SUBSET Match, S # {}
  PROVE  /\ Max(S) \in S /\ \A x \in S : x <= Max(S)
         /\ Min(S) \in S /\ \A x \in S : Min(S) <= x
<1> DEFINE R == OpToRel(<, Nat)
           T == {MAX_MATCHES - x : x \in S}
<1>1. /\ S \subseteq Nat /\ T \subseteq Nat /\ T # {}
      /\ \A x \in S : x \in Nat /\ x <= MAX_MATCHES
  <2>1. \A x \in S : x \in Nat /\ x <= MAX_MATCHES /\ MAX_MATCHES - x \in Nat
        BY Constants DEF Match
  <2>2. PICK x \in S : TRUE
        OBVIOUS
  <2>3. MAX_MATCHES - x \in T
        OBVIOUS
  <2> QED BY <2>1, <2>3
<1>2. IsWellFoundedOn(R, Nat)
      BY NatLessThanWellFounded
<1>3. \A x, y \in Nat : <<x, y>> \notin R => y <= x
      BY DEF OpToRel
<1> HIDE DEF R
<1>4. \E x \in S : \A y \in S : x <= y
  <2>1. PICK x \in S : \A y \in S : <<y, x>> \notin R
        BY <1>1, <1>2, WFMin
  <2> QED BY <1>1, <1>3, <2>1
<1>5. \E x \in S : \A y \in S : x >= y
  <2>1. PICK t \in T : \A y \in T : <<y, t>> \notin R
    <3> HIDE DEF T
    <3> QED BY <1>1, <1>2, WFMin
  <2>2. PICK x \in S : t = MAX_MATCHES - x
        BY <2>1
  <2>3. ASSUME NEW y \in S PROVE x >= y
    <3>1. MAX_MATCHES - y \in T
          OBVIOUS
    <3>2. t <= MAX_MATCHES - y
          BY <1>1, <1>3, <2>1, <3>1
    <3> QED BY <1>1, <2>2, <3>2, BoundsAssumption
  <2> QED BY <2>3
<1>6. \A x, y \in S : x >= y <=> y <= x
      BY <1>1
<1> QED BY <1>4, <1>5, <1>6 DEF Max, Min

LEMMA SpanOf ==
  ASSUME NEW S \in SUBSET Match, NEW n \in Nat, Spans(S, n)
  PROVE  n \in Min(S) .. Max(S)
<1>1. PICK a, b \in S : a <= n /\ n <= b
      BY DEF Spans
<1>2. Min(S) \in S /\ Max(S) \in S /\ Min(S) <= a /\ b <= Max(S)
      BY Extremes
<1>3. a \in Nat /\ b \in Nat /\ Min(S) \in Nat /\ Max(S) \in Nat
  <2>1. S \subseteq Nat
        BY Constants DEF Match
  <2> QED BY <1>2, <2>1
<1>4. Min(S) <= n /\ n <= Max(S)
      BY <1>1, <1>2, <1>3
<1> QED BY <1>3, <1>4

-----------------------------------------------------------------------------
(* Initially *)

LEMMA InitInv == MatchInit => MatchInv
<1> SUFFICES ASSUME MatchInit PROVE MatchInv
    OBVIOUS
<1>1. /\ game.kind \in Kind /\ game.n = 1 /\ game.list = 1 /\ game.map \in Map
      /\ game.score = 0 /\ game.young = TRUE /\ game.kills = [p \in Player |-> 0]
      /\ game \in Game
  <2>1. [Player -> {0}] \subseteq [Player -> Kills] /\ 1 \in Match /\ 0 \in 0 .. MAX_SCORE
        BY Constants DEF Kills, Match
  <2>2. \A f \in [Player -> {0}] : f = [p \in Player |-> 0]
        OBVIOUS
  <2>3. game \in [kind : Kind, n : {1}, list : {1}, map : Map, score : {0}, young : {TRUE},
                  kills : [Player -> {0}]]
        BY DEF MatchInit
  <2> QED BY <2>1, <2>2, <2>3 DEF Game
<1>2. mem = NewMemory /\ mem \in Memory
      BY Constants DEF MatchInit, NewMemory, Memory
<1>3. past \in Past /\ past.seen = [p \in Player |-> 0]
      BY Constants DEF MatchInit, Past, Kills
<1>4. rows = <<>> /\ rows \in Seq(Row) /\ DOMAIN rows = {} /\ Open = {}
      BY EmptySeq DEF MatchInit, Open
<1>5. Types
      BY <1>1, <1>2, <1>3, <1>4 DEF Types, MatchInit, NewMemory
<1>6. TallyHolds
      BY <1>1, <1>2, <1>3 DEF TallyHolds, NewMemory
<1>7. OInv
      BY <1>1, <1>2, <1>4 DEF OInv, GameHolds, LastHolds, RowsHold, LookHolds, HeldHolds,
         ClosedHolds, FixHolds, ResultsHold, MatchInit, NewMemory
<1> QED BY <1>5, <1>6, <1>7 DEF MatchInv

-----------------------------------------------------------------------------
(* Time and the game *)

LEMMA MemoryLater ==
  ASSUME mem \in Memory
  PROVE  /\ MuchLater \in Memory
         /\ MuchLater.last = mem.last /\ MuchLater.tally = mem.tally
         /\ MuchLater.held # None => ~MuchLater.held.fresh
         /\ MuchLater.closed # None =>
               /\ mem.closed # None /\ MuchLater.closed.row = mem.closed.row
               /\ ~MuchLater.closed.recent
<1>1. /\ mem.held \in {None} \cup Held /\ mem.closed \in {None} \cup Closed
      BY DEF Memory
<1>2. CASE mem.held = None /\ mem.closed = None
      BY <1>2 DEF MuchLater, Memory
<1>3. CASE mem.held = None /\ mem.closed # None
  <2>1. /\ [mem.closed EXCEPT !.recent = FALSE] \in Closed
        /\ ~[mem.closed EXCEPT !.recent = FALSE].recent
        /\ [mem.closed EXCEPT !.recent = FALSE].row = mem.closed.row
        BY <1>1, <1>3 DEF Closed
  <2> QED BY <1>3, <2>1 DEF MuchLater, Memory
<1>4. CASE mem.held # None /\ mem.closed = None
  <2>1. /\ [mem.held EXCEPT !.fresh = FALSE] \in Held
        /\ ~[mem.held EXCEPT !.fresh = FALSE].fresh
        BY <1>1, <1>4 DEF Held
  <2> QED BY <1>4, <2>1 DEF MuchLater, Memory
<1>5. CASE mem.held # None /\ mem.closed # None
  <2>1. /\ [mem.closed EXCEPT !.recent = FALSE] \in Closed
        /\ ~[mem.closed EXCEPT !.recent = FALSE].recent
        /\ [mem.closed EXCEPT !.recent = FALSE].row = mem.closed.row
        BY <1>1, <1>5 DEF Closed
  <2>2. /\ [mem.held EXCEPT !.fresh = FALSE] \in Held
        /\ ~[mem.held EXCEPT !.fresh = FALSE].fresh
        BY <1>1, <1>5 DEF Held
  <2> QED BY <1>5, <2>1, <2>2 DEF MuchLater, Memory
<1> QED BY <1>2, <1>3, <1>4, <1>5

(* When a match is no longer young, nothing held or closed is recent.      *)
LEMMA AgesInv == MatchInv /\ look = None /\ Ages => MatchInv'
<1> SUFFICES ASSUME MatchInv, look = None, Ages PROVE MatchInv'
    OBVIOUS
<1> USE DEF MatchInv, Ages
<1>1. mem' \in Memory /\ mem'.last = mem.last /\ mem'.tally = mem.tally
      /\ (mem'.held # None => ~mem'.held.fresh)
      /\ (mem'.closed # None => /\ mem.closed # None /\ mem'.closed.row = mem.closed.row
                                /\ ~mem'.closed.recent)
      BY MemoryLater DEF Types
<1>2. game' \in Game /\ game'.n = game.n /\ game'.list = game.list /\ game'.map = game.map
      /\ game'.score = game.score /\ game'.kills = game.kills
      BY DEF Types, Game
<1>3. Types'
      BY <1>1, <1>2 DEF Types
<1>4. TallyHolds'
      BY <1>1, <1>2 DEF TallyHolds, TallyRow
<1>5. GameHolds' /\ LastHolds' /\ HeldHolds' /\ ClosedHolds' /\ FixHolds' /\ ResultsHold'
      BY <1>1, <1>2 DEF OInv, GameHolds, LastHolds, HeldHolds, ClosedHolds, FixHolds, ResultsHold
<1>6. RowsHold' /\ LookHolds'
      BY <1>1, <1>2 DEF OInv, RowsHold, OpenHolds, Open, LookHolds
<1> QED BY <1>3, <1>4, <1>5, <1>6 DEF OInv

LEMMA MinutesPassInv == MatchInv /\ MinutesPass => MatchInv'
<1> SUFFICES ASSUME MatchInv, MinutesPass PROVE MatchInv'
    OBVIOUS
<1> USE DEF MatchInv, MinutesPass
<1>1. mem' \in Memory /\ mem'.last = mem.last /\ mem'.tally = mem.tally
      /\ (mem'.held # None => ~mem'.held.fresh)
      /\ (mem'.closed # None => /\ mem.closed # None /\ mem'.closed.row = mem.closed.row
                                /\ ~mem'.closed.recent)
      BY MemoryLater DEF Types
<1>2. UNCHANGED <<game, look, fix, rows, past>>
      OBVIOUS
<1>3. Types'
      BY <1>1, <1>2 DEF Types
<1>4. TallyHolds'
      BY <1>1, <1>2 DEF TallyHolds, TallyRow
<1>5. GameHolds' /\ LastHolds' /\ HeldHolds' /\ ClosedHolds' /\ FixHolds' /\ ResultsHold'
      BY <1>1, <1>2 DEF OInv, GameHolds, LastHolds, HeldHolds, ClosedHolds, FixHolds, ResultsHold
<1>6. RowsHold' /\ LookHolds'
      BY <1>1, <1>2 DEF OInv, RowsHold, OpenHolds, Open, LookHolds, EndHolds, Coming
<1> QED BY <1>3, <1>4, <1>5, <1>6 DEF OInv

LEMMA NextOnListInv == MatchInv /\ look = None /\ NextOnList => MatchInv'
<1> SUFFICES ASSUME MatchInv, look = None, NextOnList PROVE MatchInv'
    OBVIOUS
<1> USE DEF MatchInv, NextOnList, Worker
<1>1. UNCHANGED <<mem, look, fix, rows, past>>
      OBVIOUS
<1>2. /\ game' \in Game /\ game'.n = game.n /\ game'.list = game.n + 1 /\ game'.map = game.map
      /\ game'.score = game.score /\ game'.young = game.young
      /\ game'.kills = [p \in Player |-> 0]
  <2>1. game.n + 1 \in Match /\ [p \in Player |-> 0] \in [Player -> Kills]
        BY Constants, KindAssumption DEF Types, Game, Match, Kills
  <2> QED BY <2>1 DEF Types, Game
<1>3. Types'
      BY <1>1, <1>2 DEF Types
<1>4. TallyHolds'
      BY <1>1, <1>2, Constants DEF TallyHolds, TallyRow, Types, Past, Kills
<1>5. GameHolds' /\ LastHolds' /\ HeldHolds' /\ ClosedHolds' /\ FixHolds' /\ ResultsHold'
      BY <1>1, <1>2 DEF OInv, GameHolds, LastHolds, HeldHolds, ClosedHolds, FixHolds, ResultsHold,
         Coming
<1>6. RowsHold' /\ LookHolds'
      BY <1>1, <1>2 DEF OInv, RowsHold, OpenHolds, Open, LookHolds
<1> QED BY <1>3, <1>4, <1>5, <1>6 DEF OInv

(* What the feed has to tell stays the same when the next match begins.    *)
LEMMA NextOnStatusInv == MatchInv /\ look = None /\ NextOnStatus => MatchInv'
<1> SUFFICES ASSUME MatchInv, look = None, NextOnStatus PROVE MatchInv'
    OBVIOUS
<1> USE DEF MatchInv, NextOnStatus, Worker
<1>1. UNCHANGED <<mem, look, fix, rows, past>>
      OBVIOUS
<1>2. /\ game' \in Game /\ game'.n = game.n + 1 /\ game'.list = game.n + 1
      /\ game'.young /\ ~game.young /\ game'.kills = game.kills
      /\ game.n \in Nat
  <2>1. game.n + 1 \in Match /\ 0 \in 0 .. MAX_SCORE /\ game.list = game.n + 1
        BY Constants DEF Types, Game, Match
  <2>2. ~game.young /\ game.n \in Nat
        BY <2>1, Constants DEF OInv, GameHolds, Types, Game, Match
  <2> QED BY <2>1, <2>2 DEF Types, Game
<1>3. Types'
      BY <1>1, <1>2 DEF Types
<1>4. TallyHolds'
      BY <1>1, <1>2 DEF TallyHolds, TallyRow
<1>5. Coming' = Coming
      BY <1>2 DEF Coming
<1>6. LastHolds'
      BY <1>1, <1>2, Constants DEF OInv, LastHolds, Types, Memory, Last, Match
<1>7. GameHolds' /\ HeldHolds' /\ ClosedHolds' /\ FixHolds' /\ ResultsHold'
      BY <1>1, <1>2, <1>5 DEF OInv, GameHolds, HeldHolds, ClosedHolds, FixHolds, ResultsHold
<1>8. RowsHold'
  <2>1. ASSUME NEW i \in Open PROVE OpenHolds(rows[i])'
    <3>1. /\ rows[i].during # {} /\ OpenHolds(rows[i]) /\ rows[i] \in Row
          BY DEF OInv, RowsHold, Open, Types
    <3>2. \A m \in rows[i].during : m \in Nat /\ m < game.n + 1
          BY <1>2, <3>1, Constants DEF OpenHolds, Row, Match
    <3> QED BY <1>1, <1>2, <3>1, <3>2 DEF OpenHolds
  <2> QED BY <1>1, <2>1 DEF OInv, RowsHold, Open
<1>9. LookHolds'
      BY <1>1 DEF OInv, LookHolds, Open
<1> QED BY <1>3, <1>4, <1>6, <1>7, <1>8, <1>9 DEF OInv

-----------------------------------------------------------------------------
(* The feed, restarts and lost ownership *)

LEMMA FaultIs == past \in Past /\ Fault => past' \in Past /\ past'.seen = past.seen
<1> DEFINE b == past.astray \/ Turning
<1> SUFFICES ASSUME past \in Past, Fault PROVE past' \in Past /\ past'.seen = past.seen
    OBVIOUS
<1>1. b \in BOOLEAN
      OBVIOUS
<1>2. /\ past.faults < MaxFaults
      /\ past' = [past EXCEPT !.faults = @ + 1, !.calm = FALSE, !.astray = b]
      BY DEF Fault
<1>3. past.faults + 1 \in 0 .. MaxFaults
      BY <1>2, Constants DEF Past
<1> HIDE DEF b
<1> QED BY <1>1, <1>2, <1>3 DEF Past

(* A result comes for the row a look closed lately, or is held.            *)
LEMMA OnMatchFeedInv == MatchInv /\ (\E n \in Match : OnMatchFeed(n)) => MatchInv'
<1> SUFFICES ASSUME MatchInv, NEW n \in Match, OnMatchFeed(n) PROVE MatchInv'
    OBVIOUS
<1> USE DEF MatchInv
<1>1. UNCHANGED <<game, look, rows, past>> /\ n = Coming
      BY DEF OnMatchFeed, MayCome, Coming
<1>2. CASE /\ mem' = [mem EXCEPT !.held = [of |-> n, fresh |-> TRUE]]
           /\ UNCHANGED fix
  <2>1. /\ mem' \in Memory /\ mem'.last = mem.last /\ mem'.tally = mem.tally
        /\ mem'.closed = mem.closed /\ mem'.held.of = n
        BY <1>2 DEF Types, Memory, Held
  <2>2. Types' /\ TallyHolds'
        BY <1>1, <1>2, <2>1 DEF Types, TallyHolds, TallyRow
  <2>3. GameHolds' /\ LastHolds' /\ HeldHolds' /\ ClosedHolds' /\ FixHolds' /\ ResultsHold'
        BY <1>1, <1>2, <2>1 DEF OInv, GameHolds, LastHolds, HeldHolds, ClosedHolds, FixHolds,
           ResultsHold, Coming
  <2>4. RowsHold' /\ LookHolds'
        BY <1>1, <2>1 DEF OInv, RowsHold, OpenHolds, Open, LookHolds, EndHolds, Coming
  <2> QED BY <2>2, <2>3, <2>4 DEF OInv
<1>3. CASE /\ mem.closed # None /\ mem.closed.recent
           /\ mem' = [mem EXCEPT !.closed.byFeed = TRUE]
           /\ fix' = [row |-> mem.closed.row, of |-> n]
  <2>1. mem.closed \in Closed /\ mem \in Memory
        BY <1>3 DEF Types, Memory
  <2>2. /\ [mem.closed EXCEPT !.byFeed = TRUE] \in Closed
        /\ [mem.closed EXCEPT !.byFeed = TRUE].row = mem.closed.row
        /\ [mem.closed EXCEPT !.byFeed = TRUE].recent = mem.closed.recent
        BY <2>1 DEF Closed
  <2>3. /\ mem' \in Memory /\ mem'.last = mem.last /\ mem'.tally = mem.tally
        /\ mem'.held = mem.held
        /\ mem'.closed.row = mem.closed.row /\ mem'.closed.recent = mem.closed.recent
        BY <1>3, <2>1, <2>2 DEF Memory
  <2>4. fix' \in [row : Nat, of : Match] /\ fix'.row = mem.closed.row /\ fix'.of = n
        BY <1>3, <2>1 DEF Closed
  <2>5. Types' /\ TallyHolds'
        BY <1>1, <1>3, <2>3, <2>4 DEF Types, TallyHolds, TallyRow
  <2>6. GameHolds' /\ LastHolds' /\ HeldHolds' /\ ClosedHolds' /\ ResultsHold'
        BY <1>1, <1>3, <2>3 DEF OInv, GameHolds, LastHolds, HeldHolds, ClosedHolds,
           ResultsHold, Coming
  <2>7. FixHolds'
        BY <1>1, <1>3, <2>4 DEF OInv, ClosedHolds, FixHolds
  <2>8. RowsHold' /\ LookHolds'
        BY <1>1, <2>3 DEF OInv, RowsHold, OpenHolds, Open, LookHolds, EndHolds, Coming
  <2> QED BY <2>5, <2>6, <2>7, <2>8 DEF OInv
<1> QED BY <1>2, <1>3 DEF OnMatchFeed

(* The row it corrects was closed by now, or is left.                      *)
LEMMA CorrectInv == MatchInv /\ Correct => MatchInv'
<1> SUFFICES ASSUME MatchInv, Correct PROVE MatchInv'
    OBVIOUS
<1> USE DEF MatchInv
<1>1. fix # None /\ fix' = None /\ UNCHANGED <<game, mem, look, past>>
      BY DEF Correct
<1>2. /\ fix.row \in DOMAIN rows /\ fix.of \in Match /\ rows \in Seq(Row)
      /\ DOMAIN rows = 1 .. Len(rows)
      /\ \A i \in DOMAIN rows : rows[i] \in Row
      BY <1>1 DEF Types
<1>3. CASE rows[fix.row].open
  <2>1. rows' = rows
        BY <1>3 DEF Correct
  <2>2. Types' /\ TallyHolds'
        BY <1>1, <2>1 DEF Types, TallyHolds, TallyRow
  <2> QED BY <1>1, <2>1, <2>2 DEF OInv, GameHolds, LastHolds, RowsHold, OpenHolds, Open, LookHolds,
          EndHolds, HeldHolds, ClosedHolds, FixHolds, ResultsHold, Coming
<1>4. CASE ~rows[fix.row].open
  <2> DEFINE result == [by |-> "feed", of |-> fix.of]
             r == [rows[fix.row] EXCEPT !.result = result]
  <2>1. rows' = [rows EXCEPT ![fix.row] = r]
        BY <1>2, <1>4 DEF Correct
  <2>2. /\ r \in Row /\ r.result = result /\ r.open = rows[fix.row].open
        /\ r.late = rows[fix.row].late /\ r.during = rows[fix.row].during
    <3>1. result \in Result
          BY <1>2, Constants DEF Result, Match
    <3> HIDE DEF result
    <3> QED BY <1>2, <3>1 DEF Row
  <2> HIDE DEF r
  <2>3. /\ rows' \in Seq(Row) /\ DOMAIN rows' = DOMAIN rows
        /\ \A i \in DOMAIN rows : rows'[i] = IF i = fix.row THEN r ELSE rows[i]
        BY <1>2, <2>1, <2>2, ExceptSeq
  <2>4. /\ Open' = Open /\ fix.row \notin Open
        /\ \A i \in Open : rows'[i] = rows[i]
        /\ \A i \in DOMAIN rows : /\ rows'[i].late = rows[i].late
                                  /\ rows'[i].during = rows[i].during
        BY <1>4, <2>2, <2>3 DEF Open
  <2>5. Types' /\ TallyHolds'
        BY <1>1, <2>3 DEF Types, TallyHolds, TallyRow
  <2>6. GameHolds' /\ LastHolds' /\ HeldHolds' /\ FixHolds'
        BY <1>1 DEF OInv, GameHolds, LastHolds, HeldHolds, FixHolds, Coming
  <2>7. ClosedHolds'
        BY <1>1, <2>4 DEF OInv, ClosedHolds, Coming, Types
  <2>8. ResultsHold'
    <3>1. ASSUME NEW i \in DOMAIN rows', ~rows'[i].late, rows'[i].result # NoResult
          PROVE  Spans(rows'[i].during, rows'[i].result.of)
      <4>1. CASE i = fix.row
            BY <1>1, <2>2, <2>3, <3>1, <4>1 DEF OInv, FixHolds
      <4>2. CASE i # fix.row
            BY <2>3, <3>1, <4>2 DEF OInv, ResultsHold
      <4> QED BY <4>1, <4>2
    <3> QED BY <3>1 DEF ResultsHold
  <2>9. RowsHold'
        BY <1>1, <2>3, <2>4 DEF OInv, RowsHold, OpenHolds
  <2>10. LookHolds'
        BY <1>1, <2>4 DEF OInv, LookHolds, EndHolds, Coming
  <2> QED BY <2>5, <2>6, <2>7, <2>8, <2>9, <2>10 DEF OInv
<1> QED BY <1>3, <1>4

LEMMA CorrectFailsInv == MatchInv /\ CorrectFails => MatchInv'
<1> SUFFICES ASSUME MatchInv, CorrectFails PROVE MatchInv'
    OBVIOUS
<1> USE DEF MatchInv
<1>1. /\ fix' = None /\ UNCHANGED <<game, look, rows>>
      /\ past' \in Past /\ past'.seen = past.seen
      BY FaultIs DEF CorrectFails, Types
<1>2. /\ mem' \in Memory /\ mem'.last = mem.last /\ mem'.tally = mem.tally
      /\ mem'.held = mem.held
      /\ mem'.closed # None => /\ mem.closed # None /\ mem'.closed.row = mem.closed.row
                               /\ mem'.closed.recent = mem.closed.recent
  <2>1. CASE mem' = mem
        BY <2>1 DEF Types
  <2>2. CASE mem.closed # None /\ mem' = [mem EXCEPT !.closed.byFeed = FALSE]
    <3>1. mem.closed \in Closed /\ mem \in Memory
          BY <2>2 DEF Types, Memory
    <3>2. /\ [mem.closed EXCEPT !.byFeed = FALSE] \in Closed
          /\ [mem.closed EXCEPT !.byFeed = FALSE].row = mem.closed.row
          /\ [mem.closed EXCEPT !.byFeed = FALSE].recent = mem.closed.recent
          BY <3>1 DEF Closed
    <3> QED BY <2>2, <3>1, <3>2 DEF Memory
  <2> QED BY <2>1, <2>2 DEF CorrectFails
<1>3. Types' /\ TallyHolds'
      BY <1>1, <1>2 DEF Types, TallyHolds, TallyRow
<1>4. GameHolds' /\ LastHolds' /\ HeldHolds' /\ ClosedHolds' /\ FixHolds' /\ ResultsHold'
      BY <1>1, <1>2 DEF OInv, GameHolds, LastHolds, HeldHolds, ClosedHolds, FixHolds,
         ResultsHold, Coming
<1>5. RowsHold' /\ LookHolds'
      BY <1>1, <1>2 DEF OInv, RowsHold, OpenHolds, Open, LookHolds, EndHolds, Coming
<1> QED BY <1>3, <1>4, <1>5 DEF OInv

(* Nothing is remembered, held, under way or being corrected.              *)
LEMMA ForgottenInv ==
  ASSUME MatchInv, mem' \in Memory, past' \in Past, past'.seen = past.seen,
         mem'.last = None, mem'.held = None, mem'.closed = None, look' = None, fix' = None,
         \A p \in Player : mem'.tally[p] \in {None, mem.tally[p]},
         UNCHANGED <<game, rows>>
  PROVE  MatchInv'
<1> USE DEF MatchInv
<1>1. Types'
      BY DEF Types
<1>2. TallyHolds'
      BY DEF TallyHolds, TallyRow
<1>3. GameHolds' /\ LastHolds' /\ HeldHolds' /\ ClosedHolds' /\ FixHolds' /\ ResultsHold'
      BY DEF OInv, GameHolds, LastHolds, HeldHolds, ClosedHolds, FixHolds, ResultsHold
<1>4. RowsHold' /\ LookHolds'
      BY DEF OInv, RowsHold, OpenHolds, Open, LookHolds
<1> QED BY <1>1, <1>2, <1>3, <1>4 DEF OInv

LEMMA RestartInv == MatchInv /\ Restart => MatchInv'
<1> SUFFICES ASSUME MatchInv, Restart PROVE MatchInv'
    OBVIOUS
<1>1. past' \in Past /\ past'.seen = past.seen
      BY FaultIs DEF Restart, MatchInv, Types
<1>2. mem' \in Memory /\ mem' = NewMemory
      BY Constants DEF Restart, NewMemory, Memory
<1> QED BY <1>1, <1>2, ForgottenInv DEF Restart, NewMemory

LEMMA ForgetRememberedInv == MatchInv /\ ForgetRemembered => MatchInv'
<1> SUFFICES ASSUME MatchInv, ForgetRemembered PROVE MatchInv'
    OBVIOUS
<1>1. past' \in Past /\ past'.seen = past.seen
      BY FaultIs DEF ForgetRemembered, MatchInv, Types
<1>2. /\ mem' \in Memory /\ mem'.last = None /\ mem'.held = None /\ mem'.closed = None
      /\ mem'.tally = mem.tally
      BY DEF ForgetRemembered, MatchInv, Types, Memory
<1> QED BY <1>1, <1>2, ForgottenInv DEF ForgetRemembered

(* Everyone's line goes to the open match; whose result it has and when it *)
(* was seen stay.                                                          *)
LinesFlushed ==
    [i \in DOMAIN rows |->
        IF ~rows[i].open THEN rows[i]
        ELSE [rows[i] EXCEPT !.lines = [p \in Player |->
            IF p \in Tallies THEN TallyRow(mem.tally[p]) ELSE @[p]]]]

LEMMA TallyRowType ==
  ASSUME MatchInv, NEW p \in Player, mem.tally[p] # None
  PROVE  TallyRow(mem.tally[p]) \in Kills /\ mem.tally[p] \in Tally
<1>1. mem.tally[p] \in Tally
      BY DEF MatchInv, Types, Memory
<1>2. /\ mem.tally[p].banked \in Nat /\ mem.tally[p].last \in Nat /\ past.seen[p] \in Kills
      BY <1>1, Constants DEF MatchInv, Types, Past, Tally, Kills
<1> QED BY <1>1, <1>2, Constants DEF MatchInv, TallyHolds, TallyRow, Kills

LEMMA FlushedRows ==
  ASSUME MatchInv
  PROVE  /\ LinesFlushed \in Seq(Row) /\ DOMAIN LinesFlushed = DOMAIN rows
         /\ \A i \in DOMAIN rows :
              /\ LinesFlushed[i].open = rows[i].open /\ LinesFlushed[i].result = rows[i].result
              /\ LinesFlushed[i].late = rows[i].late /\ LinesFlushed[i].map = rows[i].map
              /\ LinesFlushed[i].during = rows[i].during
<1>1. rows \in Seq(Row) /\ DOMAIN rows = 1 .. Len(rows) /\ Len(rows) \in Nat
      BY DEF MatchInv, Types
<1>2. ASSUME NEW i \in DOMAIN rows
      PROVE  /\ LinesFlushed[i] \in Row
             /\ LinesFlushed[i].open = rows[i].open /\ LinesFlushed[i].result = rows[i].result
             /\ LinesFlushed[i].late = rows[i].late /\ LinesFlushed[i].map = rows[i].map
             /\ LinesFlushed[i].during = rows[i].during
  <2> DEFINE lines == [p \in Player |->
                 IF p \in Tallies THEN TallyRow(mem.tally[p]) ELSE rows[i].lines[p]]
  <2>1. rows[i] \in Row
        BY <1>1, ElementOfSeq
  <2>2. lines \in [Player -> Kills]
        BY <2>1, TallyRowType DEF Row, Tallies
  <2>3. CASE rows[i].open
    <3>1. LinesFlushed[i] = [rows[i] EXCEPT !.lines = lines]
          BY <2>1, <2>3 DEF LinesFlushed, Row
    <3> HIDE DEF lines
    <3> QED BY <2>1, <2>2, <3>1 DEF Row
  <2>4. CASE ~rows[i].open
        BY <2>1, <2>4 DEF LinesFlushed
  <2> QED BY <2>3, <2>4
<1>3. LinesFlushed \in [1 .. Len(rows) -> Row]
      BY <1>1, <1>2 DEF LinesFlushed
<1> QED BY <1>1, <1>2, <1>3

LEMMA FailedLookInv == MatchInv /\ FailedLook => MatchInv'
<1> SUFFICES ASSUME MatchInv, FailedLook PROVE MatchInv'
    OBVIOUS
<1> USE DEF MatchInv
<1>1. look = None /\ UNCHANGED <<game, look, fix>>
      BY DEF FailedLook
<1>2. mem \in Memory /\ past \in Past
      BY DEF Types
<1>3. CASE ~Offline
  <2>1. /\ mem' \in Memory /\ mem'.last = mem.last /\ mem'.tally = mem.tally
        /\ mem'.held = mem.held /\ mem'.closed = mem.closed
        /\ UNCHANGED <<rows, past>>
    <3>1. mem.failures + 1 \in 0 .. OFFLINE_AFTER_FAILURES
          BY <1>2, <1>3, Constants DEF Offline, Memory
    <3> QED BY <1>2, <1>3, <3>1 DEF FailedLook, Memory
  <2>2. Types' /\ TallyHolds'
        BY <1>1, <2>1 DEF Types, TallyHolds, TallyRow
  <2> QED BY <1>1, <2>1, <2>2 DEF OInv, GameHolds, LastHolds, RowsHold, OpenHolds, Open, LookHolds,
          HeldHolds, ClosedHolds, FixHolds, ResultsHold, Coming
<1>4. CASE Offline
  <2>1. /\ mem' \in Memory /\ mem'.last = None /\ mem'.tally = [p \in Player |-> None]
        /\ mem'.held = mem.held /\ mem'.closed = mem.closed
    <3>1. /\ OFFLINE_AFTER_FAILURES \in 0 .. OFFLINE_AFTER_FAILURES
          /\ [p \in Player |-> None] \in [Player -> {None} \cup Tally]
          BY Constants
    <3>2. mem' = [mem EXCEPT !.failures = OFFLINE_AFTER_FAILURES, !.last = None,
                             !.tally = [p \in Player |-> None]]
          BY <1>4 DEF FailedLook
    <3> QED BY <1>2, <3>1, <3>2 DEF Memory
  <2>2. past' \in Past /\ past'.seen = past.seen
    <3> DEFINE b == past.astray \/ Turning
    <3>1. b \in BOOLEAN
          OBVIOUS
    <3>2. past' = [past EXCEPT !.calm = FALSE, !.astray = b]
          BY <1>4 DEF FailedLook
    <3> HIDE DEF b
    <3> QED BY <1>2, <3>1, <3>2 DEF Past
  <2>3. rows' = LinesFlushed
        BY <1>4 DEF FailedLook, LinesFlushed
  <2>4. /\ rows' \in Seq(Row) /\ DOMAIN rows' = DOMAIN rows
        /\ \A i \in DOMAIN rows :
             /\ rows'[i].open = rows[i].open /\ rows'[i].result = rows[i].result
             /\ rows'[i].late = rows[i].late /\ rows'[i].map = rows[i].map
             /\ rows'[i].during = rows[i].during
        BY <2>3, FlushedRows
  <2>5. Open' = Open
        BY <2>4 DEF Open
  <2>6. Types' /\ TallyHolds'
        BY <1>1, <2>1, <2>2, <2>4 DEF Types, TallyHolds, TallyRow
  <2>7. GameHolds' /\ LastHolds' /\ HeldHolds' /\ LookHolds'
        BY <1>1, <2>1 DEF OInv, GameHolds, LastHolds, HeldHolds, LookHolds, Coming
  <2>8. ClosedHolds' /\ FixHolds' /\ ResultsHold'
        BY <1>1, <2>1, <2>4 DEF OInv, ClosedHolds, FixHolds, ResultsHold, Coming, Types
  <2>9. RowsHold'
        BY <1>1, <2>4, <2>5 DEF OInv, RowsHold, OpenHolds, Open
  <2> QED BY <2>6, <2>7, <2>8, <2>9 DEF OInv
<1> QED BY <1>3, <1>4

LEMMA FailureNotSavedInv == MatchInv /\ FailureNotSaved => MatchInv'
<1> SUFFICES ASSUME MatchInv, FailureNotSaved PROVE MatchInv'
    OBVIOUS
<1> USE DEF MatchInv
<1>1. look = None /\ UNCHANGED <<game, look, fix, rows>> /\ past' \in Past /\ past'.seen = past.seen
      BY FaultIs DEF FailureNotSaved, Types
<1>2. /\ mem' \in Memory /\ mem'.last \in {mem.last, None} /\ mem'.tally = mem.tally
      /\ mem'.held = mem.held /\ mem'.closed = mem.closed
  <2>1. OFFLINE_AFTER_FAILURES \in 0 .. OFFLINE_AFTER_FAILURES
        BY Constants
  <2>2. PICK last \in {mem.last, None} :
          mem' = [mem EXCEPT !.failures = OFFLINE_AFTER_FAILURES, !.last = last]
        BY DEF FailureNotSaved
  <2>3. mem \in Memory
        BY DEF Types
  <2> QED BY <2>1, <2>2, <2>3 DEF Memory
<1>3. Types' /\ TallyHolds'
      BY <1>1, <1>2 DEF Types, TallyHolds, TallyRow
<1> QED BY <1>1, <1>2, <1>3 DEF OInv, GameHolds, LastHolds, RowsHold, OpenHolds, Open, LookHolds,
        HeldHolds, ClosedHolds, FixHolds, ResultsHold, Coming

-----------------------------------------------------------------------------
(* The match stage *)

LEMMA OpenRow ==
  ASSUME MatchInv, Open # {}
  PROVE  /\ Open = {Current} /\ Current \in DOMAIN rows /\ rows[Current] \in Row
         /\ rows[Current].open /\ ~rows[Current].late /\ rows[Current].result = NoResult
         /\ rows[Current].during \in SUBSET Match /\ rows[Current].during # {}
<1>1. Current \in Open
      BY DEF Current
<1>2. \A i, j \in Open : i = j
      BY DEF MatchInv, OInv, RowsHold
<1>3. Open \subseteq DOMAIN rows /\ rows \in Seq(Row)
      BY DEF Open, MatchInv, Types
<1>4. rows[Current] \in Row
      BY <1>1, <1>3
<1> QED BY <1>1, <1>2, <1>3, <1>4 DEF MatchInv, OInv, RowsHold, OpenHolds, Open, Row

(* A tally that is carried over or later counts what it counted, or less.  *)
TallySound(t, p) ==
    /\ t \in {None} \cup Tally
    /\ t # None => TallyRow(t) <= past.seen[p] /\ game.kills[p] \in {0, t.last}

LEMMA StageTally ==
  ASSUME MatchInv, NEW p \in Player, NEW t, t = mem.tally[p]
  PROVE  /\ TallySound(t, p) /\ TallySound(Carried(t), p) /\ TallySound(Later(t), p)
         /\ t # None => TallySound([Later(t) EXCEPT !.dirty = FALSE], p)
<1>1. CASE t = None
      BY <1>1 DEF TallySound, Carried, Later
<1>2. CASE t # None
  <2>1. /\ t \in Tally /\ TallyRow(t) <= past.seen[p] /\ game.kills[p] \in {0, t.last}
        BY <1>2, TallyRowType DEF MatchInv, TallyHolds
  <2>2. /\ t.banked \in Nat /\ t.last \in Nat /\ past.seen[p] \in Nat /\ t.last \in Kills
        BY <2>1, Constants DEF Tally, MatchInv, Types, Past, Kills
  <2>3. /\ Later(t) \in Tally /\ Later(t).banked = t.banked /\ Later(t).last = t.last
        BY <1>2, <2>1 DEF Later, Tally
  <2>4. /\ NewTally(t.last) \in Tally /\ NewTally(t.last).banked = 0
        /\ NewTally(t.last).last = t.last
        BY <2>2, Constants DEF NewTally, Tally, Kills
  <2>5. LET u == [Later(t) EXCEPT !.dirty = FALSE]
        IN  u \in Tally /\ u.banked = t.banked /\ u.last = t.last
        BY <2>3 DEF Tally
  <2>6. t.last <= past.seen[p]
        BY <2>1, <2>2 DEF TallyRow
  <2> QED BY <2>1, <2>2, <2>3, <2>4, <2>5, <2>6 DEF TallySound, TallyRow, Carried
<1> QED BY <1>1, <1>2

LEMMA TakenType ==
  ASSUME MatchInv
  PROVE  /\ Taken(mem.held) \in Result
         /\ Taken(mem.held) # NoResult =>
               Taken(mem.held).by = "feed" /\ Taken(mem.held).of = Coming
<1>1. CASE mem.held # None /\ mem.held.fresh
  <2>1. mem.held.of \in Match /\ mem.held.of = Coming
        BY <1>1 DEF MatchInv, Types, Memory, Held, OInv, HeldHolds
  <2>2. mem.held.of \in 0 .. MAX_MATCHES
        BY <2>1, Constants DEF Match
  <2> QED BY <1>1, <2>1, <2>2 DEF Taken, Result
<1>2. CASE ~(mem.held # None /\ mem.held.fresh)
  <2>1. 0 \in 0 .. MAX_MATCHES
        BY Constants
  <2> QED BY <1>2, <2>1 DEF Taken, Result, NoResult
<1> QED BY <1>1, <1>2

LEMMA StageMemory ==
  ASSUME MatchInv, look # None
  PROVE  /\ MemoryAfter \in Memory /\ MemoryAfter.last = mem.last
         /\ MemoryAfter.held \in {mem.held, None}
         /\ \A p \in Player : TallySound(MemoryAfter.tally[p], p)
         /\ ~Closing => MemoryAfter.closed = mem.closed
         /\ Closing => /\ MemoryAfter.closed \in Closed
                       /\ MemoryAfter.closed.row = Current
<1> DEFINE tally == [p \in Player |->
               IF Ended THEN Carried(mem.tally[p])
               ELSE IF mem.tally[p] = None THEN None
               ELSE IF Open = {} \/ Stale THEN Later(mem.tally[p])
               ELSE [Later(mem.tally[p]) EXCEPT !.dirty = FALSE]]
           held == IF Stale THEN None ELSE mem.held
           byFeed == ClosingResult.by = "feed"
           closed == IF Closing THEN [row |-> Current, recent |-> TRUE, byFeed |-> byFeed]
                     ELSE mem.closed
<1>1. mem \in Memory /\ mem.tally \in [Player -> {None} \cup Tally]
      BY DEF MatchInv, Types, Memory
<1>2. MemoryAfter = [mem EXCEPT !.tally = tally, !.held = held, !.closed = closed]
      BY <1>1 DEF MemoryAfter, Memory
<1>3. \A p \in Player : TallySound(tally[p], p)
  <2> TAKE p \in Player
  <2>2. CASE mem.tally[p] = None
        BY <2>2, StageTally DEF TallySound
  <2>3. CASE mem.tally[p] # None
        BY <2>3, StageTally
  <2> QED BY <2>2, <2>3
<1>4. tally \in [Player -> {None} \cup Tally]
      BY <1>3 DEF TallySound
<1>5. Closing => [row |-> Current, recent |-> TRUE, byFeed |-> byFeed] \in Closed
  <2>1. SUFFICES ASSUME Closing PROVE Current \in Nat /\ byFeed \in BOOLEAN
        BY DEF Closed
  <2>2. Current \in DOMAIN rows
        BY <2>1, OpenRow DEF Closing
  <2> QED BY <2>2 DEF MatchInv, Types
<1>6. held \in {None} \cup Held /\ held \in {mem.held, None}
      BY DEF MatchInv, Types, Memory
<1>7. /\ closed \in {None} \cup Closed
      /\ ~Closing => closed = mem.closed
      /\ Closing => closed \in Closed /\ closed.row = Current
      BY <1>1, <1>5 DEF Memory
<1> HIDE DEF tally, held, closed
<1> QED BY <1>1, <1>2, <1>3, <1>4, <1>6, <1>7 DEF Memory

(* The rows after a stage that closes none: the open one was seen in one   *)
(* match more, perhaps, and has other lines.                               *)
Grown(rs) ==
    /\ rs \in Seq(Row) /\ DOMAIN rs = DOMAIN rows
    /\ \A i \in DOMAIN rows :
         /\ rs[i].open = rows[i].open /\ rs[i].result = rows[i].result
         /\ rs[i].late = rows[i].late /\ rs[i].map = rows[i].map
         /\ rs[i].during = rows[i].during \cup (IF i \in Open THEN {look.of} ELSE {})

LEMMA LookType ==
  ASSUME MatchInv, look # None
  PROVE  /\ look \in Looked /\ look.of \in Match /\ look.map \in Map /\ look.ended \in Result
         /\ look.of = game.n /\ look.map = game.map /\ look.young = game.young
         /\ mem.last # None => mem.last.of = look.of
         /\ look.ended # NoResult => EndHolds(look.ended)
         /\ game.n \in Nat /\ game.n >= 1
  BY Constants DEF MatchInv, Types, Looked, Game, Match, OInv, LookHolds

LEMMA GrownRows ==
  ASSUME MatchInv, look # None, Open # {},
         NEW r, r \in Row, r.open = rows[Current].open, r.result = rows[Current].result,
         r.late = rows[Current].late, r.map = rows[Current].map,
         r.during = rows[Current].during \cup {look.of}
  PROVE  Grown([rows EXCEPT ![Current] = r])
<1>1. rows \in Seq(Row) /\ DOMAIN rows = 1 .. Len(rows)
      BY DEF MatchInv, Types
<1>2. Open = {Current} /\ Current \in 1 .. Len(rows)
      BY <1>1, OpenRow
<1>3. LET rs == [rows EXCEPT ![Current] = r]
      IN  /\ rs \in Seq(Row) /\ Len(rs) = Len(rows)
          /\ \A i \in 1 .. Len(rows) : rs[i] = IF i = Current THEN r ELSE rows[i]
      BY <1>1, <1>2, ExceptSeq
<1> QED BY <1>1, <1>2, <1>3 DEF Grown

LEMMA UnwrittenGrown ==
  ASSUME MatchInv, look # None
  PROVE  Grown(Unwritten)
<1>1. CASE Open = {}
      BY <1>1 DEF Unwritten, Grown, MatchInv, Types
<1>2. CASE Open # {}
  <2> DEFINE r == [rows[Current] EXCEPT !.during = @ \cup {look.of}]
  <2>1. rows[Current] \in Row /\ Current \in DOMAIN rows
        BY <1>2, OpenRow
  <2>2. rows[Current].during \cup {look.of} \in SUBSET Match
        BY <2>1, LookType DEF Row
  <2>3. /\ r \in Row /\ r.open = rows[Current].open /\ r.result = rows[Current].result
        /\ r.late = rows[Current].late /\ r.map = rows[Current].map
        /\ r.during = rows[Current].during \cup {look.of}
        BY <2>1, <2>2 DEF Row
  <2>4. Unwritten = [rows EXCEPT ![Current] = r]
        BY <1>2, <2>1 DEF Unwritten
  <2> HIDE DEF r
  <2> QED BY <1>2, <2>3, <2>4, GrownRows
<1> QED BY <1>1, <1>2

(* A row about to be closed was seen before the match the look is in.      *)
LEMMA SeenBefore ==
  ASSUME MatchInv, look # None, Closing
  PROVE  \E m \in rows[Current].during : m < game.n
<1>1. Open # {} /\ Current \in Open /\ (Ended \/ Stale)
      BY OpenRow DEF Closing
<1>2. CASE Ended
      BY <1>1, <1>2, LookType DEF Ended, EndHolds
<1>3. CASE Stale
      BY <1>1, <1>3, LookType DEF Stale, MatchInv, OInv, RowsHold, OpenHolds
<1> QED BY <1>1, <1>2, <1>3

LEMMA GrownSpans ==
  ASSUME NEW rs, Grown(rs), NEW i \in DOMAIN rows, NEW n, Spans(rows[i].during, n)
  PROVE  Spans(rs[i].during, n)
  BY DEF Grown, Spans

(* What a stage that closes no row keeps.                                  *)
LEMMA GrownInv ==
  ASSUME MatchInv, look # None, Grown(rows'), look' = None,
         mem' \in Memory, mem'.last = mem.last, mem'.held \in {mem.held, None},
         \A p \in Player : TallySound(mem'.tally[p], p),
         \/ mem'.closed = mem.closed
         \/ mem'.closed \in Closed /\ mem'.closed.row = Current /\ Closing,
         past' \in Past, past'.seen = past.seen, UNCHANGED <<game, fix>>
  PROVE  MatchInv'
<1> USE DEF MatchInv
<1>1. /\ rows' \in Seq(Row) /\ DOMAIN rows' = DOMAIN rows /\ Open' = Open
      /\ \A i \in DOMAIN rows :
           /\ rows'[i].open = rows[i].open /\ rows'[i].result = rows[i].result
           /\ rows'[i].late = rows[i].late /\ rows'[i].map = rows[i].map
           /\ rows'[i].during = rows[i].during \cup (IF i \in Open THEN {look.of} ELSE {})
      BY DEF Grown, Open
<1>2. \A i \in DOMAIN rows : \A n : Spans(rows[i].during, n) => Spans(rows'[i].during, n)
      BY GrownSpans
<1>3. Types'
  <2>1. mem'.closed # None => mem'.closed.row \in DOMAIN rows
        BY OpenRow DEF Types, Closing
  <2> QED BY <1>1, <2>1 DEF Types
<1>4. TallyHolds'
      BY DEF TallyHolds, TallySound, TallyRow
<1>5. GameHolds' /\ LastHolds' /\ HeldHolds'
      BY DEF OInv, GameHolds, LastHolds, HeldHolds, Coming
<1>6. RowsHold'
  <2>1. ASSUME NEW i \in Open PROVE OpenHolds(rows[i])'
    <3>1. OpenHolds(rows[i]) /\ i \in DOMAIN rows
          BY DEF OInv, RowsHold, Open
    <3> QED BY <1>1, <3>1, LookType DEF OpenHolds
  <2>2. \A i \in DOMAIN rows' : rows'[i].during # {}
        BY <1>1 DEF OInv, RowsHold
  <2> QED BY <1>1, <2>1, <2>2 DEF OInv, RowsHold
<1>7. LookHolds'
  <2>1. \A i \in Open : i \in DOMAIN rows
        BY DEF Open
  <2> QED BY <1>1, <2>1, LookType DEF LookHolds
<1>8. ClosedHolds'
  <2>1. CASE mem'.closed = mem.closed
        BY <1>1, <1>2, <2>1 DEF OInv, ClosedHolds, Coming, Types
  <2>2. CASE mem'.closed.row = Current /\ Closing
    <3>1. Open # {} /\ Current \in Open /\ Current \in DOMAIN rows
          BY <2>2, OpenRow DEF Closing
    <3>2. PICK m \in rows[Current].during : m < game.n
          BY <2>2, SeenBefore
    <3>3. m \in rows'[Current].during /\ game.n \in rows'[Current].during /\ m \in Nat
          BY <1>1, <3>1, <3>2, LookType, OpenRow, Constants DEF Match
    <3>4. m <= Coming' /\ Coming' <= game.n
          BY <3>2, <3>3, LookType DEF Coming
    <3> QED BY <2>2, <3>3, <3>4 DEF ClosedHolds, Spans
  <2> QED BY <2>1, <2>2
<1>9. FixHolds' /\ ResultsHold'
      BY <1>1, <1>2 DEF OInv, FixHolds, ResultsHold, Types
<1> QED BY <1>3, <1>4, <1>5, <1>6, <1>7, <1>8, <1>9 DEF OInv

LEMMA CommitFailsInv == MatchInv /\ CommitFails => MatchInv'
<1> SUFFICES ASSUME MatchInv, CommitFails PROVE MatchInv'
    OBVIOUS
<1>1. /\ look # None /\ look' = None /\ mem' = MemoryAfter /\ rows' = Unwritten
      /\ UNCHANGED <<game, fix>> /\ past' \in Past /\ past'.seen = past.seen
      BY FaultIs DEF CommitFails, MatchInv, Types
<1>2. Grown(rows')
      BY <1>1, UnwrittenGrown
<1> QED BY <1>1, <1>2, StageMemory, GrownInv

LEMMA StageRefusedInv == MatchInv /\ StageRefused => MatchInv'
<1> SUFFICES ASSUME MatchInv, StageRefused PROVE MatchInv'
    OBVIOUS
<1>1. /\ look # None /\ look' = None /\ rows' = Unwritten
      /\ UNCHANGED <<game, fix>> /\ past' \in Past /\ past'.seen = past.seen
      BY FaultIs DEF StageRefused, MatchInv, Types
<1>2. Grown(rows')
      BY <1>1, UnwrittenGrown
<1>3. /\ mem' \in Memory /\ mem'.last = mem.last /\ mem'.held = mem.held
      /\ mem'.closed = mem.closed
      /\ \A p \in Player : TallySound(mem'.tally[p], p)
  <2> DEFINE tally == [p \in Player |-> Later(mem.tally[p])]
  <2>1. mem \in Memory /\ mem' = [mem EXCEPT !.tally = tally]
        BY DEF MatchInv, Types, Memory, StageRefused
  <2>2. \A p \in Player : TallySound(tally[p], p)
        BY StageTally
  <2>3. tally \in [Player -> {None} \cup Tally]
        BY <2>2 DEF TallySound
  <2> HIDE DEF tally
  <2> QED BY <2>1, <2>2, <2>3 DEF Memory
<1> QED BY <1>1, <1>2, <1>3, GrownInv

(* The lines of the open match as the stage writes them.                   *)
LEMMA LinesType ==
  ASSUME MatchInv, Open # {}
  PROVE  LinesWritten \in [Player -> Kills]
<1>1. rows[Current].lines \in [Player -> Kills]
      BY OpenRow DEF Row
<1>2. ASSUME NEW p \in Player, mem.tally[p] # None
      PROVE  CloseLine(mem.tally[p]) \in Kills /\ TallyRow(mem.tally[p]) \in Kills
      BY <1>2, TallyRowType DEF CloseLine, Tally
<1> QED BY <1>1, <1>2 DEF LinesWritten

LEMMA AppendRow ==
  ASSUME NEW w, w \in Seq(Row), NEW r, r \in Row
  PROVE  /\ Append(w, r) \in Seq(Row) /\ DOMAIN Append(w, r) = DOMAIN w \cup {Len(w) + 1}
         /\ Len(w) + 1 \notin DOMAIN w
         /\ \A i \in DOMAIN w : Append(w, r)[i] = w[i]
         /\ Append(w, r)[Len(w) + 1] = r
<1>1. /\ Append(w, r) \in Seq(Row) /\ Len(Append(w, r)) = Len(w) + 1
      /\ \A i \in 1 .. Len(w) : Append(w, r)[i] = w[i]
      /\ Append(w, r)[Len(w) + 1] = r
      BY AppendProperties
<1>2. /\ DOMAIN w = 1 .. Len(w) /\ Len(w) \in Nat
      /\ DOMAIN Append(w, r) = 1 .. Len(Append(w, r))
      BY <1>1, LenProperties
<1> QED BY <1>1, <1>2

LEMMA FirstRow ==
  ASSUME MatchInv, look # None
  PROVE  LET r == NewRow(look.map, look.of)
         IN  /\ r \in Row /\ r.open /\ ~r.late /\ r.result = NoResult
             /\ r.during = {look.of} /\ r.map = look.map
<1> DEFINE lines == [p \in Player |-> 0]
<1>1. lines \in [Player -> Kills] /\ NoResult \in Result
      BY Constants DEF Kills, Result, NoResult
<1>2. {look.of} \in SUBSET Match /\ look.map \in Map
      BY LookType
<1>3. NewRow(look.map, look.of) =
        [map |-> look.map, open |-> TRUE, result |-> NoResult, late |-> FALSE,
         during |-> {look.of}, lines |-> lines]
      BY DEF NewRow
<1> HIDE DEF lines
<1> QED BY <1>1, <1>2, <1>3 DEF Row

(* The match a look begins: where no other is open.                        *)
LEMMA BegunInv ==
  ASSUME MatchInv, look # None, NEW w \in Seq(Row), DOMAIN w = DOMAIN rows,
         rows' = Append(w, NewRow(look.map, look.of)),
         \A i \in DOMAIN rows :
            \/ w[i] = rows[i] /\ i \notin Open
            \/ /\ i \in Open /\ ~w[i].open
               /\ w[i].during = rows[i].during
               /\ ~w[i].late => Coming \in w[i].during
               /\ ~w[i].late /\ w[i].result # NoResult => Spans(w[i].during, w[i].result.of),
         look' = None, mem' \in Memory, mem'.last = mem.last, mem'.held \in {mem.held, None},
         \A p \in Player : TallySound(mem'.tally[p], p),
         \/ mem'.closed = mem.closed
         \/ mem'.closed \in Closed /\ mem'.closed.row \in Open,
         past' \in Past, past'.seen = past.seen, UNCHANGED <<game, fix>>
  PROVE  MatchInv'
<1> USE DEF MatchInv
<1> DEFINE new == Len(w) + 1
           r == NewRow(look.map, look.of)
<1>1. /\ r \in Row /\ r.open /\ ~r.late /\ r.result = NoResult
      /\ r.during = {look.of} /\ r.map = look.map
      BY FirstRow
<1> HIDE DEF r
<1>2. /\ rows' \in Seq(Row) /\ DOMAIN rows' = DOMAIN rows \cup {new} /\ new \notin DOMAIN rows
      /\ \A i \in DOMAIN rows : rows'[i] = w[i]
      /\ rows'[new] = r
      BY <1>1, AppendRow DEF r
<1> HIDE DEF new
<1>3. /\ \A i \in DOMAIN rows : w[i].during = rows[i].during
      /\ \A i \in DOMAIN rows : ~w[i].open
      /\ Open' = {new} /\ Open \subseteq DOMAIN rows
      /\ \A i \in Open : ~rows[i].late
      BY <1>1, <1>2 DEF Open, OInv, RowsHold, OpenHolds
<1>4. Types'
  <2>1. mem'.closed # None => mem'.closed.row \in DOMAIN rows'
        BY <1>2, <1>3 DEF Types
  <2> QED BY <1>2, <2>1 DEF Types
<1>5. TallyHolds'
      BY DEF TallyHolds, TallySound, TallyRow
<1>6. GameHolds' /\ LastHolds' /\ HeldHolds'
      BY DEF OInv, GameHolds, LastHolds, HeldHolds, Coming
<1>7. RowsHold'
  <2>1. OpenHolds(rows[new])'
        BY <1>1, <1>2, LookType DEF OpenHolds
  <2>2. \A i \in DOMAIN rows' : rows'[i].during # {}
    <3>1. ASSUME NEW i \in DOMAIN rows PROVE rows'[i].during # {}
          BY <1>2, <1>3 DEF OInv, RowsHold
    <3> QED BY <1>1, <1>2, <3>1
  <2> QED BY <1>3, <2>1, <2>2 DEF RowsHold
<1>8. LookHolds'
      BY <1>1, <1>2, <1>3, LookType DEF LookHolds
<1>9. ClosedHolds'
  <2>1. CASE mem'.closed = mem.closed /\ (mem.closed # None => mem.closed.row \notin Open)
        BY <1>2, <2>1 DEF OInv, ClosedHolds, Coming, Types
  <2>2. ASSUME mem'.closed.row \in Open, mem'.closed # None PROVE ClosedHolds'
    <3> DEFINE i == mem'.closed.row
    <3>1. rows'[i] = w[i] /\ (~w[i].late => Coming \in w[i].during) /\ i \in DOMAIN rows
          BY <1>2, <1>3, <2>2
    <3>2. Coming' = Coming /\ Coming \in Int
          BY LookType DEF Coming
    <3> QED BY <3>1, <3>2 DEF ClosedHolds, Spans
  <2>3. CASE mem'.closed = None
        BY <2>3 DEF ClosedHolds
  <2> QED BY <2>1, <2>2, <2>3
<1>10. FixHolds'
       BY <1>2, <1>3 DEF OInv, FixHolds, Types
<1>11. ResultsHold'
       BY <1>1, <1>2, <1>3 DEF OInv, ResultsHold
<1> QED BY <1>4, <1>5, <1>6, <1>7, <1>8, <1>9, <1>10, <1>11 DEF OInv

LEMMA ClosingResultType ==
  ASSUME MatchInv, look # None, Closing
  PROVE  /\ ClosingResult \in Result
         /\ ClosingResult # NoResult =>
               ClosingResult.of \in rows[Current].during \/ ClosingResult.of = Coming
<1>1. Open # {} /\ Current \in Open
      BY OpenRow DEF Closing
<1>2. CASE Ended
  <2>1. EndHolds(look.ended) /\ look.ended \in Result /\ ClosingResult = look.ended
        BY <1>2, LookType DEF Ended, ClosingResult
  <2> QED BY <1>1, <2>1 DEF EndHolds, Result
<1>3. CASE ~Ended
      BY <1>3, TakenType DEF ClosingResult
<1> QED BY <1>2, <1>3

LEMMA MatchStageInv == MatchInv /\ MatchStage => MatchInv'
<1> SUFFICES ASSUME MatchInv, MatchStage PROVE MatchInv'
    OBVIOUS
<1> DEFINE isLate == look.of # Max(rows[Current].during) + 1 \/ ~look.young
           closed == [rows[Current] EXCEPT !.open = FALSE, !.result = ClosingResult,
                                           !.late = isLate, !.lines = LinesWritten]
           seen == [rows[Current] EXCEPT !.during = @ \cup {look.of}, !.lines = LinesWritten]
<1>1. /\ look # None /\ look' = None /\ mem' = MemoryAfter /\ rows' = RowsWritten
      /\ UNCHANGED <<game, fix>>
      BY DEF MatchStage
<1>2. past' \in Past /\ past'.seen = past.seen
  <2> DEFINE b == past.astray \/ (Stale /\ \E p \in Tallies : past.since[p] < look.of)
             given == past.twice \cup GivenBefore
  <2>1. b \in BOOLEAN /\ past \in Past
        BY DEF MatchInv, Types
  <2>2. past' = [past EXCEPT !.astray = b, !.twice = given]
        BY DEF MatchStage
  <2>3. given \in SUBSET Player
        BY <2>1 DEF Past, GivenBefore, Tallies
  <2> HIDE DEF b, given
  <2> QED BY <2>1, <2>2, <2>3 DEF Past
<1>3. rows \in Seq(Row) /\ DOMAIN rows = 1 .. Len(rows)
      BY DEF MatchInv, Types
<1>4. CASE Open = {}
  <2>1. rows' = Append(rows, NewRow(look.map, look.of)) /\ ~Closing
        BY <1>1, <1>4 DEF RowsWritten, Closing
  <2> QED BY <1>1, <1>2, <1>3, <1>4, <2>1, StageMemory, BegunInv
<1>5. CASE Closing
  <2>1. /\ Open = {Current} /\ rows[Current] \in Row /\ Current \in 1 .. Len(rows)
        /\ rows[Current].during \in SUBSET Match /\ rows[Current].during # {}
        BY <1>3, <1>5, OpenRow DEF Closing
  <2>2. isLate \in BOOLEAN
        OBVIOUS
  <2>3. rows' = Append([rows EXCEPT ![Current] = closed], NewRow(look.map, look.of))
    <3>1. [rows EXCEPT ![Current].open = FALSE, ![Current].result = ClosingResult,
                       ![Current].late = isLate, ![Current].lines = LinesWritten]
          = [rows EXCEPT ![Current] = closed]
          BY <1>3, <2>1 DEF Row
    <3> QED BY <1>1, <1>5, <2>1, <3>1 DEF RowsWritten, Closing
  <2>4. ~isLate => /\ look.young /\ Coming \in rows[Current].during
    <3>1. Max(rows[Current].during) \in rows[Current].during
          BY <2>1, Extremes
    <3>2. Max(rows[Current].during) \in Nat
          BY <2>1, <3>1, Constants DEF Match
    <3> QED BY <1>1, <3>1, <3>2, LookType DEF Coming
  <2> HIDE DEF isLate
  <2>5. /\ closed \in Row /\ ~closed.open /\ closed.during = rows[Current].during
        /\ closed.late = isLate /\ closed.result = ClosingResult
    <3>1. LinesWritten \in [Player -> Kills] /\ ClosingResult \in Result
          BY <1>1, <1>5, LinesType, ClosingResultType DEF Closing
    <3> QED BY <2>1, <2>2, <3>1 DEF Row
  <2> HIDE DEF closed
  <2>6. /\ ~closed.late => Coming \in closed.during
        /\ ~closed.late /\ closed.result # NoResult =>
              Spans(closed.during, closed.result.of)
    <3>1. ~closed.late => Coming \in closed.during
          BY <2>4, <2>5
    <3>2. \A n \in closed.during : n \in Int
          BY <2>1, <2>5, Constants DEF Match
    <3>3. closed.result # NoResult =>
            closed.result.of \in closed.during \/ closed.result.of = Coming
          BY <1>1, <1>5, <2>5, ClosingResultType
    <3> QED BY <3>1, <3>2, <3>3 DEF Spans
  <2> DEFINE w == [rows EXCEPT ![Current] = closed]
  <2>7. /\ w \in Seq(Row) /\ DOMAIN w = DOMAIN rows
        /\ \A i \in DOMAIN rows : w[i] = IF i = Current THEN closed ELSE rows[i]
        BY <1>3, <2>1, <2>5, ExceptSeq
  <2>8. rows' = Append(w, NewRow(look.map, look.of))
        BY <2>3
  <2> HIDE DEF w
  <2>9. /\ MemoryAfter.closed \in Closed /\ MemoryAfter.closed.row \in Open
        BY <1>1, <1>5, <2>1, StageMemory
  <2> QED BY <1>1, <1>2, <2>1, <2>5, <2>6, <2>7, <2>8, <2>9, StageMemory, BegunInv
<1>6. CASE Open # {} /\ ~Closing
  <2>1. /\ Open = {Current} /\ rows[Current] \in Row /\ Current \in 1 .. Len(rows)
        BY <1>3, <1>6, OpenRow
  <2>2. rows' = [rows EXCEPT ![Current] = seen]
    <3>1. [rows EXCEPT ![Current].during = @ \cup {look.of}, ![Current].lines = LinesWritten]
          = [rows EXCEPT ![Current] = seen]
          BY <1>3, <2>1 DEF Row
    <3> QED BY <1>1, <1>6, <3>1 DEF RowsWritten, Closing
  <2>3. /\ seen \in Row /\ seen.open = rows[Current].open
        /\ seen.result = rows[Current].result /\ seen.late = rows[Current].late
        /\ seen.map = rows[Current].map
        /\ seen.during = rows[Current].during \cup {look.of}
    <3>1. LinesWritten \in [Player -> Kills]
          BY <1>6, LinesType
    <3>2. rows[Current].during \cup {look.of} \in SUBSET Match
          BY <1>1, <2>1, LookType DEF Row
    <3> QED BY <2>1, <3>1, <3>2 DEF Row
  <2> HIDE DEF seen
  <2>4. Grown(rows')
        BY <1>1, <1>6, <2>2, <2>3, GrownRows
  <2> QED BY <1>1, <1>2, <1>6, <2>4, StageMemory, GrownInv
<1> QED BY <1>4, <1>5, <1>6

-----------------------------------------------------------------------------
(* A look *)

(* A counter started again or did not, and counts the kills made since.    *)
LEMMA CounterType ==
  ASSUME MatchInv, NEW on, NEW anew, NEW made \in [Player -> Kills], NEW scored,
         Found(on, anew, made, scored), NEW p \in Player
  PROVE  /\ Counter(p, anew, made) \in Kills /\ made[p] \in Nat
         /\ past.seen[p] + made[p] \in Kills /\ past.seen[p] + made[p] <= MAX_KILLS
         /\ p \notin on => made[p] = 0 /\ Counter(p, anew, made) = game.kills[p]
         /\ Counter(p, anew, made) \in {made[p], game.kills[p] + made[p]}
         /\ p \notin anew => Counter(p, anew, made) = game.kills[p] + made[p]
<1>1. /\ game.kills[p] \in Nat /\ past.seen[p] \in Nat /\ game.kills[p] <= past.seen[p]
      /\ made[p] \in Nat
      BY Constants DEF MatchInv, Types, Game, Past, TallyHolds, Kills
<1>2. /\ past.seen[p] + made[p] <= MAX_KILLS
      /\ p \notin on => p \notin anew /\ ~(made[p] > 0)
      BY DEF Found
<1>3. CASE p \in anew
      BY <1>1, <1>2, <1>3, Constants DEF Counter, Kills
<1>4. CASE p \notin anew
      BY <1>1, <1>2, <1>4, Constants DEF Counter, Kills
<1> QED BY <1>3, <1>4

(* What a tally and its player's kills are after a look: k is the counter  *)
(* it read, seen the kills seen until then, made the new ones.             *)
LEMMA TalliedSound ==
  ASSUME NEW t \in {None} \cup Tally, NEW kills \in Nat, NEW seen \in Nat, NEW made \in Nat,
         NEW k \in Nat, kills <= seen, seen + made <= MAX_KILLS,
         k \in {made, kills + made},
         t # None => TallyRow(t) <= seen /\ kills \in {0, t.last},
         NEW now \in {"since", "now"}
  PROVE  /\ Tallied(t, k, now) \in Tally /\ k <= seen + made
         /\ TallyRow(Tallied(t, k, now)) <= seen + made
         /\ Tallied(t, k, now).last = k
<1>1. k \in Kills /\ k <= seen + made /\ seen + made \in Nat
      BY Constants DEF Kills
<1>2. CASE t = None
      BY <1>1, <1>2, Constants DEF Tallied, NewTally, TallyRow, Tally, Kills
<1>3. CASE t # None
  <2>1. /\ t \in Tally /\ t.banked \in Nat /\ t.last \in Nat /\ t.banked + t.last <= seen
        /\ kills = 0 \/ kills = t.last
        BY <1>3, Constants DEF Tally, Kills, TallyRow
  <2>2. CASE k < t.last
    <3>1. k = made
          BY <2>1, <2>2
    <3>2. t.banked + t.last \in Kills /\ t.banked + t.last + k <= seen + made
          BY <2>1, <3>1, Constants DEF Kills
    <3>3. Tallied(t, k, now) = [t EXCEPT !.banked = @ + t.last, !.last = k, !.dropped = now]
          BY <1>3, <2>2 DEF Tallied
    <3> QED BY <1>1, <2>1, <3>2, <3>3 DEF TallyRow, Tally
  <2>3. CASE ~(k < t.last)
    <3>1. t.banked + k <= seen + made
          BY <2>1, <2>3
    <3>2. Tallied(t, k, now) = [t EXCEPT !.last = k]
          BY <1>3, <2>3 DEF Tallied
    <3> QED BY <1>1, <2>1, <3>1, <3>2 DEF TallyRow, Tally
  <2> QED BY <2>2, <2>3
<1> QED BY <1>2, <1>3

(* An end a look sees is of a match before the one it is in.               *)
LEMMA EndSeenHolds ==
  ASSUME MatchInv, look = None, NEW st \in BOOLEAN, NEW score \in Nat, score >= game.score
  PROVE  /\ EndSeen(st, score) \in Result
         /\ EndSeen(st, score) # NoResult => EndHolds(EndSeen(st, score))
<1>1. CASE EndSeen(st, score) = NoResult
      BY <1>1, Constants DEF NoResult, Result
<1>2. CASE EndSeen(st, score) # NoResult
  <2>1. Boundary(mem.last, score) /\ mem.last # None
        BY <1>2 DEF EndSeen, Boundary
  <2>2. mem.last \in Last
        BY <2>1 DEF MatchInv, Types, Memory
  <2>3. /\ mem.last.of \in Nat /\ mem.last.of \in 0 .. MAX_MATCHES /\ mem.last.score \in Nat
        /\ game.n \in Nat /\ game.score \in Nat
        BY <2>2, Constants DEF Last, Match, MatchInv, Types, Game
  <2>4. mem.last.of < game.n
        BY <2>1, <2>3 DEF MatchInv, OInv, LastHolds, Boundary
  <2>5. \A i \in Open : mem.last.of \in rows[i].during
        BY <2>1 DEF MatchInv, OInv, LookHolds
  <2>6. CASE Taken(mem.held) # NoResult
    <3>1. EndSeen(st, score) = Taken(mem.held)
          BY <1>2, <2>6 DEF EndSeen
    <3> QED BY <2>4, <2>5, <2>6, <3>1, TakenType DEF EndHolds
  <2>7. CASE Taken(mem.held) = NoResult
    <3>1. EndSeen(st, score) = [by |-> "look", of |-> mem.last.of]
          BY <1>2, <2>7 DEF EndSeen
    <3> QED BY <2>3, <2>4, <2>5, <3>1 DEF EndHolds, Result
  <2> QED BY <2>6, <2>7
<1> QED BY <1>1, <1>2

(* Each look is one Observe, of what its sets allow.                       *)
LEMMA LooksObserve ==
  ASSUME MatchInv, Looks
  PROVE  \E st, pl, scored \in BOOLEAN, on, anew, gone \in SUBSET Player,
            made \in [Player -> Kills] : Observe(st, pl, on, anew, made, scored, gone)
<1>1. PICK st, pl \in BOOLEAN : \E scored \in {FALSE, st}, on \in SUBSET (IF pl THEN game.kind.players ELSE {}) :
        \E anew \in SUBSET {p \in on : game.kills[p] > 0}, gone \in SUBSET (Tallies \ on),
           made \in [Player -> IF on = {} THEN {0} ELSE Kills] :
            Observe(st, pl, on, anew, made, scored, gone)
      BY DEF Looks
<1>2. PICK scored \in {FALSE, st}, on \in SUBSET (IF pl THEN game.kind.players ELSE {}) :
        \E anew \in SUBSET {p \in on : game.kills[p] > 0}, gone \in SUBSET (Tallies \ on),
           made \in [Player -> IF on = {} THEN {0} ELSE Kills] :
            Observe(st, pl, on, anew, made, scored, gone)
      BY <1>1
<1>3. PICK anew \in SUBSET {p \in on : game.kills[p] > 0}, gone \in SUBSET (Tallies \ on),
           made \in [Player -> IF on = {} THEN {0} ELSE Kills] :
            Observe(st, pl, on, anew, made, scored, gone)
      BY <1>2
<1>4. game.kind.players \subseteq Player
      BY KindAssumption DEF MatchInv, Types, Game
<1>5. on \in SUBSET Player /\ anew \in SUBSET Player /\ gone \in SUBSET Player /\ scored \in BOOLEAN
      BY <1>4 DEF Tallies
<1>6. made \in [Player -> Kills]
  <2>1. {0} \subseteq Kills
        BY Constants DEF Kills
  <2> QED BY <2>1
<1> QED BY <1>3, <1>5, <1>6

LEMMA ObserveInv ==
  ASSUME MatchInv, NEW st \in BOOLEAN, NEW pl \in BOOLEAN, NEW scored \in BOOLEAN,
         NEW on \in SUBSET Player, NEW anew \in SUBSET Player, NEW made \in [Player -> Kills],
         NEW gone \in SUBSET Player, Observe(st, pl, on, anew, made, scored, gone)
  PROVE  MatchInv'
<1> USE DEF MatchInv
<1> DEFINE score == game.score + (IF scored THEN 1 ELSE 0)
           end == EndSeen(st, score)
           kills == [p \in Player |-> Counter(p, anew, made)]
           now == IF st THEN "now" ELSE "since"
           last == IF st THEN [map |-> game.map, score |-> score, of |-> game.n] ELSE mem.last
           held == IF end # NoResult THEN None ELSE mem.held
           tally == [p \in Player |->
                       IF p \in on THEN Tallied(mem.tally[p], Counter(p, anew, made), now)
                       ELSE IF p \in gone THEN [mem.tally[p] EXCEPT !.dirty = TRUE]
                       ELSE mem.tally[p]]
           seen == [p \in Player |-> past.seen[p] + made[p]]
           since == [p \in Player |->
                       IF p \in on /\ mem.tally[p] = None THEN game.list ELSE past.since[p]]
           missed == past.missed \cup Unnoticed(on, anew, made)
<1>1. /\ look = None /\ Found(on, anew, made, scored)
      /\ gone \subseteq {p \in Player \ on : mem.tally[p] # None}
      /\ ~st => ~scored
      /\ UNCHANGED <<fix, rows>>
      BY DEF Observe
<1>2. game' = [game EXCEPT !.score = score, !.kills = kills]
      BY DEF Observe
<1>3. mem' = [mem EXCEPT !.last = last, !.held = held, !.tally = tally, !.failures = 0,
                         !.status = TRUE]
  <2>1. mem \in Memory
        BY DEF Types
  <2> QED BY <2>1 DEF Observe, Memory
<1>4. look' = IF st THEN [map |-> game.map, of |-> game.n, young |-> game.young, ended |-> end]
              ELSE None
      BY DEF Observe
<1>5. past' = [past EXCEPT !.seen = seen, !.missed = missed, !.since = since]
  <2>1. past \in Past
        BY DEF Types
  <2> QED BY <2>1 DEF Observe, Past
<1>6. /\ game \in Game /\ mem \in Memory /\ past \in Past
      /\ game.n \in Match /\ game.list \in Match /\ game.map \in Map /\ game.young \in BOOLEAN
      /\ game.score \in Nat
      BY Constants DEF Types, Game
<1>7. score \in 0 .. MAX_SCORE /\ score >= game.score /\ (~st => score = game.score)
      /\ score \in Nat
      BY <1>1, <1>6, Constants DEF Found, Game
<1>8. end \in Result /\ (end # NoResult => EndHolds(end)) /\ (~st => end = NoResult)
  <2>1. ~st => end = NoResult
        BY DEF EndSeen
  <2> QED BY <1>1, <1>7, <2>1, EndSeenHolds
<1> HIDE DEF score, end
<1>9. ASSUME NEW p \in Player
      PROVE  /\ kills[p] \in Kills /\ seen[p] \in Kills /\ kills[p] <= seen[p]
             /\ tally[p] \in {None} \cup Tally
             /\ tally[p] # None => TallyRow(tally[p]) <= seen[p] /\ kills[p] \in {0, tally[p].last}
  <2> DEFINE k == Counter(p, anew, made)
  <2>1. /\ game.kills[p] \in Nat /\ past.seen[p] \in Nat /\ game.kills[p] <= past.seen[p]
        /\ mem.tally[p] \in {None} \cup Tally
        /\ mem.tally[p] # None =>
              TallyRow(mem.tally[p]) <= past.seen[p] /\ game.kills[p] \in {0, mem.tally[p].last}
        BY <1>6, Constants DEF Game, Past, Memory, TallyHolds, Kills
  <2>2. /\ k \in Kills /\ k \in Nat /\ made[p] \in Nat
        /\ past.seen[p] + made[p] \in Kills /\ past.seen[p] + made[p] <= MAX_KILLS
        /\ p \notin on => made[p] = 0 /\ k = game.kills[p]
        /\ k \in {made[p], game.kills[p] + made[p]}
        BY <1>1, CounterType, Constants DEF Kills
  <2> HIDE DEF k
  <2>3. kills[p] = k /\ seen[p] = past.seen[p] + made[p]
        BY DEF k
  <2>4. k <= past.seen[p] + made[p]
        BY <2>1, <2>2
  <2> HIDE DEF kills, seen
  <2>7. CASE p \in on
    <3>1. tally[p] = Tallied(mem.tally[p], k, now)
          BY <2>7 DEF k
    <3>2. now \in {"since", "now"}
          OBVIOUS
    <3> HIDE DEF tally, now
    <3>3. /\ Tallied(mem.tally[p], k, now) \in Tally
          /\ TallyRow(Tallied(mem.tally[p], k, now)) <= past.seen[p] + made[p]
          /\ Tallied(mem.tally[p], k, now).last = k
          BY <2>1, <2>2, <3>2, TalliedSound, SMTT(60)
    <3> QED BY <2>2, <2>3, <2>4, <3>1, <3>3
  <2>8. CASE p \notin on
    <3>1. k = game.kills[p] /\ made[p] = 0
          BY <2>2, <2>8
    <3>2. /\ tally[p] \in {None} \cup Tally
          /\ tally[p] # None => /\ mem.tally[p] # None /\ TallyRow(tally[p]) = TallyRow(mem.tally[p])
                                /\ tally[p].last = mem.tally[p].last
      <4>1. CASE p \in gone
        <5>1. mem.tally[p] \in Tally /\ tally[p] = [mem.tally[p] EXCEPT !.dirty = TRUE]
              BY <1>1, <2>1, <2>8, <4>1
        <5> HIDE DEF tally
        <5> QED BY <1>1, <4>1, <5>1 DEF Tally, TallyRow
      <4>2. CASE p \notin gone
        <5>1. tally[p] = mem.tally[p]
              BY <2>8, <4>2
        <5> HIDE DEF tally
        <5> QED BY <2>1, <5>1
      <4> QED BY <4>1, <4>2
    <3> HIDE DEF tally
    <3>3. past.seen[p] + made[p] = past.seen[p]
          BY <2>1, <3>1
    <3> QED BY <2>1, <2>2, <2>3, <2>4, <3>1, <3>2, <3>3
  <2> QED BY <2>7, <2>8
<1>10. kills \in [Player -> Kills] /\ seen \in [Player -> Kills]
       /\ tally \in [Player -> {None} \cup Tally] /\ missed \in SUBSET Player
  <2>1. missed \in SUBSET Player
        BY <1>1, <1>6 DEF Past, Unnoticed, Found
  <2>2. tally \in [Player -> {None} \cup Tally]
        BY <1>9
  <2> QED BY <1>9, <2>1, <2>2
<1>11. since \in [Player -> 0 .. MAX_MATCHES]
       BY <1>6, Constants DEF Past, Match
<1>12. /\ last \in {None} \cup Last /\ held \in {None} \cup Held
       /\ held # None => mem.held # None /\ held = mem.held
       BY <1>6, <1>7 DEF Memory, Last
<1> HIDE DEF kills, seen, tally, since, missed, held
<1>13. /\ game' \in Game /\ game'.n = game.n /\ game'.list = game.list /\ game'.map = game.map
       /\ game'.young = game.young /\ game'.score = score /\ game'.kills = kills
       BY <1>2, <1>6, <1>7, <1>10 DEF Game
<1>14. /\ mem' \in Memory /\ mem'.last = last /\ mem'.held = held /\ mem'.closed = mem.closed
       /\ mem'.tally = tally
  <2>1. 0 \in 0 .. OFFLINE_AFTER_FAILURES
        BY Constants
  <2> HIDE DEF last
  <2> QED BY <1>3, <1>6, <1>10, <1>12, <2>1 DEF Memory
<1>15. past' \in Past /\ past'.seen = seen
       BY <1>5, <1>6, <1>10, <1>11 DEF Past
<1>16. look' \in {None} \cup Looked
       BY <1>4, <1>6, <1>8 DEF Looked
<1>17. Types'
       BY <1>1, <1>13, <1>14, <1>15, <1>16 DEF Types
<1>18. TallyHolds'
       BY <1>9, <1>13, <1>14, <1>15 DEF TallyHolds
<1>19. GameHolds' /\ HeldHolds' /\ ClosedHolds' /\ FixHolds' /\ ResultsHold'
       BY <1>1, <1>12, <1>13, <1>14 DEF OInv, GameHolds, HeldHolds, ClosedHolds, FixHolds,
          ResultsHold, Coming
<1>20. LastHolds'
  <2>1. CASE st
        BY <1>6, <1>7, <1>13, <1>14, <2>1, Constants DEF LastHolds, Match
  <2>2. CASE ~st
        BY <1>7, <1>13, <1>14, <2>2 DEF OInv, LastHolds
  <2> QED BY <2>1, <2>2
<1>21. RowsHold'
       BY <1>1, <1>13 DEF OInv, RowsHold, OpenHolds, Open
<1>22. LookHolds'
  <2>1. CASE st
    <3>1. look' # None
      <4>1. [map |-> game.map, of |-> game.n, young |-> game.young, ended |-> end] \in Looked
            BY <1>6, <1>8 DEF Looked
      <4> QED BY <1>4, <2>1, <4>1, NoneAssumption
    <3>2. PICK e : e = end
          OBVIOUS
    <3>3. /\ look'.of = game.n /\ look'.map = game.map /\ look'.young = game.young
          /\ look'.ended = e /\ mem'.last.of = game.n
          BY <1>4, <1>14, <2>1, <3>2
    <3>4. e # NoResult => EndHolds(e)'
          BY <1>1, <1>8, <1>13, <3>2 DEF EndHolds, Coming, Open
    <3>5. e # NoResult => EndHolds(look.ended)'
          BY <3>3, <3>4
    <3> QED BY <1>13, <3>1, <3>3, <3>5 DEF LookHolds
  <2>2. CASE ~st
        BY <1>1, <1>4, <1>14, <2>2 DEF OInv, LookHolds, Open
  <2> QED BY <2>1, <2>2
<1> QED BY <1>17, <1>18, <1>19, <1>20, <1>21, <1>22 DEF OInv

-----------------------------------------------------------------------------
(* Theorems *)

LEMMA StutterInv == MatchInv /\ UNCHANGED matchVars => MatchInv'
  BY DEF matchVars, MatchInv, Types, TallyHolds, TallyRow, OInv, GameHolds, LastHolds, RowsHold, OpenHolds,
     Open, LookHolds, EndHolds, HeldHolds, ClosedHolds, FixHolds, ResultsHold, Coming

LEMMA NextInv == MatchInv /\ [MatchNext]_matchVars => MatchInv'
<1> SUFFICES ASSUME MatchInv, [MatchNext]_matchVars PROVE MatchInv'
    OBVIOUS
<1>1. CASE Plays
      BY <1>1, AgesInv, NextOnListInv, NextOnStatusInv DEF Plays
<1>2. CASE MinutesPass
      BY <1>2, MinutesPassInv
<1>3. CASE Looks
  <2>1. PICK st, pl, scored \in BOOLEAN, on, anew, gone \in SUBSET Player,
             made \in [Player -> Kills] : Observe(st, pl, on, anew, made, scored, gone)
        BY <1>3, LooksObserve
  <2> QED BY <2>1, ObserveInv
<1>4. CASE MatchStage \/ CommitFails \/ StageRefused
      BY <1>4, MatchStageInv, CommitFailsInv, StageRefusedInv
<1>5. CASE FailedLook \/ FailureNotSaved
      BY <1>5, FailedLookInv, FailureNotSavedInv
<1>6. CASE (\E n \in Match : OnMatchFeed(n)) \/ Correct \/ CorrectFails
      BY <1>6, OnMatchFeedInv, CorrectInv, CorrectFailsInv
<1>7. CASE Restart \/ ForgetRemembered
      BY <1>7, RestartInv, ForgetRememberedInv
<1>8. CASE UNCHANGED matchVars
      BY <1>8, StutterInv
<1> QED BY <1>1, <1>2, <1>3, <1>4, <1>5, <1>6, <1>7, <1>8 DEF MatchNext

THEOREM MatchesHold == MatchSpec => []MatchInv
<1> QED BY InitInv, NextInv, PTL DEF MatchSpec

(* For any number of players, matches and faults: what the worker          *)
(* remembers and writes of a server's matches keeps its type, no line is   *)
(* longer than the kills there can be, and one row at most is open         *)
(* (reconcileMatch).                                                       *)
THEOREM RecordsTyped == MatchSpec => []MatchTypeOK
<1>1. MatchInv => MatchTypeOK
  <2> SUFFICES ASSUME MatchInv PROVE MatchTypeOK
      OBVIOUS
  <2>1. Cardinality(Open) <= 1
    <3>1. CASE Open = {}
          BY <3>1, FS_EmptySet
    <3>2. CASE Open # {}
      <4>1. Open = {Current}
            BY <3>2, OpenRow
      <4>2. Cardinality({Current}) = 1
            BY FS_Singleton
      <4> QED BY <4>1, <4>2
    <3> QED BY <3>1, <3>2
  <2>2. \A i \in DOMAIN rows : rows[i] \in Row
        BY DEF MatchInv, Types
  <2>3. /\ mem.closed # None => mem.closed \in [row : DOMAIN rows, recent : BOOLEAN, byFeed : BOOLEAN]
        /\ fix # None => fix \in [row : DOMAIN rows, of : Match]
        BY DEF MatchInv, Types, Memory, Closed
  <2>4. /\ mem.last \in {None} \cup Last /\ mem.held \in {None} \cup Held
        /\ mem.tally \in [Player -> {None} \cup Tally]
        /\ mem.failures \in 0 .. OFFLINE_AFTER_FAILURES /\ mem.status \in BOOLEAN
        BY DEF MatchInv, Types, Memory
  <2> QED BY <2>1, <2>2, <2>3, <2>4 DEF MatchTypeOK, MatchInv, Types, Game, Past, Row, Last, Held
<1> QED BY <1>1, MatchesHold, PTL

(* For any number of matches and faults, whatever fails and whichever      *)
(* comes first: a match closed as the next one began has a result of its   *)
(* own, from the looks or the feed (reconcileMatch, onMatchFeed).          *)
THEOREM ResultsAreOwn == MatchSpec => []OwnResult
<1>1. MatchInv => OwnResult
  <2> SUFFICES ASSUME MatchInv, NEW i \in DOMAIN rows \ Open, ~rows[i].late, rows[i].result # NoResult
               PROVE  rows[i].result.of \in Min(rows[i].during) .. Max(rows[i].during)
      BY DEF OwnResult
  <2>1. rows[i] \in Row /\ Spans(rows[i].during, rows[i].result.of)
        BY DEF MatchInv, Types, OInv, ResultsHold
  <2>2. rows[i].during \in SUBSET Match /\ rows[i].result.of \in Nat
        BY <2>1, Constants DEF Row, Result
  <2> QED BY <2>1, <2>2, SpanOf
<1> QED BY <1>1, MatchesHold, PTL

-----------------------------------------------------------------------------
(* Sums                                                                    *)

(* Of a property some finite part of S lacks, a smallest such part.        *)
LEMMA SmallestPart ==
  ASSUME NEW S, IsFiniteSet(S), NEW B \in SUBSET SUBSET S, B # {}
  PROVE  \E s \in B : \A t \in SUBSET s : t # s => t \notin B
<1> DEFINE R == StrictSubsetOrdering(S)
<1>1. B \subseteq FiniteSubsetsOf(S)
      BY FS_Subset DEF FiniteSubsetsOf
<1>2. IsWellFoundedOn(R, FiniteSubsetsOf(S))
      BY FS_StrictSubsetOrderingWellFounded
<1>3. \A s, t \in SUBSET S : t \subseteq s /\ t # s => <<t, s>> \in R
      BY DEF StrictSubsetOrdering
<1> HIDE DEF R
<1>4. PICK s \in B : \A t \in B : <<t, s>> \notin R
      BY <1>1, <1>2, WFMin
<1> QED BY <1>3, <1>4

(* The sum of f over S, and the function on the parts of S it is read from. *)
SumOf(f, S) == MapThenSumSet(LAMBDA i : f[i], S)
Some(s) == CHOOSE x \in s : TRUE
Walk(f, S, g) ==
    g = [s \in SUBSET S |-> IF s = {} THEN 0 ELSE f[Some(s)] + g[s \ {Some(s)}]]

LEMMA SumIsWalk ==
  ASSUME NEW f, NEW S
  PROVE  SumOf(f, S) = (CHOOSE g : Walk(f, S, g))[S]
BY DEF SumOf, MapThenSumSet, MapThenFoldSet, Walk, Some

LEMMA WalksAgree ==
  ASSUME NEW f, NEW g, NEW S, NEW T, IsFiniteSet(S), NEW v, NEW w,
         Walk(f, S, v), Walk(g, T, w), \A x \in S \cap T : f[x] = g[x]
  PROVE  \A s \in SUBSET (S \cap T) : v[s] = w[s]
<1> DEFINE B == {s \in SUBSET S : s \subseteq T /\ v[s] # w[s]}
<1> SUFFICES ASSUME B # {} PROVE FALSE
    OBVIOUS
<1>1. PICK s \in B : \A t \in SUBSET s : t # s => t \notin B
  <2> HIDE DEF B
  <2>1. B \in SUBSET SUBSET S
        BY DEF B
  <2> QED BY <2>1, SmallestPart
<1>2. s # {}
      BY DEF Walk
<1>3. Some(s) \in s
      BY <1>2 DEF Some
<1>4. v[s \ {Some(s)}] = w[s \ {Some(s)}]
      BY <1>1, <1>3
<1>5. v[s] = f[Some(s)] + v[s \ {Some(s)}]
      BY <1>2 DEF Walk
<1>6. w[s] = g[Some(s)] + w[s \ {Some(s)}]
  <2>1. s \in SUBSET T
        BY <1>1
  <2> QED BY <1>2, <2>1 DEF Walk
<1>7. f[Some(s)] = g[Some(s)]
      BY <1>1, <1>3
<1> QED BY <1>1, <1>4, <1>5, <1>6, <1>7

LEMMA WalkThere ==
  ASSUME NEW f, NEW S, IsFiniteSet(S)
  PROVE  \E g : Walk(f, S, g)
<1> DEFINE B == {s \in SUBSET S : ~ \E g : Walk(f, s, g)}
<1> SUFFICES ASSUME B # {} PROVE FALSE
    OBVIOUS
<1>1. PICK T \in B : \A t \in SUBSET T : t # T => t \notin B
  <2> HIDE DEF B
  <2>1. B \in SUBSET SUBSET S
        BY DEF B
  <2> QED BY <2>1, SmallestPart
<1> DEFINE On(t) == CHOOSE g : Walk(f, t, g)
<1>2. IsFiniteSet(T)
      BY FS_Subset
<1>3. \A t \in SUBSET T : t # T => Walk(f, t, On(t))
      BY <1>1
<1> HIDE DEF On
<1> DEFINE g == [s \in SUBSET T |->
                   IF s = {} THEN 0 ELSE f[Some(s)] + On(s \ {Some(s)})[s \ {Some(s)}]]
<1>4. ASSUME NEW t \in SUBSET T, t # T PROVE g[t] = On(t)[t]
  <2>1. CASE t = {}
        BY <1>3, <1>4, <2>1 DEF Walk
  <2>2. CASE t # {}
    <3> DEFINE u == t \ {Some(t)}
    <3>1. Some(t) \in t
          BY <2>2 DEF Some
    <3>2. Walk(f, t, On(t)) /\ Walk(f, u, On(u)) /\ IsFiniteSet(t)
          BY <1>2, <1>3, <1>4, <3>1, FS_Subset
    <3>3. On(t)[u] = On(u)[u]
          BY <3>2, WalksAgree
    <3>4. On(t)[t] = f[Some(t)] + On(t)[u]
          BY <2>2, <3>2 DEF Walk
    <3> QED BY <2>2, <3>3, <3>4
  <2> QED BY <2>1, <2>2
<1>5. ASSUME NEW s \in SUBSET T, s # {} PROVE g[s \ {Some(s)}] = On(s \ {Some(s)})[s \ {Some(s)}]
  <2>1. Some(s) \in s
        BY <1>5 DEF Some
  <2> HIDE DEF g
  <2> QED BY <1>4, <2>1
<1>6. Walk(f, T, g)
  <2> DEFINE h == [s \in SUBSET T |-> IF s = {} THEN 0 ELSE f[Some(s)] + g[s \ {Some(s)}]]
  <2>1. \A s \in SUBSET T : g[s] = h[s]
        BY <1>5
  <2>2. g = h
        BY <2>1
  <2> QED BY <2>2 DEF Walk
<1> QED BY <1>1, <1>6

(* What is summed up one after the other, whichever comes first. *)
LEMMA SumSteps ==
  ASSUME NEW f, NEW S, IsFiniteSet(S)
  PROVE  /\ S = {} => SumOf(f, S) = 0
         /\ S # {} => SumOf(f, S) = f[Some(S)] + SumOf(f, S \ {Some(S)})
<1> DEFINE On(t) == CHOOSE g : Walk(f, t, g)
           rest == S \ {Some(S)}
<1>1. IsFiniteSet(rest)
      BY FS_Subset
<1>2. Walk(f, S, On(S)) /\ Walk(f, rest, On(rest))
      BY <1>1, WalkThere
<1>3. SumOf(f, S) = On(S)[S] /\ SumOf(f, rest) = On(rest)[rest]
      BY SumIsWalk
<1> HIDE DEF On
<1>4. On(S)[rest] = On(rest)[rest]
  <2>1. rest \in SUBSET (S \cap rest)
        OBVIOUS
  <2> HIDE DEF rest
  <2>2. \A s \in SUBSET (S \cap rest) : On(S)[s] = On(rest)[s]
        BY <1>1, <1>2, WalksAgree
  <2> QED BY <2>1, <2>2
<1>5. On(S)[S] = IF S = {} THEN 0 ELSE f[Some(S)] + On(S)[rest]
  <2>1. S \in SUBSET S
        OBVIOUS
  <2> QED BY <1>2, <2>1 DEF Walk
<1> HIDE DEF rest
<1>6. SumOf(f, S) = IF S = {} THEN 0 ELSE f[Some(S)] + SumOf(f, rest)
      BY <1>3, <1>4, <1>5
<1> QED BY <1>6 DEF rest

LEMMA SameSum ==
  ASSUME NEW f, NEW g, NEW S, IsFiniteSet(S), \A x \in S : f[x] = g[x]
  PROVE  SumOf(f, S) = SumOf(g, S)
<1> DEFINE v == CHOOSE h : Walk(f, S, h)
           w == CHOOSE h : Walk(g, S, h)
<1>1. Walk(f, S, v) /\ Walk(g, S, w)
      BY WalkThere
<1>2. SumOf(f, S) = v[S] /\ SumOf(g, S) = w[S]
      BY SumIsWalk
<1> HIDE DEF v, w
<1>3. \A s \in SUBSET (S \cap S) : v[s] = w[s]
      BY <1>1, WalksAgree
<1> QED BY <1>2, <1>3

LEMMA SumType ==
  ASSUME NEW f, NEW S, IsFiniteSet(S), \A x \in S : f[x] \in Nat
  PROVE  SumOf(f, S) \in Nat
<1> DEFINE B == {s \in SUBSET S : SumOf(f, s) \notin Nat}
<1> SUFFICES ASSUME B # {} PROVE FALSE
    OBVIOUS
<1>1. PICK s \in B : \A t \in SUBSET s : t # s => t \notin B
  <2> HIDE DEF B
  <2>1. B \in SUBSET SUBSET S
        BY DEF B
  <2> QED BY <2>1, SmallestPart
<1>2. IsFiniteSet(s)
      BY FS_Subset
<1>3. s # {}
  <2>1. s = {} => SumOf(f, s) = 0
        BY <1>2, SumSteps
  <2> QED BY <1>1, <2>1
<1>4. Some(s) \in s
      BY <1>3 DEF Some
<1>5. SumOf(f, s \ {Some(s)}) \in Nat
      BY <1>1, <1>4
<1>6. SumOf(f, s) = f[Some(s)] + SumOf(f, s \ {Some(s)})
      BY <1>2, <1>3, SumSteps
<1> QED BY <1>1, <1>4, <1>5, <1>6

LEMMA SumWithout ==
  ASSUME NEW f, NEW S, IsFiniteSet(S), \A x \in S : f[x] \in Nat, NEW x \in S
  PROVE  SumOf(f, S) = f[x] + SumOf(f, S \ {x})
<1> DEFINE Any(s) == \A z \in s : SumOf(f, s) = f[z] + SumOf(f, s \ {z})
           B == {s \in SUBSET S : ~Any(s)}
<1> SUFFICES ASSUME B # {} PROVE FALSE
    OBVIOUS
<1>1. PICK s \in B : \A t \in SUBSET s : t # s => t \notin B
  <2> HIDE DEF B
  <2>1. B \in SUBSET SUBSET S
        BY DEF B
  <2> QED BY <2>1, SmallestPart
<1>2. PICK z \in s : SumOf(f, s) # f[z] + SumOf(f, s \ {z})
      BY <1>1
<1> DEFINE y == Some(s)
<1>3. s \in SUBSET S /\ IsFiniteSet(s) /\ y \in s
      BY FS_Subset DEF Some
<1>4. SumOf(f, s) = f[y] + SumOf(f, s \ {y})
      BY <1>2, <1>3, SumSteps
<1> HIDE DEF y
<1>5. y # z
      BY <1>2, <1>4
<1>6. Any(s \ {y}) /\ Any(s \ {z})
      BY <1>1, <1>3
<1>7. SumOf(f, s \ {y}) = f[z] + SumOf(f, s \ {y, z})
  <2>1. z \in s \ {y} /\ (s \ {y}) \ {z} = s \ {y, z}
        BY <1>5
  <2> QED BY <1>6, <2>1
<1>8. SumOf(f, s \ {z}) = f[y] + SumOf(f, s \ {y, z})
  <2>1. y \in s \ {z} /\ (s \ {z}) \ {y} = s \ {y, z}
        BY <1>3, <1>5
  <2> QED BY <1>6, <2>1
<1>9. SumOf(f, s \ {y, z}) \in Nat /\ f[y] \in Nat /\ f[z] \in Nat
  <2>1. IsFiniteSet(s \ {y, z}) /\ \A u \in s \ {y, z} : f[u] \in Nat
        BY <1>3, FS_Subset
  <2> QED BY <1>3, <2>1, SumType
<1> HIDE DEF B, Any
<1> QED BY <1>2, <1>4, <1>7, <1>8, <1>9

LEMMA SumWith ==
  ASSUME NEW f, NEW S, IsFiniteSet(S), NEW x, x \notin S, \A y \in S \cup {x} : f[y] \in Nat
  PROVE  SumOf(f, S \cup {x}) = SumOf(f, S) + f[x]
<1>1. IsFiniteSet(S \cup {x}) /\ (S \cup {x}) \ {x} = S
      BY FS_AddElement
<1>2. SumOf(f, S) \in Nat
      BY SumType
<1> QED BY <1>1, <1>2, SumWithout

-----------------------------------------------------------------------------
(* What the lines add up to                                                *)

Shut == DOMAIN rows \ Open
Written(p) == SumOf([i \in Shut |-> rows[i].lines[p]], Shut)
Line(p) == rows[Current].lines[p]

(* A match is open, and seen only in matches before n.                     *)
OnlyBefore(n) == Open # {} /\ \A m \in rows[Current].during : m < n

(* The open match was seen in none after the last status, and in none but  *)
(* earlier ones when the look under way saw its end.                       *)
StatusHolds ==
    /\ look = None /\ mem.last # None /\ Open # {} =>
          \A m \in rows[Current].during : m <= mem.last.of
    /\ look # None /\ Ended /\ Open # {} => OnlyBefore(game.n)

(* Nobody is tallied since a match to come.                                *)
PlayerHolds(p) == mem.tally[p] # None => past.since[p] <= game.list

(* The open match was seen in the game's if it has its map.                *)
MatchHolds ==
    Open # {} /\ game.n \in rows[Current].during => rows[Current].map = game.map

(* The closed lines leave room for the open one, for what is tallied and   *)
(* for the game's counter.  When the match of the open row is over, who is *)
(* not tallied, or only since then, counts beside the line of the row.     *)
Counts(p) ==
    /\ Written(p) + game.kills[p] <= past.seen[p]
    /\ Open # {} => Written(p) + Line(p) <= past.seen[p]
    /\ mem.tally[p] # None => Written(p) + TallyRow(mem.tally[p]) <= past.seen[p]
    /\ OnlyBefore(game.list) =>
          /\ mem.tally[p] = None =>
                Written(p) + Line(p) + game.kills[p] <= past.seen[p]
          /\ mem.tally[p] # None /\ OnlyBefore(past.since[p]) =>
                Written(p) + Line(p) + TallyRow(mem.tally[p]) <= past.seen[p]

(* While nothing goes wrong a match is open from the first look on, the    *)
(* one last seen, and everyone not tallied has no kills in it.             *)
CalmHolds ==
    /\ ~past.astray /\ mem.failures < OFFLINE_AFTER_FAILURES
    /\ look = None => /\ mem.last # None => Open # {}
                      /\ Open # {} => mem.last # None /\ rows[Current].map = mem.last.map
    /\ look # None => /\ mem.last # None /\ mem.last.map = look.map
                      /\ Ended => Open # {}
                      /\ ~Ended /\ Open # {} => rows[Current].map = look.map
Complete(p) ==
    IF mem.tally[p] # None THEN Written(p) + TallyRow(mem.tally[p]) = past.seen[p]
    ELSE /\ Written(p) = past.seen[p] /\ game.kills[p] = 0
         /\ Open # {} => Line(p) = 0

CountInv ==
    /\ StatusHolds /\ \A p \in Player : PlayerHolds(p)
    /\ ~past.astray => MatchHolds /\ \A p \in Player \ past.twice : Counts(p)
    /\ past.calm => /\ CalmHolds
                    /\ \A p \in Player \ (past.twice \cup past.missed) : Complete(p)

(* What is remembered is something.                                        *)
LEMMA NoTally == \A t \in Tally : t # None
  BY NoneAssumption

LEMMA ShutFinite ==
  ASSUME MatchInv
  PROVE  IsFiniteSet(Shut) /\ Shut \subseteq DOMAIN rows
         /\ \A i \in DOMAIN rows : rows[i] \in Row
<1>1. rows \in Seq(Row) /\ DOMAIN rows = 1 .. Len(rows) /\ Len(rows) \in Nat
      BY DEF MatchInv, Types
<1>2. IsFiniteSet(DOMAIN rows) /\ Shut \in SUBSET DOMAIN rows
      BY <1>1, FS_Interval DEF Shut
<1> QED BY <1>1, <1>2, FS_Subset

LEMMA WrittenType ==
  ASSUME MatchInv, NEW p \in Player
  PROVE  Written(p) \in Nat
<1> DEFINE f == [i \in Shut |-> rows[i].lines[p]]
<1>1. \A i \in Shut : f[i] \in Nat
      BY ShutFinite, Constants DEF Row, Kills
<1> HIDE DEF f
<1>2. SumOf(f, Shut) \in Nat
      BY <1>1, ShutFinite, SumType
<1> QED BY <1>2 DEF Written, f

LEMMA WrittenSame ==
  ASSUME MatchInv, Shut' = Shut, NEW p \in Player,
         \A i \in Shut : rows'[i].lines[p] = rows[i].lines[p]
  PROVE  Written(p)' = Written(p)
<1> DEFINE f == [i \in Shut |-> rows[i].lines[p]]
<1>1. [i \in Shut' |-> rows'[i].lines[p]] = f
      OBVIOUS
<1>2. Written(p)' = SumOf([i \in Shut' |-> rows'[i].lines[p]], Shut')
      BY DEF Written
<1> QED BY <1>1, <1>2 DEF Written

(* A row that is closed counts besides.                                    *)
LEMMA WrittenMore ==
  ASSUME MatchInv, MatchInv', NEW p \in Player, NEW c, c \notin Shut, Shut' = Shut \cup {c},
         \A i \in Shut : rows'[i].lines[p] = rows[i].lines[p]
  PROVE  /\ Written(p)' = Written(p) + rows'[c].lines[p]
         /\ rows'[c].lines[p] \in Nat
<1> DEFINE f == [i \in Shut |-> rows[i].lines[p]]
           g == [i \in Shut \cup {c} |-> rows'[i].lines[p]]
<1>1. Written(p) = SumOf(f, Shut) /\ Written(p)' = SumOf(g, Shut \cup {c})
  <2>1. Written(p)' = SumOf([i \in Shut' |-> rows'[i].lines[p]], Shut')
        BY DEF Written
  <2> QED BY <2>1 DEF Written
<1>2. IsFiniteSet(Shut) /\ Shut' \subseteq DOMAIN rows' /\ \A i \in DOMAIN rows' : rows'[i] \in Row
  <2>1. MatchInv' => Shut' \subseteq DOMAIN rows' /\ \A i \in DOMAIN rows' : rows'[i] \in Row
        BY DEF MatchInv, Types, Shut
  <2> QED BY <2>1, ShutFinite
<1>3. \A i \in Shut \cup {c} : g[i] \in Nat
      BY <1>2, Constants DEF Row, Kills
<1>4. /\ \A i \in Shut : f[i] = g[i]
      /\ g[c] = rows'[c].lines[p]
      OBVIOUS
<1> HIDE DEF f, g
<1>5. SumOf(g, Shut \cup {c}) = SumOf(g, Shut) + g[c]
      BY <1>2, <1>3, SumWith
<1>6. SumOf(f, Shut) = SumOf(g, Shut)
      BY <1>2, <1>4, SameSum
<1> QED BY <1>1, <1>3, <1>4, <1>5, <1>6

(* What a player's numbers are.                                            *)
LEMMA PlayerTypes ==
  ASSUME MatchInv, NEW p \in Player
  PROVE  /\ Written(p) \in Nat /\ past.seen[p] \in Nat /\ game.kills[p] \in Nat
         /\ past.since[p] \in Nat
         /\ Open # {} => Line(p) \in Nat
         /\ mem.tally[p] # None =>
               /\ mem.tally[p] \in Tally
               /\ mem.tally[p].banked \in Nat /\ mem.tally[p].last \in Nat
               /\ TallyRow(mem.tally[p]) = mem.tally[p].banked + mem.tally[p].last
               /\ game.kills[p] \in {0, mem.tally[p].last}
<1>1. past.seen[p] \in Nat /\ game.kills[p] \in Nat /\ past.since[p] \in Nat
      BY Constants DEF MatchInv, Types, Past, Game, Kills
<1>2. Open # {} => Line(p) \in Nat
      BY OpenRow, Constants DEF Line, Row, Kills
<1>3. mem.tally[p] # None =>
        /\ mem.tally[p] \in Tally
        /\ mem.tally[p].banked \in Nat /\ mem.tally[p].last \in Nat
        /\ game.kills[p] \in {0, mem.tally[p].last}
      BY TallyRowType, Constants DEF Tally, Kills, MatchInv, TallyHolds
<1> QED BY <1>1, <1>2, <1>3, WrittenType DEF TallyRow

LEMMA MatchNumbers ==
  ASSUME MatchInv
  PROVE  /\ game.n \in Nat /\ game.list \in Nat /\ game.list \in {game.n, game.n + 1}
         /\ Open # {} => /\ rows[Current].during \subseteq Nat /\ rows[Current].during # {}
                         /\ \A m \in rows[Current].during : m <= game.n
<1>1. game.n \in Match /\ game.list \in Match
      BY DEF MatchInv, Types, Game
<1>2. Open # {} => /\ rows[Current].during \in SUBSET Match /\ rows[Current].during # {}
                   /\ \A m \in rows[Current].during : m <= game.n
      BY OpenRow DEF MatchInv, OInv, RowsHold, OpenHolds
<1> QED BY <1>1, <1>2, Constants DEF Match, MatchInv, OInv, GameHolds

(* A match is over and its row not closed when the row was seen in matches *)
(* before the list's alone.                                                *)
LEMMA TurningIs ==
  ASSUME MatchInv
  PROVE  Turning <=> OnlyBefore(game.list)
<1>1. ASSUME Open # {}
      PROVE  Max(rows[Current].during) < game.list <=>
                \A m \in rows[Current].during : m < game.list
  <2>1. rows[Current].during \in SUBSET Match /\ rows[Current].during # {}
        BY <1>1, OpenRow
  <2>2. /\ Max(rows[Current].during) \in rows[Current].during
        /\ \A m \in rows[Current].during : m <= Max(rows[Current].during)
        BY <2>1, Extremes
  <2> QED BY <1>1, <2>2, MatchNumbers
<1> QED BY <1>1 DEF Turning, OnlyBefore

-----------------------------------------------------------------------------
(* Initially, and what counts nothing                                      *)

LEMMA InitCounts == MatchInit => CountInv
<1> SUFFICES ASSUME MatchInit PROVE CountInv
    OBVIOUS
<1>1. /\ game.n = 1 /\ game.list = 1
      /\ game.kills = [p \in Player |-> 0]
  <2>1. game \in [kind : Kind, n : {1}, list : {1}, map : Map, score : {0}, young : {TRUE},
                  kills : [Player -> {0}]]
        BY DEF MatchInit
  <2>2. \A f \in [Player -> {0}] : f = [p \in Player |-> 0]
        OBVIOUS
  <2> QED BY <2>1, <2>2
<1>2. rows = <<>> /\ Open = {} /\ Shut = {}
      BY EmptySeq DEF MatchInit, Open, Shut
<1>3. /\ mem.last = None /\ mem.failures = 0 /\ \A p \in Player : mem.tally[p] = None
      /\ look = None /\ past.astray = FALSE
      /\ \A p \in Player : past.seen[p] = 0
      BY DEF MatchInit, NewMemory
<1>4. ASSUME NEW p \in Player PROVE Written(p) = 0
  <2> DEFINE f == [i \in Shut |-> rows[i].lines[p]]
  <2>1. IsFiniteSet({})
        BY FS_EmptySet
  <2>2. SumOf(f, {}) = 0
    <3> HIDE DEF f
    <3> QED BY <2>1, SumSteps
  <2> QED BY <1>2, <2>2 DEF Written
<1>5. StatusHolds /\ CalmHolds
      BY <1>1, <1>2, <1>3, Constants DEF StatusHolds, CalmHolds
<1>6. \A p \in Player : PlayerHolds(p)
      BY <1>1, <1>3 DEF PlayerHolds
<1>7. MatchHolds /\ \A p \in Player : Counts(p)
      BY <1>1, <1>2, <1>3, <1>4 DEF MatchHolds, Counts, OnlyBefore
<1>8. \A p \in Player : Complete(p)
      BY <1>1, <1>2, <1>3, <1>4 DEF Complete
<1> QED BY <1>5, <1>6, <1>7, <1>8 DEF CountInv

(* What every count is read from, but the game and the open row's match.   *)
SameCounts ==
    /\ mem'.last = mem.last /\ mem'.tally = mem.tally /\ look' = look /\ past' = past
    /\ mem'.failures = mem.failures \/ mem'.failures < OFFLINE_AFTER_FAILURES
    /\ DOMAIN rows' = DOMAIN rows
    /\ \A i \in DOMAIN rows :
         /\ rows'[i].open = rows[i].open /\ rows'[i].lines = rows[i].lines
         /\ rows'[i].map = rows[i].map /\ rows'[i].during = rows[i].during

LEMMA SameRows ==
  ASSUME MatchInv, SameCounts
  PROVE  /\ Open' = Open /\ Shut' = Shut /\ Current' = Current
         /\ \A p \in Player : Written(p)' = Written(p)
         /\ Open # {} => /\ rows'[Current].during = rows[Current].during
                         /\ rows'[Current].map = rows[Current].map
                         /\ \A p \in Player : Line(p)' = Line(p)
         /\ \A n : OnlyBefore(n)' <=> (Open # {} /\ \A m \in rows[Current].during : m < n')
<1>1. Open' = Open /\ Shut' = Shut /\ Shut \subseteq DOMAIN rows
      BY DEF SameCounts, Open, Shut
<1>2. Current' = Current
      BY <1>1 DEF Current
<1>3. \A p \in Player : Written(p)' = Written(p)
      BY <1>1, WrittenSame DEF SameCounts
<1>4. Open # {} => /\ rows'[Current].during = rows[Current].during
                   /\ rows'[Current].map = rows[Current].map
                   /\ \A p \in Player : Line(p)' = Line(p)
      BY <1>2, OpenRow DEF SameCounts, Line
<1> QED BY <1>1, <1>2, <1>3, <1>4 DEF OnlyBefore

LEMMA SameCountsInv ==
  ASSUME MatchInv, CountInv, SameCounts,
         game'.n = game.n, game'.list = game.list, game'.map = game.map,
         game'.kills = game.kills
  PROVE  CountInv'
<1>1. /\ Open' = Open /\ Shut' = Shut /\ Current' = Current
      /\ \A p \in Player : Written(p)' = Written(p)
      /\ Open # {} => /\ rows'[Current].during = rows[Current].during
                      /\ rows'[Current].map = rows[Current].map
                      /\ \A p \in Player : Line(p)' = Line(p)
      BY SameRows
<1>2. \A n \in Nat : OnlyBefore(n)' = OnlyBefore(n)
      BY <1>1 DEF OnlyBefore
<1>3. StatusHolds'
      BY <1>1 DEF StatusHolds, OnlyBefore, CountInv, SameCounts, Ended
<1>4. \A p \in Player : PlayerHolds(p)'
      BY DEF PlayerHolds, CountInv, SameCounts, Ended, TallyRow
<1>5. ~past.astray => MatchHolds'
      BY <1>1 DEF MatchHolds, CountInv, SameCounts
<1>6. ASSUME ~past.astray, NEW p \in Player \ past.twice PROVE Counts(p)'
      BY <1>1, <1>6 DEF Counts, CountInv, SameCounts, OnlyBefore, TallyRow
<1>7. past.calm => CalmHolds'
      BY <1>1 DEF CalmHolds, CountInv, SameCounts, Ended
<1>8. ASSUME past.calm, NEW p \in Player \ (past.twice \cup past.missed) PROVE Complete(p)'
      BY <1>1, <1>8 DEF Complete, CountInv, SameCounts, TallyRow
<1> QED BY <1>3, <1>4, <1>5, <1>6, <1>7, <1>8 DEF CountInv, SameCounts

LEMMA QuietCounts ==
  ASSUME MatchInv, CountInv,
         \/ Ages \/ MinutesPass \/ (\E n \in Match : OnMatchFeed(n)) \/ Correct
         \/ UNCHANGED matchVars
  PROVE  CountInv'
<1>1. mem \in Memory /\ game \in Game /\ rows \in Seq(Row) /\ \A i \in DOMAIN rows : rows[i] \in Row
      BY DEF MatchInv, Types
<1>2. /\ MuchLater.last = mem.last /\ MuchLater.tally = mem.tally
      /\ MuchLater.failures = mem.failures
      BY <1>1, MemoryLater DEF MuchLater, Memory
<1>3. CASE Ages
  <2>1. /\ game'.n = game.n /\ game'.list = game.list /\ game'.map = game.map
        /\ game'.kills = game.kills
        BY <1>1, <1>3 DEF Ages, Game
  <2>2. SameCounts
        BY <1>2, <1>3 DEF Ages, SameCounts
  <2> QED BY <2>1, <2>2, SameCountsInv
<1>4. CASE MinutesPass
  <2>1. SameCounts
        BY <1>2, <1>4 DEF MinutesPass, SameCounts
  <2> QED BY <1>4, <2>1, SameCountsInv DEF MinutesPass
<1>5. CASE \E n \in Match : OnMatchFeed(n)
  <2>1. /\ mem'.last = mem.last /\ mem'.tally = mem.tally /\ mem'.failures = mem.failures
        /\ UNCHANGED <<game, look, rows, past>>
        BY <1>1, <1>5 DEF OnMatchFeed, Memory
  <2>2. SameCounts
        BY <2>1 DEF SameCounts
  <2> QED BY <2>1, <2>2, SameCountsInv
<1>6. CASE Correct
  <2>1. UNCHANGED <<game, mem, look, past>>
        BY <1>6 DEF Correct
  <2>2. fix.row \in DOMAIN rows
        BY <1>6 DEF Correct, MatchInv, Types
  <2>3. /\ DOMAIN rows' = DOMAIN rows
        /\ \A i \in DOMAIN rows :
             /\ rows'[i].open = rows[i].open /\ rows'[i].lines = rows[i].lines
             /\ rows'[i].map = rows[i].map /\ rows'[i].during = rows[i].during
    <3>1. CASE rows' = rows
          BY <3>1
    <3>2. CASE rows' = [rows EXCEPT ![fix.row].result = [by |-> "feed", of |-> fix.of]]
      <4> DEFINE result == [by |-> "feed", of |-> fix.of]
                 r == [rows[fix.row] EXCEPT !.result = result]
      <4>1. rows' = [rows EXCEPT ![fix.row] = r]
            BY <3>2
      <4> HIDE DEF result
      <4>2. /\ r.open = rows[fix.row].open /\ r.lines = rows[fix.row].lines
            /\ r.map = rows[fix.row].map /\ r.during = rows[fix.row].during
            BY <1>1, <2>2 DEF Row
      <4> HIDE DEF r
      <4> QED BY <2>2, <4>1, <4>2
    <3> QED BY <1>6, <3>1, <3>2 DEF Correct
  <2>4. SameCounts
        BY <2>1, <2>3 DEF SameCounts
  <2> QED BY <2>1, <2>4, SameCountsInv
<1>7. CASE UNCHANGED matchVars
  <2>1. SameCounts
        BY <1>7 DEF matchVars, SameCounts
  <2> QED BY <1>7, <2>1, SameCountsInv DEF matchVars
<1> QED BY <1>3, <1>4, <1>5, <1>6, <1>7

(* A match that begins on the list begins without kills, and nobody is     *)
(* tallied since.                                                          *)
LEMMA NextOnListCounts ==
  ASSUME MatchInv, CountInv, look = None, NextOnList
  PROVE  CountInv'
<1>1. UNCHANGED <<mem, look, fix, rows, past>>
      BY DEF NextOnList, Worker
<1>2. /\ game'.n = game.n /\ game'.list = game.n + 1 /\ game'.map = game.map
      /\ game'.kills = [p \in Player |-> 0] /\ game.list = game.n
  <2>1. game \in Game /\ game' = [game EXCEPT !.list = @ + 1, !.kills = [p \in Player |-> 0]]
        BY DEF NextOnList, MatchInv, Types
  <2> QED BY <2>1 DEF NextOnList, Game
<1>3. /\ Open' = Open /\ Shut' = Shut /\ Current' = Current
      /\ \A p \in Player : Written(p)' = Written(p) /\ Line(p)' = Line(p)
      BY <1>1 DEF Open, Shut, Current, Written, Line
<1>4. StatusHolds'
      BY <1>1, <1>2, <1>3 DEF StatusHolds, OnlyBefore, CountInv
<1>5. ASSUME NEW p \in Player PROVE PlayerHolds(p)'
  <2>1. mem.tally[p] # None => past.since[p] <= game.n /\ past.since[p] \in Nat
        BY <1>2, PlayerTypes DEF PlayerHolds, CountInv
  <2> QED BY <1>1, <1>2, <2>1, MatchNumbers DEF PlayerHolds
<1>6. ~past.astray => MatchHolds'
      BY <1>1, <1>2, <1>3 DEF MatchHolds, CountInv
<1>7. ASSUME ~past.astray, NEW p \in Player \ past.twice PROVE Counts(p)'
  <2>1. Counts(p) /\ PlayerHolds(p)
        BY <1>7 DEF CountInv
  <2>2. game'.kills[p] = 0 /\ mem'.tally[p] = mem.tally[p]
        BY <1>1, <1>2
  <2>3. /\ Written(p) \in Nat /\ Written(p) + 0 <= past.seen[p]
        /\ Open # {} => Line(p) \in Nat /\ Written(p) + Line(p) + 0 <= past.seen[p]
        BY <2>1, PlayerTypes DEF Counts
  <2>4. ASSUME mem.tally[p] # None, OnlyBefore(past.since[p])
        PROVE  OnlyBefore(game.list)
    <3>1. past.since[p] <= game.list
          BY <2>1, <2>4 DEF PlayerHolds
    <3> QED BY <2>4, <3>1, PlayerTypes, MatchNumbers DEF OnlyBefore
  <2>5. OnlyBefore(past.since[p])' <=> OnlyBefore(past.since[p])
        BY <1>1, <1>3 DEF OnlyBefore
  <2>6. OnlyBefore(game.list)' => Open # {}
        BY <1>3 DEF OnlyBefore
  <2> QED BY <1>1, <1>3, <2>1, <2>2, <2>3, <2>4, <2>5, <2>6 DEF Counts, TallyRow
<1>8. past.calm => CalmHolds'
      BY <1>1, <1>3 DEF CalmHolds, CountInv, Ended
<1>9. ASSUME past.calm, NEW p \in Player \ (past.twice \cup past.missed) PROVE Complete(p)'
      BY <1>1, <1>2, <1>3, <1>9 DEF Complete, CountInv, TallyRow
<1> QED BY <1>1, <1>4, <1>5, <1>6, <1>7, <1>8, <1>9 DEF CountInv

LEMMA NextOnStatusCounts ==
  ASSUME MatchInv, CountInv, look = None, NextOnStatus
  PROVE  CountInv'
<1>1. UNCHANGED <<mem, look, fix, rows, past>>
      BY DEF NextOnStatus, Worker
<1>2. /\ game'.n = game.n + 1 /\ game'.list = game.n + 1 /\ game.list = game.n + 1
      /\ game'.kills = game.kills
  <2>1. PICK map \in Map :
          game' = [game EXCEPT !.n = @ + 1, !.map = map, !.score = 0, !.young = TRUE]
        BY DEF NextOnStatus
  <2>2. game \in Game /\ game.list = game.n + 1
        BY DEF NextOnStatus, MatchInv, Types
  <2> QED BY <2>1, <2>2 DEF Game
<1>3. /\ Open' = Open /\ Shut' = Shut /\ Current' = Current
      /\ \A p \in Player : Written(p)' = Written(p) /\ Line(p)' = Line(p)
      BY <1>1 DEF Open, Shut, Current, Written, Line
<1>4. StatusHolds'
      BY <1>1, <1>2, <1>3, MatchNumbers DEF StatusHolds, OnlyBefore, CountInv
<1>5. \A p \in Player : PlayerHolds(p)'
      BY <1>1, <1>2 DEF PlayerHolds, CountInv
<1>6. ~past.astray => MatchHolds'
      BY <1>1, <1>2, <1>3, MatchNumbers DEF MatchHolds, CountInv
<1>7. ASSUME ~past.astray, NEW p \in Player \ past.twice PROVE Counts(p)'
  <2>1. OnlyBefore(game.list)' = OnlyBefore(game.list)
        /\ OnlyBefore(past.since[p])' = OnlyBefore(past.since[p])
        BY <1>1, <1>2, <1>3 DEF OnlyBefore
  <2> QED BY <1>1, <1>2, <1>3, <1>7, <2>1 DEF Counts, CountInv, TallyRow
<1>8. past.calm => CalmHolds'
      BY <1>1, <1>3 DEF CalmHolds, CountInv, Ended
<1>9. ASSUME past.calm, NEW p \in Player \ (past.twice \cup past.missed) PROVE Complete(p)'
      BY <1>1, <1>2, <1>3, <1>9 DEF Complete, CountInv, TallyRow
<1> QED BY <1>1, <1>4, <1>5, <1>6, <1>7, <1>8, <1>9 DEF CountInv

-----------------------------------------------------------------------------
(* What goes wrong                                                         *)

(* What a fault or an outage may do: a look under way goes on or is over,  *)
(* a tally ends or counts no more than it did, and the open row may be     *)
(* seen in the match of the look and get a tallied line.                   *)
FaultMemory ==
    /\ mem'.last \in {mem.last, None} /\ look' \in {look, None}
    /\ \A p \in Player :
         /\ mem'.tally[p] # None =>
               /\ mem.tally[p] # None /\ mem'.tally[p].last = mem.tally[p].last
               /\ TallyRow(mem'.tally[p]) \in 0 .. TallyRow(mem.tally[p])
               /\ look' # None => mem'.tally[p] = mem.tally[p]
         /\ look' # None => mem'.tally[p] = mem.tally[p]
FaultRows ==
    /\ DOMAIN rows' = DOMAIN rows
    /\ \A i \in DOMAIN rows :
         /\ rows'[i].open = rows[i].open /\ rows'[i].map = rows[i].map
         /\ rows[i].during \subseteq rows'[i].during
         /\ look = None \/ look' # None => rows'[i].during = rows[i].during
         /\ ~rows[i].open => rows'[i].lines = rows[i].lines
         /\ \A p \in Player :
              \/ rows'[i].lines[p] = rows[i].lines[p]
              \/ mem.tally[p] # None /\ rows'[i].lines[p] = TallyRow(mem.tally[p])
FaultPast ==
    /\ past'.seen = past.seen /\ past'.since = past.since
    /\ past'.twice = past.twice /\ past'.missed = past.missed
    /\ ~past'.calm /\ ~past'.astray => ~past.astray /\ ~Turning

(* Nothing is counted twice by it while the open row's match goes on.      *)
LEMMA FaultCounts ==
  ASSUME MatchInv, MatchInv', CountInv, FaultMemory, FaultRows, FaultPast, ~past'.calm,
         UNCHANGED game
  PROVE  CountInv'
<1>1. /\ Open' = Open /\ Shut' = Shut /\ Current' = Current
      /\ Shut \subseteq DOMAIN rows /\ \A i \in Shut : ~rows[i].open
      BY DEF FaultRows, Open, Shut, Current
<1>2. \A p \in Player : Written(p)' = Written(p)
      BY <1>1, WrittenSame DEF FaultRows
<1>3. Open # {} => /\ rows[Current].during \subseteq rows'[Current].during
                   /\ look = None \/ look' # None => rows'[Current].during = rows[Current].during
                   /\ rows'[Current].map = rows[Current].map
                   /\ \A m \in rows'[Current].during : m <= game.n
  <2>1. Open # {} => \A m \in rows'[Current].during : m <= game.n
        BY <1>1 DEF MatchInv, OInv, RowsHold, OpenHolds, Current
  <2> QED BY <2>1, OpenRow DEF FaultRows
<1>4. StatusHolds'
  <2>1. StatusHolds
        BY DEF CountInv
  <2>2. look # None => game.n = look.of /\ (mem.last # None => mem.last.of = look.of)
        BY DEF MatchInv, OInv, LookHolds
  <2>3. ASSUME look' = None, mem'.last # None, Open # {}
        PROVE  \A m \in rows'[Current].during : m <= mem.last.of
        BY <1>3, <2>1, <2>2, <2>3 DEF StatusHolds, FaultMemory
  <2>4. ASSUME look' # None
        PROVE  look' = look /\ (Ended /\ Open # {} => OnlyBefore(game.n)')
        BY <1>1, <1>3, <2>1, <2>4 DEF StatusHolds, FaultMemory, OnlyBefore
  <2>5. mem'.last # None => mem'.last = mem.last
        BY DEF FaultMemory
  <2> QED BY <1>1, <2>3, <2>4, <2>5 DEF StatusHolds, Ended
<1>5. ASSUME NEW p \in Player PROVE PlayerHolds(p)'
      BY DEF PlayerHolds, CountInv, FaultMemory, FaultPast
<1>6. ASSUME ~past'.astray PROVE MatchHolds' /\ ~OnlyBefore(game.list)' /\ ~past.astray
  <2>1. ~past.astray /\ ~OnlyBefore(game.list)
        BY <1>6, TurningIs DEF FaultPast
  <2>2. ASSUME Open # {}
        PROVE  /\ \E m \in rows[Current].during : game.list <= m
               /\ game.n \in rows[Current].during
    <3>1. PICK m \in rows[Current].during : ~(m < game.list)
          BY <2>1, <2>2 DEF OnlyBefore
    <3>2. m \in Nat /\ m <= game.n /\ game.list \in Nat /\ game.n \in Nat
          /\ game.list \in {game.n, game.n + 1}
          BY <2>2, MatchNumbers
    <3>3. m = game.n /\ game.list <= m
          BY <3>1, <3>2
    <3> QED BY <3>3
  <2>3. Open # {} => rows[Current].map = game.map
        BY <2>1, <2>2 DEF CountInv, MatchHolds
  <2>6. MatchHolds'
        BY <1>1, <1>3, <2>3 DEF MatchHolds
  <2>7. ~OnlyBefore(game.list)'
    <3>1. Open # {} => \E m \in rows'[Current].during : ~(m < game.list)
          BY <1>3, <2>1 DEF OnlyBefore
    <3> QED BY <1>1, <3>1 DEF OnlyBefore
  <2> QED BY <2>1, <2>6, <2>7
<1>7. ASSUME ~past'.astray, NEW p \in Player \ past.twice PROVE Counts(p)'
  <2>1. Counts(p) /\ ~OnlyBefore(game.list)' /\ past'.seen = past.seen
        BY <1>6, <1>7 DEF CountInv, FaultPast
  <2>2. Open # {} => \/ Line(p)' = Line(p)
                     \/ mem.tally[p] # None /\ Line(p)' = TallyRow(mem.tally[p])
        BY <1>1, OpenRow DEF FaultRows, Line
  <2>3. mem'.tally[p] # None =>
          mem.tally[p] # None /\ TallyRow(mem'.tally[p]) \in 0 .. TallyRow(mem.tally[p])
        BY DEF FaultMemory
  <2>4. (mem.tally[p] # None => Written(p) + TallyRow(mem.tally[p]) <= past.seen[p])'
        BY <1>2, <2>1, <2>3, PlayerTypes DEF Counts, TallyRow
  <2>5. (Open # {} => Written(p) + Line(p) <= past.seen[p])'
        BY <1>1, <1>2, <2>1, <2>2 DEF Counts
  <2>6. (Written(p) + game.kills[p] <= past.seen[p])'
        BY <1>2, <2>1 DEF Counts
  <2> QED BY <2>1, <2>4, <2>5, <2>6 DEF Counts
<1> QED BY <1>4, <1>5, <1>6, <1>7 DEF CountInv, FaultPast

LEMMA FaultWas ==
  ASSUME MatchInv, Fault
  PROVE  FaultPast /\ ~past'.calm
<1> DEFINE b == past.astray \/ Turning
<1>1. b \in BOOLEAN /\ past \in Past
      BY DEF MatchInv, Types
<1>2. past' = [past EXCEPT !.faults = @ + 1, !.calm = FALSE, !.astray = b]
      BY DEF Fault
<1>3. ~b => ~past.astray /\ ~Turning
      OBVIOUS
<1> HIDE DEF b
<1> QED BY <1>1, <1>2, <1>3 DEF Past, FaultPast

LEMMA FaultKeeps ==
  ASSUME MatchInv, MatchInv', CountInv, Fault, UNCHANGED <<game, rows>>,
         mem'.last \in {mem.last, None}, look' \in {look, None},
         \/ mem'.tally = mem.tally
         \/ look' = None /\ \A p \in Player : mem'.tally[p] = None
  PROVE  CountInv'
<1>1. FaultMemory
  <2>1. \A p \in Player : mem.tally[p] # None =>
          TallyRow(mem.tally[p]) \in 0 .. TallyRow(mem.tally[p])
        BY PlayerTypes
  <2> QED BY <2>1 DEF FaultMemory
<1>2. FaultRows
      BY DEF FaultRows
<1> QED BY <1>1, <1>2, FaultWas, FaultCounts

LEMMA RestFaultCounts ==
  ASSUME MatchInv, MatchInv', CountInv,
         CorrectFails \/ FailureNotSaved \/ Restart \/ ForgetRemembered
  PROVE  CountInv'
<1>1. mem \in Memory
      BY DEF MatchInv, Types
<1>2. CASE CorrectFails
  <2>1. mem'.last = mem.last /\ mem'.tally = mem.tally
        BY <1>1, <1>2 DEF CorrectFails, Memory
  <2> QED BY <1>2, <2>1, FaultKeeps DEF CorrectFails
<1>3. CASE FailureNotSaved
  <2>1. PICK last \in {mem.last, None} :
          mem' = [mem EXCEPT !.failures = OFFLINE_AFTER_FAILURES, !.last = last]
        BY <1>3 DEF FailureNotSaved
  <2>2. mem'.last \in {mem.last, None} /\ mem'.tally = mem.tally
        BY <1>1, <2>1 DEF Memory
  <2> QED BY <1>3, <2>2, FaultKeeps DEF FailureNotSaved
<1>4. CASE Restart
  <2>1. mem'.last = None /\ \A p \in Player : mem'.tally[p] = None
        BY <1>4 DEF Restart, NewMemory
  <2> QED BY <1>4, <2>1, FaultKeeps DEF Restart
<1>5. CASE ForgetRemembered
  <2>1. mem'.last = None /\ mem'.tally = mem.tally
        BY <1>1, <1>5 DEF ForgetRemembered, Memory
  <2> QED BY <1>5, <2>1, FaultKeeps DEF ForgetRemembered
<1> QED BY <1>2, <1>3, <1>4, <1>5

(* A server that counts as offline: everyone's line is what was tallied.   *)
LEMMA FailedLookCounts ==
  ASSUME MatchInv, MatchInv', CountInv, FailedLook
  PROVE  CountInv'
<1>1. /\ look = None /\ UNCHANGED <<game, look, fix>>
      /\ mem \in Memory /\ past \in Past
      BY DEF FailedLook, MatchInv, Types
<1>2. CASE ~Offline
  <2>1. /\ mem'.last = mem.last /\ mem'.tally = mem.tally /\ UNCHANGED <<rows, past>>
        /\ mem'.failures < OFFLINE_AFTER_FAILURES
    <3>1. /\ mem' = [mem EXCEPT !.failures = @ + 1] /\ UNCHANGED <<rows, past>>
          /\ ~(mem.failures + 1 >= OFFLINE_AFTER_FAILURES) /\ mem.failures \in Nat
          BY <1>1, <1>2, Constants DEF FailedLook, Offline, Memory
    <3> QED BY <1>1, <3>1, Constants DEF Memory
  <2>2. SameCounts
        BY <1>1, <2>1 DEF SameCounts
  <2> QED BY <1>1, <2>2, SameCountsInv
<1>3. CASE Offline
  <2>1. /\ mem'.last = None /\ \A p \in Player : mem'.tally[p] = None
        /\ rows' = LinesFlushed
    <3>1. mem' = [mem EXCEPT !.failures = OFFLINE_AFTER_FAILURES, !.last = None,
                             !.tally = [p \in Player |-> None]]
          BY <1>3 DEF FailedLook
    <3>2. rows' = LinesFlushed
          BY <1>3 DEF FailedLook, LinesFlushed
    <3> QED BY <1>1, <3>1, <3>2 DEF Memory
  <2>2. FaultPast /\ ~past'.calm
    <3> DEFINE b == past.astray \/ Turning
    <3>1. b \in BOOLEAN /\ (~b => ~past.astray /\ ~Turning)
          OBVIOUS
    <3>2. past' = [past EXCEPT !.calm = FALSE, !.astray = b]
          BY <1>3 DEF FailedLook
    <3> HIDE DEF b
    <3> QED BY <1>1, <3>1, <3>2 DEF Past, FaultPast
  <2>3. FaultMemory
        BY <1>1, <2>1 DEF FaultMemory
  <2>4. FaultRows
    <3>1. /\ DOMAIN rows' = DOMAIN rows
          /\ \A i \in DOMAIN rows :
               /\ rows'[i].open = rows[i].open /\ rows'[i].map = rows[i].map
               /\ rows'[i].during = rows[i].during
          BY <2>1, FlushedRows
    <3>2. ASSUME NEW i \in DOMAIN rows
          PROVE  /\ ~rows[i].open => rows'[i].lines = rows[i].lines
                 /\ rows[i].open => \A p \in Player :
                      rows'[i].lines[p] = IF p \in Tallies THEN TallyRow(mem.tally[p])
                                          ELSE rows[i].lines[p]
      <4> DEFINE lines == [p \in Player |->
                     IF p \in Tallies THEN TallyRow(mem.tally[p]) ELSE rows[i].lines[p]]
      <4>1. rows[i] \in Row
            BY ShutFinite
      <4>2. CASE rows[i].open
        <5>1. rows'[i] = [rows[i] EXCEPT !.lines = lines]
              BY <2>1, <4>1, <4>2 DEF LinesFlushed, Row
        <5>2. rows'[i].lines = lines
          <6> HIDE DEF lines
          <6> QED BY <4>1, <5>1 DEF Row
        <5> QED BY <4>2, <5>2
      <4>3. CASE ~rows[i].open
            BY <2>1, <4>3 DEF LinesFlushed
      <4> QED BY <4>2, <4>3
    <3>3. \A i \in DOMAIN rows : \A p \in Player :
            \/ rows'[i].lines[p] = rows[i].lines[p]
            \/ mem.tally[p] # None /\ rows'[i].lines[p] = TallyRow(mem.tally[p])
      <4>1. \A i \in DOMAIN rows : rows[i].open \in BOOLEAN
            BY ShutFinite DEF Row
      <4> QED BY <3>2, <4>1 DEF Tallies
    <3> QED BY <3>1, <3>2, <3>3 DEF FaultRows
  <2> QED BY <1>1, <2>2, <2>3, <2>4, FaultCounts
<1> QED BY <1>2, <1>3

-----------------------------------------------------------------------------
(* The match stage                                                         *)

(* A tally after the stage counts as before, or as much as its last        *)
(* counter where the match ended.                                          *)
LEMMA TallyAfter ==
  ASSUME MatchInv, look # None, NEW p \in Player, NEW t, t = mem.tally[p],
         NEW u, u = MemoryAfter.tally[p]
  PROVE  /\ u # None => t # None /\ u.last = t.last
         /\ Ended /\ u # None => t.dropped # "no" /\ TallyRow(u) = t.last
         /\ Ended /\ u = None => t = None \/ t.dropped = "no"
         /\ ~Ended /\ t # None => u # None /\ TallyRow(u) = TallyRow(t)
<1>1. mem \in Memory /\ p \in DOMAIN mem.tally
      BY DEF MatchInv, Types, Memory
<1>2. u = IF Ended THEN Carried(t)
          ELSE IF t = None THEN None
          ELSE IF Open = {} \/ Stale THEN Later(t) ELSE [Later(t) EXCEPT !.dirty = FALSE]
  <2> DEFINE tally == [q \in Player |->
                 IF Ended THEN Carried(mem.tally[q])
                 ELSE IF mem.tally[q] = None THEN None
                 ELSE IF Open = {} \/ Stale THEN Later(mem.tally[q])
                 ELSE [Later(mem.tally[q]) EXCEPT !.dirty = FALSE]]
             held == IF Stale THEN None ELSE mem.held
             closed == IF Closing
                       THEN [row |-> Current, recent |-> TRUE, byFeed |-> ClosingResult.by = "feed"]
                       ELSE mem.closed
  <2>1. MemoryAfter = [mem EXCEPT !.tally = tally, !.held = held, !.closed = closed]
        BY <1>1 DEF MemoryAfter, Memory
  <2>2. u = tally[p]
    <3> HIDE DEF tally, held, closed
    <3> QED BY <1>1, <2>1 DEF Memory
  <2> QED BY <2>2
<1>3. CASE t = None
      BY <1>2, <1>3 DEF Carried
<1>4. CASE t # None
  <2>1. t \in Tally /\ t.banked \in Nat /\ t.last \in Nat
        BY <1>4, PlayerTypes
  <2>2. CASE Ended /\ t.dropped = "no"
        BY <1>2, <1>4, <2>2 DEF Carried
  <2>3. CASE Ended /\ t.dropped # "no"
    <3>1. u = NewTally(t.last)
          BY <1>2, <1>4, <2>3 DEF Carried
    <3>2. NewTally(t.last).last = t.last /\ NewTally(t.last).banked = 0
          /\ NewTally(t.last) \in Tally
          BY <2>1, Constants DEF NewTally, Tally, Kills
    <3> QED BY <1>4, <2>1, <2>3, <3>1, <3>2, NoTally DEF TallyRow
  <2>4. CASE ~Ended
    <3> DEFINE d == IF t.dropped = "now" THEN "since" ELSE "no"
    <3>1. Later(t) = [t EXCEPT !.dropped = d] /\ d \in {"no", "since", "now"}
          BY <1>4, <2>1 DEF Later, Tally
    <3> HIDE DEF d
    <3>3. /\ Later(t) \in Tally /\ Later(t).banked = t.banked /\ Later(t).last = t.last
          /\ Later(t).dropped = d
          BY <2>1, <3>1 DEF Tally
    <3>4. LET v == [Later(t) EXCEPT !.dirty = FALSE]
          IN  v \in Tally /\ v.banked = t.banked /\ v.last = t.last /\ v.dropped = d
          BY <3>3 DEF Tally
    <3>5. u \in Tally /\ u.banked = t.banked /\ u.last = t.last /\ u.dropped = d
          BY <1>2, <1>4, <2>4, <3>3, <3>4
    <3>6. u # None
      <4>1. u = Later(t) \/ u = [Later(t) EXCEPT !.dirty = FALSE]
            BY <1>2, <1>4, <2>4
      <4> QED BY <1>4, <2>1, <3>5, NoTally
    <3> QED BY <1>4, <2>4, <3>5, <3>6 DEF TallyRow
  <2> QED BY <2>2, <2>3, <2>4
<1> QED BY <1>3, <1>4

(* A commit that fails, or a stage refused before it: the open row is seen *)
(* in the match of the look, and its lines stay.                           *)
LEMMA UnwrittenRows ==
  ASSUME MatchInv, look # None, rows' = Unwritten, look' = None
  PROVE  FaultRows
<1>1. /\ DOMAIN rows' = DOMAIN rows
      /\ \A i \in DOMAIN rows :
           /\ rows'[i].open = rows[i].open /\ rows'[i].map = rows[i].map
           /\ rows[i].during \subseteq rows'[i].during
      BY UnwrittenGrown DEF Grown
<1>2. \A i \in DOMAIN rows : rows'[i].lines = rows[i].lines
  <2>1. CASE Open = {}
        BY <2>1 DEF Unwritten
  <2>2. CASE Open # {}
    <3> DEFINE r == [rows[Current] EXCEPT !.during = @ \cup {look.of}]
    <3>1. rows[Current] \in Row /\ Current \in DOMAIN rows
          BY <2>2, OpenRow
    <3>2. r.lines = rows[Current].lines
          BY <3>1 DEF Row
    <3>3. rows' = [rows EXCEPT ![Current] = r]
          BY <2>2, <3>1 DEF Unwritten
    <3> HIDE DEF r
    <3> QED BY <3>1, <3>2, <3>3
  <2> QED BY <2>1, <2>2
<1> QED BY <1>1, <1>2 DEF FaultRows

LEMMA UnwrittenCounts ==
  ASSUME MatchInv, MatchInv', CountInv, CommitFails \/ StageRefused
  PROVE  CountInv'
<1>1. /\ look # None /\ look' = None /\ rows' = Unwritten /\ UNCHANGED game /\ Fault
      BY DEF CommitFails, StageRefused
<1>2. mem'.last = mem.last
      /\ \A p \in Player : mem'.tally[p] # None =>
           /\ mem.tally[p] # None /\ mem'.tally[p].last = mem.tally[p].last
           /\ TallyRow(mem'.tally[p]) \in 0 .. TallyRow(mem.tally[p])
  <2>1. CASE CommitFails
    <3>1. mem' = MemoryAfter /\ mem'.last = mem.last
          BY <1>1, <2>1, StageMemory DEF CommitFails
    <3>2. ASSUME NEW p \in Player, mem'.tally[p] # None
          PROVE  /\ mem.tally[p] # None /\ mem'.tally[p].last = mem.tally[p].last
                 /\ TallyRow(mem'.tally[p]) \in 0 .. TallyRow(mem.tally[p])
      <4>1. /\ mem.tally[p] # None /\ mem'.tally[p].last = mem.tally[p].last
            /\ Ended => TallyRow(mem'.tally[p]) = mem.tally[p].last
            /\ ~Ended => TallyRow(mem'.tally[p]) = TallyRow(mem.tally[p])
            BY <1>1, <3>1, <3>2, TallyAfter
      <4> QED BY <4>1, PlayerTypes
    <3> QED BY <3>1, <3>2
  <2>2. CASE StageRefused
    <3> DEFINE tally == [p \in Player |-> Later(mem.tally[p])]
    <3>1. mem \in Memory /\ mem' = [mem EXCEPT !.tally = tally]
          BY <2>2 DEF MatchInv, Types, Memory, StageRefused
    <3>2. ASSUME NEW p \in Player, tally[p] # None
          PROVE  /\ mem.tally[p] # None /\ tally[p].last = mem.tally[p].last
                 /\ TallyRow(tally[p]) \in 0 .. TallyRow(mem.tally[p])
      <4>1. mem.tally[p] # None
            BY <3>2 DEF Later
      <4>2. /\ mem.tally[p] \in Tally
            /\ mem.tally[p].banked \in Nat /\ mem.tally[p].last \in Nat
            BY <4>1, PlayerTypes
      <4>3. Later(mem.tally[p]).banked = mem.tally[p].banked
            /\ Later(mem.tally[p]).last = mem.tally[p].last
            BY <4>1, <4>2 DEF Later, Tally
      <4> QED BY <4>1, <4>2, <4>3 DEF TallyRow
    <3> HIDE DEF tally
    <3>3. mem'.last = mem.last /\ mem'.tally = tally
          BY <3>1 DEF Memory
    <3> QED BY <3>2, <3>3
  <2> QED BY <2>1, <2>2
<1>3. FaultMemory
      BY <1>1, <1>2 DEF FaultMemory
<1> QED BY <1>1, <1>3, UnwrittenRows, FaultWas, FaultCounts

(* The row a stage begins is open, of the look's match, and has no kills   *)
(* yet; what the one it closes has is written.                             *)
Begins ==
    /\ Open' # {} /\ rows'[Current'].during = {look.of} /\ rows'[Current'].map = look.map
    /\ \A p \in Player : Line(p)' = 0
    /\ \A p \in Player :
         Written(p)' = IF Closing THEN Written(p) + LinesWritten[p] ELSE Written(p)

LEMMA StageBegins ==
  ASSUME MatchInv, MatchInv', MatchStage, Open = {} \/ Closing
  PROVE  Begins
<1> DEFINE isLate == look.of # Max(rows[Current].during) + 1 \/ ~look.young
           closed == [rows[Current] EXCEPT !.open = FALSE, !.result = ClosingResult,
                                           !.late = isLate, !.lines = LinesWritten]
           w == IF Closing THEN [rows EXCEPT ![Current] = closed] ELSE rows
           new == Len(w) + 1
           r == NewRow(look.map, look.of)
<1>1. look # None /\ rows' = RowsWritten
      BY DEF MatchStage
<1>2. rows \in Seq(Row) /\ DOMAIN rows = 1 .. Len(rows)
      BY DEF MatchInv, Types
<1>3. Closing => /\ Open = {Current} /\ Current \in DOMAIN rows /\ rows[Current] \in Row
      BY OpenRow DEF Closing
<1>4. Closing => /\ closed \in Row /\ ~closed.open /\ closed.lines = LinesWritten
  <2> SUFFICES ASSUME Closing
               PROVE  closed \in Row /\ ~closed.open /\ closed.lines = LinesWritten
      OBVIOUS
  <2>1. LinesWritten \in [Player -> Kills] /\ ClosingResult \in Result
        BY <1>1, LinesType, ClosingResultType DEF Closing
  <2>2. isLate \in BOOLEAN
        OBVIOUS
  <2> HIDE DEF isLate
  <2> QED BY <1>3, <2>1, <2>2 DEF Row
<1>5. rows' = Append(w, r)
  <2>1. CASE Closing
    <3>1. [rows EXCEPT ![Current].open = FALSE, ![Current].result = ClosingResult,
                       ![Current].late = isLate, ![Current].lines = LinesWritten]
          = [rows EXCEPT ![Current] = closed]
          BY <1>2, <1>3, <2>1 DEF Row
    <3> QED BY <1>1, <1>3, <2>1, <3>1 DEF RowsWritten, Closing
  <2>2. CASE ~Closing
        BY <1>1, <2>2 DEF RowsWritten
  <2> QED BY <2>1, <2>2
<1> HIDE DEF closed
<1>6. /\ w \in Seq(Row) /\ DOMAIN w = DOMAIN rows
      /\ \A i \in DOMAIN rows :
           w[i] = IF Closing /\ i = Current THEN closed ELSE rows[i]
  <2>1. CASE Closing
        BY <1>2, <1>3, <1>4, <2>1, ExceptSeq
  <2>2. CASE ~Closing
        BY <1>2, <2>2
  <2> QED BY <2>1, <2>2
<1>7. /\ r \in Row /\ r.open /\ r.during = {look.of} /\ r.map = look.map
      /\ r.lines = [p \in Player |-> 0]
      BY <1>1, FirstRow DEF NewRow
<1> HIDE DEF w, r
<1>8. /\ DOMAIN rows' = DOMAIN rows \cup {new} /\ new \notin DOMAIN rows
      /\ \A i \in DOMAIN rows : rows'[i] = w[i]
      /\ rows'[new] = r
      BY <1>5, <1>6, <1>7, AppendRow
<1> HIDE DEF new
<1>9. \A i \in DOMAIN rows : ~rows'[i].open
  <2> TAKE i \in DOMAIN rows
  <2>1. CASE Closing /\ i = Current
        BY <1>4, <1>6, <1>8, <2>1
  <2>2. CASE ~(Closing /\ i = Current)
    <3>1. i \notin Open
          BY <1>3, <2>2
    <3>2. ~rows[i].open
          BY <3>1 DEF Open
    <3> QED BY <1>6, <1>8, <2>2, <3>2
  <2> QED BY <2>1, <2>2
<1>10. Open' = {new} /\ Current' = new /\ Shut' = DOMAIN rows
  <2>1. Open' = {new}
        BY <1>7, <1>8, <1>9 DEF Open
  <2> QED BY <1>8, <2>1 DEF Current, Shut
<1>11. \A p \in Player : Line(p)' = 0
       BY <1>7, <1>8, <1>10 DEF Line
<1>12. ASSUME NEW p \in Player
       PROVE  Written(p)' = IF Closing THEN Written(p) + LinesWritten[p] ELSE Written(p)
  <2>1. CASE Closing
    <3>1. Shut' = Shut \cup {Current} /\ Current \notin Shut
          BY <1>3, <1>10, <2>1 DEF Shut
    <3>2. \A i \in Shut : rows'[i].lines[p] = rows[i].lines[p]
          BY <1>6, <1>8, <3>1 DEF Shut
    <3>3. rows'[Current].lines[p] = LinesWritten[p]
          BY <1>3, <1>4, <1>6, <1>8, <2>1
    <3>4. Written(p)' = Written(p) + rows'[Current].lines[p]
          BY <3>1, <3>2, WrittenMore
    <3> QED BY <2>1, <3>3, <3>4
  <2>2. CASE ~Closing
    <3>1. Shut' = Shut
          BY <1>10, <2>2 DEF Shut
    <3>2. \A i \in Shut : rows'[i].lines[p] = rows[i].lines[p]
          BY <1>6, <1>8, <2>2 DEF Shut
    <3> QED BY <2>2, <3>1, <3>2, WrittenSame
  <2> QED BY <2>1, <2>2
<1> QED BY <1>7, <1>8, <1>10, <1>11, <1>12 DEF Begins

(* The row a stage leaves open was seen in one match more.                 *)
Goes ==
    /\ Open' = Open /\ Current' = Current
    /\ rows'[Current].map = rows[Current].map
    /\ rows'[Current].during = rows[Current].during \cup {look.of}
    /\ \A p \in Player : Written(p)' = Written(p) /\ Line(p)' = LinesWritten[p]

LEMMA StageGoes ==
  ASSUME MatchInv, MatchInv', MatchStage, Open # {}, ~Closing
  PROVE  Goes
<1> DEFINE r == [rows[Current] EXCEPT !.during = @ \cup {look.of}, !.lines = LinesWritten]
<1>1. look # None /\ rows' = RowsWritten
      BY DEF MatchStage
<1>2. rows \in Seq(Row) /\ DOMAIN rows = 1 .. Len(rows)
      BY DEF MatchInv, Types
<1>3. Open = {Current} /\ Current \in DOMAIN rows /\ rows[Current] \in Row
      BY OpenRow
<1>4. rows' = [rows EXCEPT ![Current] = r]
  <2>1. [rows EXCEPT ![Current].during = @ \cup {look.of}, ![Current].lines = LinesWritten]
        = [rows EXCEPT ![Current] = r]
        BY <1>2, <1>3 DEF Row
  <2> QED BY <1>1, <2>1 DEF RowsWritten, Closing
<1>5. /\ r.open = rows[Current].open /\ r.map = rows[Current].map /\ r.lines = LinesWritten
      /\ r.during = rows[Current].during \cup {look.of}
      BY <1>3 DEF Row
<1> HIDE DEF r
<1>6. /\ DOMAIN rows' = DOMAIN rows
      /\ \A i \in DOMAIN rows : rows'[i] = IF i = Current THEN r ELSE rows[i]
      BY <1>3, <1>4
<1>7. Open' = Open /\ Shut' = Shut
      BY <1>5, <1>6 DEF Open, Shut
<1>8. Current' = Current
      BY <1>7 DEF Current
<1>9. ASSUME NEW p \in Player PROVE Written(p)' = Written(p) /\ Line(p)' = LinesWritten[p]
  <2>1. \A i \in Shut : rows'[i].lines[p] = rows[i].lines[p]
        BY <1>3, <1>6 DEF Shut
  <2>2. Written(p)' = Written(p)
        BY <1>7, <2>1, WrittenSame
  <2> QED BY <1>3, <1>5, <1>6, <1>8, <2>2 DEF Line
<1> QED BY <1>3, <1>5, <1>6, <1>7, <1>8, <1>9 DEF Goes

(* What a stage finds, and what it leaves besides the rows.                *)
LEMMA StageAround ==
  ASSUME MatchInv, MatchStage
  PROVE  /\ look # None /\ look' = None /\ UNCHANGED game /\ mem' = MemoryAfter
         /\ mem'.last = mem.last /\ mem'.failures = mem.failures
         /\ past'.seen = past.seen /\ past'.since = past.since /\ past'.calm = past.calm
         /\ past'.twice = past.twice \cup GivenBefore /\ past'.missed = past.missed
         /\ past'.astray <=> past.astray \/ (Stale /\ \E p \in Tallies : past.since[p] < look.of)
<1>1. /\ look # None /\ look' = None /\ UNCHANGED game /\ mem' = MemoryAfter
      /\ past \in Past /\ mem \in Memory
      BY DEF MatchStage, MatchInv, Types
<1>2. mem'.last = mem.last /\ mem'.failures = mem.failures
      BY <1>1 DEF MemoryAfter, Memory
<1>3. /\ past'.seen = past.seen /\ past'.since = past.since /\ past'.calm = past.calm
      /\ past'.twice = past.twice \cup GivenBefore /\ past'.missed = past.missed
      /\ past'.astray <=> past.astray \/ (Stale /\ \E p \in Tallies : past.since[p] < look.of)
  <2> DEFINE b == past.astray \/ (Stale /\ \E p \in Tallies : past.since[p] < look.of)
             given == past.twice \cup GivenBefore
  <2>1. past' = [past EXCEPT !.astray = b, !.twice = given]
        BY <1>1 DEF MatchStage, Past
  <2>2. b \in BOOLEAN
        OBVIOUS
  <2> HIDE DEF b, given
  <2>3. /\ past'.seen = past.seen /\ past'.since = past.since /\ past'.calm = past.calm
        /\ past'.twice = given /\ past'.missed = past.missed /\ past'.astray = b
        BY <1>1, <2>1 DEF Past
  <2> QED BY <2>3 DEF b, given
<1> QED BY <1>1, <1>2, <1>3

(* The row after a stage is of the look's match, whatever was open before. *)
LEMMA StageRow ==
  ASSUME MatchInv, MatchInv', MatchStage
  PROVE  /\ Open = {} \/ Closing => Begins
         /\ Open # {} /\ ~Closing => Goes /\ ~Ended /\ ~Stale
         /\ Open' # {} /\ look.of \in rows'[Current'].during
         /\ rows'[Current'].map = look.map
<1>1. CASE Open = {} \/ Closing
      BY <1>1, StageBegins DEF Begins
<1>2. CASE Open # {} /\ ~Closing
  <2>1. Goes /\ ~Ended /\ ~Stale
        BY <1>2, StageGoes DEF Closing
  <2>2. rows[Current].map = look.map
        BY <1>2, <2>1 DEF Stale
  <2> QED BY <1>2, <2>1, <2>2 DEF Goes
<1> QED BY <1>1, <1>2

LEMMA StageHolds ==
  ASSUME MatchInv, MatchInv', CountInv, MatchStage
  PROVE  /\ StatusHolds' /\ MatchHolds' /\ \A p \in Player : PlayerHolds(p)'
<1>1. /\ look # None /\ look' = None /\ UNCHANGED game
      /\ mem'.last = mem.last /\ mem' = MemoryAfter /\ past'.since = past.since
      BY StageAround
<1>2. /\ Open' # {} /\ rows'[Current'].map = look.map /\ look.map = game.map
      /\ \A m \in rows'[Current'].during : m <= game.n
  <2>1. Open' # {} => \A m \in rows'[Current'].during : m <= game'.n
        BY DEF MatchInv, OInv, RowsHold, OpenHolds, Current
  <2> QED BY <1>1, <2>1, LookType, StageRow
<1>3. mem.last # None => mem.last.of = game.n
      BY <1>1 DEF MatchInv, OInv, LookHolds
<1>4. StatusHolds'
      BY <1>1, <1>2, <1>3 DEF StatusHolds
<1>5. MatchHolds'
      BY <1>1, <1>2 DEF MatchHolds
<1>6. ASSUME NEW p \in Player PROVE PlayerHolds(p)'
  <2>1. mem'.tally[p] # None => mem.tally[p] # None
        BY <1>1, TallyAfter
  <2> QED BY <1>1, <2>1 DEF CountInv, PlayerHolds
<1> QED BY <1>4, <1>5, <1>6

LEMMA StageStale ==
  ASSUME MatchInv, CountInv, MatchStage, ~past'.astray, Stale
  PROVE  /\ Open # {} /\ ~Ended /\ ~past.astray
         /\ OnlyBefore(game.list)
         /\ \A p \in Player : mem.tally[p] # None => OnlyBefore(past.since[p])
<1>1. /\ Open # {} /\ ~Ended /\ ~past.astray /\ look # None
      /\ \A p \in Player : mem.tally[p] # None => ~(past.since[p] < look.of)
      BY StageAround DEF Stale, Tallies
<1>2. game.n \notin rows[Current].during
      BY <1>1, LookType DEF CountInv, MatchHolds, Stale
<1>3. OnlyBefore(game.n)
      BY <1>1, <1>2, MatchNumbers DEF OnlyBefore
<1>4. \A n \in Nat : game.n <= n => OnlyBefore(n)
      BY <1>3, MatchNumbers DEF OnlyBefore
<1>5. game.n <= game.list /\ game.list \in Nat
      BY MatchNumbers
<1>6. ASSUME NEW p \in Player, mem.tally[p] # None PROVE OnlyBefore(past.since[p])
  <2>1. past.since[p] \in Nat /\ game.n <= past.since[p]
        BY <1>1, <1>6, PlayerTypes, LookType
  <2> QED BY <1>4, <2>1
<1> QED BY <1>1, <1>4, <1>5, <1>6

(* Whom the stage does not count twice.                                    *)
LEMMA StageGives ==
  ASSUME MatchInv, MatchInv', MatchStage, NEW p \in Player, p \notin past'.twice
  PROVE  /\ p \notin past.twice
         /\ Closing /\ Ended /\ mem.tally[p] # None /\ mem.tally[p].dropped = "no" =>
              game.kills[p] = 0
         /\ Open # {} /\ ~Closing /\ mem.tally[p] # None /\ mem.tally[p].dirty /\
            TallyRow(mem.tally[p]) > 0 =>
              ~OnlyBefore(past.since[p])'
<1>1. /\ p \notin past.twice /\ p \notin GivenBefore /\ past'.since = past.since
      /\ game.kills[p] \in Nat
      BY StageAround, PlayerTypes
<1>2. ASSUME Open # {}, ~Closing, mem.tally[p] # None, mem.tally[p].dirty,
             TallyRow(mem.tally[p]) > 0, OnlyBefore(past.since[p])'
      PROVE  FALSE
  <2>1. /\ ~Ended /\ ~Stale /\ Goes
        BY <1>2, StageRow
  <2> QED BY <1>1, <1>2, <2>1 DEF GivenBefore, Tallies, Goes, OnlyBefore
<1>3. ASSUME Closing, Ended, mem.tally[p] # None, mem.tally[p].dropped = "no"
      PROVE  game.kills[p] = 0
      BY <1>1, <1>3 DEF GivenBefore, Tallies, Closing, Stale
<1> QED BY <1>1, <1>2, <1>3

LEMMA StageCounts ==
  ASSUME MatchInv, MatchInv', CountInv, MatchStage, ~past'.astray,
         NEW p \in Player, p \notin past'.twice
  PROVE  Counts(p)'
<1> DEFINE t == mem.tally[p]
           u == mem'.tally[p]
<1>1. /\ look # None /\ look' = None /\ game' = game /\ mem' = MemoryAfter
      /\ past'.seen = past.seen /\ past'.since = past.since /\ ~past.astray
      BY StageAround
<1>2. Counts(p) /\ PlayerHolds(p) /\ StatusHolds
      BY <1>1, StageGives DEF CountInv
<1>3. /\ Written(p) \in Nat /\ past.seen[p] \in Nat /\ game.kills[p] \in Nat
      /\ past.since[p] \in Nat
      /\ Open # {} => Line(p) \in Nat
      /\ t # None => /\ t.banked \in Nat /\ t.last \in Nat /\ TallyRow(t) = t.banked + t.last
                     /\ game.kills[p] \in {0, t.last}
      BY PlayerTypes
<1>4. /\ Written(p) + game.kills[p] <= past.seen[p]
      /\ Open # {} => Written(p) + Line(p) <= past.seen[p]
      /\ t # None => Written(p) + TallyRow(t) <= past.seen[p]
      BY <1>2 DEF Counts
<1>5. /\ u # None => t # None /\ u.last = t.last
      /\ Ended /\ u # None => t.dropped # "no" /\ TallyRow(u) = t.last
      /\ ~Ended /\ t # None => u # None
      /\ ~Ended /\ u # None => TallyRow(u) = TallyRow(t)
      BY <1>1, TallyAfter
<1>7. LinesWritten[p] = IF t = None \/ Stale THEN Line(p)
                        ELSE IF Ended THEN CloseLine(t)
                        ELSE IF t.dirty THEN TallyRow(t) ELSE Line(p)
      BY DEF LinesWritten, Line
<1>8. CASE Open = {} \/ Closing
  <2> DEFINE c == Written(p)'
  <2>1. /\ Line(p)' = 0
        /\ c = IF Closing THEN Written(p) + LinesWritten[p] ELSE Written(p)
        BY <1>8, StageRow DEF Begins
  <2>2. /\ c + game.kills[p] <= past.seen[p]
        /\ u # None => c + TallyRow(u) <= past.seen[p]
    <3>1. CASE ~Closing
          BY <1>3, <1>4, <1>5, <2>1, <3>1
    <3>2. CASE Closing /\ Ended
      <4>1. Open # {} /\ OnlyBefore(game.list)
        <5>1. Open # {} /\ OnlyBefore(game.n) /\ game.n <= game.list
              BY <1>1, <1>2, <3>2, MatchNumbers DEF StatusHolds, Closing
        <5> QED BY <5>1, MatchNumbers DEF OnlyBefore
      <4>2. /\ t = None => Written(p) + Line(p) + game.kills[p] <= past.seen[p]
            /\ t # None /\ t.dropped = "no" => game.kills[p] = 0
            BY <1>2, <3>2, <4>1, StageGives DEF Counts
      <4>3. LinesWritten[p] = IF t = None THEN Line(p)
                              ELSE IF t.dropped = "no" THEN TallyRow(t) ELSE t.banked
            BY <1>7, <3>2 DEF Stale, CloseLine
      <4> QED BY <1>3, <1>4, <1>5, <2>1, <3>2, <4>1, <4>2, <4>3
    <3>3. CASE Closing /\ Stale
      <4>1. /\ Open # {} /\ ~Ended /\ OnlyBefore(game.list)
            /\ t # None => OnlyBefore(past.since[p])
            BY <3>3, StageStale
      <4>2. /\ t = None => Written(p) + Line(p) + game.kills[p] <= past.seen[p]
            /\ t # None => Written(p) + Line(p) + TallyRow(t) <= past.seen[p]
            BY <1>2, <4>1 DEF Counts
      <4>3. LinesWritten[p] = Line(p)
            BY <1>7, <3>3
      <4> QED BY <1>3, <1>4, <1>5, <2>1, <3>3, <4>1, <4>2, <4>3
    <3> QED BY <3>1, <3>2, <3>3 DEF Closing
  <2> HIDE DEF c
  <2>3. c \in Nat
    <3>1. Closing => LinesWritten[p] \in Nat
          BY LinesType, Constants DEF Closing, Kills
    <3> QED BY <1>3, <2>1, <3>1
  <2> QED BY <1>1, <1>3, <2>1, <2>2, <2>3 DEF Counts, c, TallyRow
<1>9. CASE Open # {} /\ ~Closing
  <2>1. /\ ~Ended /\ ~Stale /\ Written(p)' = Written(p) /\ Line(p)' = LinesWritten[p]
        /\ \A n \in Nat : OnlyBefore(n)' => OnlyBefore(n)
        BY <1>9, StageRow DEF Goes, OnlyBefore
  <2>2. Written(p) + LinesWritten[p] <= past.seen[p] /\ LinesWritten[p] \in Nat
        BY <1>3, <1>4, <1>7, <1>9, <2>1
  <2>3. u # None => Written(p) + TallyRow(u) <= past.seen[p]
        BY <1>4, <1>5, <2>1
  <2>4. ASSUME u # None, OnlyBefore(game.list), OnlyBefore(past.since[p])'
        PROVE  Written(p) + LinesWritten[p] + TallyRow(u) <= past.seen[p]
    <3>1. t # None /\ TallyRow(u) = TallyRow(t) /\ OnlyBefore(past.since[p])
          BY <1>1, <1>3, <1>5, <2>1, <2>4 DEF OnlyBefore
    <3>2. Written(p) + Line(p) + TallyRow(t) <= past.seen[p]
          BY <1>2, <2>4, <3>1 DEF Counts
    <3>3. t.dirty => ~(TallyRow(t) > 0)
          BY <1>9, <2>4, <3>1, StageGives
    <3>4. CASE t.dirty
      <4>1. LinesWritten[p] = 0 /\ TallyRow(t) = 0
            BY <1>3, <1>7, <2>1, <3>1, <3>3, <3>4
      <4> QED BY <1>3, <1>4, <3>1, <4>1
    <3>5. CASE ~t.dirty
          BY <1>7, <2>1, <3>1, <3>2, <3>5
    <3> QED BY <3>4, <3>5
  <2>5. u = None => t = None /\ LinesWritten[p] = Line(p)
        BY <1>5, <1>7, <2>1
  <2>6. ASSUME u = None, OnlyBefore(game.list)
        PROVE  Written(p) + LinesWritten[p] + game.kills[p] <= past.seen[p]
        BY <1>2, <2>5, <2>6 DEF Counts
  <2>7. OnlyBefore(game.list)' => OnlyBefore(game.list)
        BY <1>1, <2>1, MatchNumbers DEF OnlyBefore
  <2> QED BY <1>1, <1>4, <2>1, <2>2, <2>3, <2>4, <2>6, <2>7 DEF Counts, TallyRow
<1> QED BY <1>8, <1>9

LEMMA StageCalm ==
  ASSUME MatchInv, MatchInv', CountInv, MatchStage, past'.calm
  PROVE  CalmHolds' /\ \A p \in Player \ (past'.twice \cup past'.missed) : Complete(p)'
<1>1. /\ look # None /\ look' = None /\ game' = game /\ mem' = MemoryAfter
      /\ mem'.last = mem.last /\ mem'.failures = mem.failures /\ past'.seen = past.seen
      BY StageAround
<1>2. past.calm /\ CalmHolds /\ ~past.astray
      BY StageAround DEF CountInv, CalmHolds
<1>3. ~Stale /\ (Ended => Open # {}) /\ mem.last # None /\ mem.last.map = look.map
      BY <1>1, <1>2 DEF CalmHolds, Stale
<1>4. ~past'.astray
      BY <1>2, <1>3, StageAround
<1>5. CalmHolds'
      BY <1>1, <1>2, <1>3, <1>4, StageRow DEF CalmHolds
<1>6. ASSUME NEW p \in Player, p \notin past'.twice, p \notin past'.missed PROVE Complete(p)'
  <2> DEFINE t == mem.tally[p]
             u == mem'.tally[p]
  <2>1. Complete(p) /\ StatusHolds
        BY <1>2, <1>6, StageAround, StageGives DEF CountInv
  <2>2. /\ Written(p) \in Nat /\ past.seen[p] \in Nat
        /\ t # None => /\ t.banked \in Nat /\ t.last \in Nat /\ TallyRow(t) = t.banked + t.last
                       /\ game.kills[p] \in {0, t.last}
        BY PlayerTypes
  <2>3. /\ u # None => t # None /\ u.last = t.last
        /\ Ended /\ u # None => t.dropped # "no" /\ TallyRow(u) = t.last
        /\ Ended /\ u = None => t = None \/ t.dropped = "no"
        /\ ~Ended /\ t # None => u # None /\ TallyRow(u) = TallyRow(t)
        BY <1>1, TallyAfter
  <2>4. LinesWritten[p] = IF t = None THEN Line(p)
                          ELSE IF Ended THEN CloseLine(t)
                          ELSE IF t.dirty THEN TallyRow(t) ELSE Line(p)
        BY <1>3 DEF LinesWritten, Line
  <2>5. /\ t # None => Written(p) + TallyRow(t) = past.seen[p]
        /\ t = None => /\ Written(p) = past.seen[p] /\ game.kills[p] = 0
                       /\ Open # {} => Line(p) = 0
        BY <2>1 DEF Complete
  <2>6. CASE Ended
    <3>1. Open # {} /\ OnlyBefore(game.list)
      <4>1. Open # {} /\ OnlyBefore(game.n) /\ game.n <= game.list
            BY <1>1, <1>3, <2>1, <2>6, MatchNumbers DEF StatusHolds
      <4> QED BY <4>1, MatchNumbers DEF OnlyBefore
    <3>2. t # None /\ t.dropped = "no" => game.kills[p] = 0
          BY <1>6, <2>6, <3>1, StageGives DEF Closing
    <3>3. Line(p)' = 0 /\ Written(p)' = Written(p) + LinesWritten[p]
          BY <2>6, <3>1, StageRow DEF Begins, Closing
    <3>4. /\ u # None => Written(p)' + TallyRow(u) = past.seen[p]
          /\ u = None => Written(p)' = past.seen[p] /\ game.kills[p] = 0
          BY <2>2, <2>3, <2>4, <2>5, <2>6, <3>1, <3>2, <3>3, PlayerTypes DEF CloseLine
    <3> QED BY <1>1, <3>3, <3>4 DEF Complete, TallyRow
  <2>7. CASE ~Ended
    <3>1. Written(p)' = Written(p) /\ Line(p)' \in {0, LinesWritten[p]}
          /\ (Open = {} => Line(p)' = 0)
      <4>1. ~Closing
            BY <1>3, <2>7 DEF Closing
      <4> QED BY <4>1, StageRow DEF Begins, Goes
    <3>2. t = None => Line(p)' = 0
          BY <2>4, <2>5, <3>1
    <3> QED BY <1>1, <2>3, <2>5, <2>7, <3>1, <3>2 DEF Complete, TallyRow
  <2> QED BY <2>6, <2>7
<1> QED BY <1>5, <1>6

LEMMA MatchStageCounts ==
  ASSUME MatchInv, MatchInv', CountInv, MatchStage
  PROVE  CountInv'
  BY StageHolds, StageCounts, StageCalm DEF CountInv

-----------------------------------------------------------------------------
(* A look                                                                  *)

(* What a look leaves, but the players' own: it sees an end only of a      *)
(* match before, and none only on the map it last saw.                     *)
Saw(st, on, anew, made, end) ==
    /\ look = None /\ rows' = rows
    /\ game'.n = game.n /\ game'.list = game.list /\ game'.map = game.map
    /\ anew \subseteq on
    /\ IF st THEN /\ mem'.last # None /\ mem'.last.map = game.map /\ mem'.last.of = game.n
                  /\ look' # None /\ look'.of = game.n /\ look'.map = game.map
                  /\ look'.ended = end
             ELSE mem'.last = mem.last /\ look' = None
    /\ end # NoResult => st /\ mem.last # None /\ mem.last.of < game.n
    /\ st /\ end = NoResult /\ mem.last # None /\ mem.failures < OFFLINE_AFTER_FAILURES =>
          mem.last.map = game.map
    /\ mem'.failures = 0
    /\ past'.calm = past.calm /\ past'.astray = past.astray /\ past'.twice = past.twice
    /\ past'.missed = past.missed \cup Unnoticed(on, anew, made)

(* What it leaves of a player: k is the counter, up the kills it saw.      *)
SawPlayer(p, st, on, anew, made, k, up) ==
    /\ game'.kills[p] = k /\ past'.seen[p] = past.seen[p] + up
    /\ up = made[p] /\ up \in Nat /\ k = Counter(p, anew, made)
    /\ k \in {up, game.kills[p] + up}
    /\ p \notin anew => k = game.kills[p] + up
    /\ p \notin on => up = 0 /\ k = game.kills[p]
    /\ past'.since[p] = IF p \in on /\ mem.tally[p] = None THEN game.list ELSE past.since[p]
    /\ p \in on => mem'.tally[p] = Tallied(mem.tally[p], k, IF st THEN "now" ELSE "since")
    /\ p \notin on =>
          /\ mem'.tally[p] = None <=> mem.tally[p] = None
          /\ mem.tally[p] # None => TallyRow(mem'.tally[p]) = TallyRow(mem.tally[p])

LEMMA EndBefore ==
  ASSUME MatchInv, NEW st \in BOOLEAN, NEW score \in Nat, score >= game.score
  PROVE  /\ EndSeen(st, score) # NoResult => st /\ mem.last # None /\ mem.last.of < game.n
         /\ st /\ EndSeen(st, score) = NoResult /\ mem.last # None
              /\ mem.failures < OFFLINE_AFTER_FAILURES => mem.last.map = game.map
<1>1. ASSUME EndSeen(st, score) # NoResult
      PROVE  st /\ mem.last # None /\ mem.last.of < game.n
  <2>1. st /\ Boundary(mem.last, score) /\ mem.last # None
        BY <1>1 DEF EndSeen, Boundary
  <2>2. mem.last \in Last
        BY <2>1 DEF MatchInv, Types, Memory
  <2>3. /\ mem.last.of \in Nat /\ mem.last.score \in Nat /\ game.n \in Nat /\ game.score \in Nat
        BY <2>2, Constants DEF Last, Match, MatchInv, Types, Game
  <2> QED BY <2>1, <2>3 DEF MatchInv, OInv, LastHolds, Boundary
<1>2. ASSUME st, EndSeen(st, score) = NoResult, mem.last # None,
             mem.failures < OFFLINE_AFTER_FAILURES
      PROVE  mem.last.map = game.map
  <2>1. mem.failures \in Nat
        BY Constants DEF MatchInv, Types, Memory
  <2>2. ~(mem.failures >= OFFLINE_AFTER_FAILURES)
        BY <1>2, <2>1, Constants
  <2>3. [by |-> "look", of |-> mem.last.of] # NoResult
        BY DEF NoResult
  <2>4. ~Boundary(mem.last, score)
        BY <1>2, <2>2, <2>3 DEF EndSeen
  <2> QED BY <1>2, <2>4 DEF Boundary
<1> QED BY <1>1, <1>2

LEMMA LookSaw ==
  ASSUME MatchInv, NEW st \in BOOLEAN, NEW pl \in BOOLEAN, NEW scored \in BOOLEAN,
         NEW on \in SUBSET Player, NEW anew \in SUBSET Player, NEW made \in [Player -> Kills],
         NEW gone \in SUBSET Player, Observe(st, pl, on, anew, made, scored, gone)
  PROVE  /\ \E end : Saw(st, on, anew, made, end)
         /\ \A p \in Player : \E k, up : SawPlayer(p, st, on, anew, made, k, up)
<1> DEFINE score == game.score + (IF scored THEN 1 ELSE 0)
           end == EndSeen(st, score)
           kills == [p \in Player |-> Counter(p, anew, made)]
           now == IF st THEN "now" ELSE "since"
           last == IF st THEN [map |-> game.map, score |-> score, of |-> game.n] ELSE mem.last
           held == IF end # NoResult THEN None ELSE mem.held
           tally == [p \in Player |->
                       IF p \in on THEN Tallied(mem.tally[p], Counter(p, anew, made), now)
                       ELSE IF p \in gone THEN [mem.tally[p] EXCEPT !.dirty = TRUE]
                       ELSE mem.tally[p]]
           seen == [p \in Player |-> past.seen[p] + made[p]]
           since == [p \in Player |->
                       IF p \in on /\ mem.tally[p] = None THEN game.list ELSE past.since[p]]
           missed == past.missed \cup Unnoticed(on, anew, made)
<1>1. /\ look = None /\ Found(on, anew, made, scored) /\ anew \subseteq on
      /\ gone \subseteq {p \in Player \ on : mem.tally[p] # None}
      /\ ~st => ~scored
      /\ UNCHANGED <<fix, rows>>
      BY DEF Observe, Found
<1>2. game' = [game EXCEPT !.score = score, !.kills = kills]
      BY DEF Observe
<1>3. mem' = [mem EXCEPT !.last = last, !.held = held, !.tally = tally, !.failures = 0,
                         !.status = TRUE]
  <2>1. mem \in Memory
        BY DEF MatchInv, Types
  <2> QED BY <2>1 DEF Observe, Memory
<1>4. look' = IF st THEN [map |-> game.map, of |-> game.n, young |-> game.young, ended |-> end]
              ELSE None
      BY DEF Observe
<1>5. past' = [past EXCEPT !.seen = seen, !.missed = missed, !.since = since]
  <2>1. past \in Past
        BY DEF MatchInv, Types
  <2> QED BY <2>1 DEF Observe, Past
<1>6. /\ game \in Game /\ mem \in Memory /\ past \in Past
      /\ game.n \in Match /\ game.list \in Match /\ game.map \in Map /\ game.young \in BOOLEAN
      /\ game.score \in Nat
      BY Constants DEF MatchInv, Types, Game
<1>7. score \in 0 .. MAX_SCORE /\ score >= game.score /\ score \in Nat
      BY <1>1, <1>6, Constants DEF Found, Game
<1>8. /\ end \in Result
      /\ end # NoResult => st /\ mem.last # None /\ mem.last.of < game.n
      /\ st /\ end = NoResult /\ mem.last # None /\ mem.failures < OFFLINE_AFTER_FAILURES =>
            mem.last.map = game.map
      BY <1>1, <1>7, EndSeenHolds, EndBefore
<1> HIDE DEF score, end, held
<1>9. st => /\ last # None /\ last.map = game.map /\ last.of = game.n
            /\ look' # None /\ look'.of = game.n /\ look'.map = game.map /\ look'.ended = end
  <2> SUFFICES ASSUME st
               PROVE  /\ last # None /\ last.map = game.map /\ last.of = game.n
                      /\ look' # None /\ look'.of = game.n /\ look'.map = game.map
                      /\ look'.ended = end
      OBVIOUS
  <2>1. last = [map |-> game.map, score |-> score, of |-> game.n]
        OBVIOUS
  <2>2. last \in Last
        BY <1>6, <1>7, <2>1 DEF Last
  <2>3. look' \in Looked
        BY <1>4, <1>6, <1>8 DEF Looked
  <2> QED BY <1>4, <2>1, <2>2, <2>3, NoneAssumption
<1> HIDE DEF kills, tally, seen, since, missed, last
<1>10. /\ game'.n = game.n /\ game'.list = game.list /\ game'.map = game.map
       /\ game'.kills = kills
       BY <1>2, <1>6 DEF Game
<1>11. mem'.last = last /\ mem'.tally = tally /\ mem'.failures = 0
       BY <1>3, <1>6 DEF Memory
<1>12. /\ past'.seen = seen /\ past'.since = since /\ past'.missed = missed
       /\ past'.calm = past.calm /\ past'.astray = past.astray /\ past'.twice = past.twice
       BY <1>5, <1>6 DEF Past
<1>13. Saw(st, on, anew, made, end)
       BY <1>1, <1>4, <1>8, <1>9, <1>10, <1>11, <1>12 DEF Saw, last, missed
<1>14. ASSUME NEW p \in Player PROVE \E k, up : SawPlayer(p, st, on, anew, made, k, up)
  <2> DEFINE k == Counter(p, anew, made)
  <2>1. game'.kills[p] = k /\ past'.seen[p] = past.seen[p] + made[p]
        BY <1>10, <1>12 DEF kills, seen
  <2>2. /\ made[p] \in Nat /\ k \in {made[p], game.kills[p] + made[p]}
        /\ p \notin anew => k = game.kills[p] + made[p]
        /\ p \notin on => made[p] = 0 /\ k = game.kills[p]
        BY <1>1, CounterType
  <2>3. past'.since[p] = IF p \in on /\ mem.tally[p] = None THEN game.list ELSE past.since[p]
        BY <1>12 DEF since
  <2>4. p \in on => mem'.tally[p] = Tallied(mem.tally[p], k, now)
        BY <1>11 DEF tally
  <2>5. p \notin on =>
          /\ mem'.tally[p] = None <=> mem.tally[p] = None
          /\ mem.tally[p] # None => TallyRow(mem'.tally[p]) = TallyRow(mem.tally[p])
    <3>1. CASE p \in gone /\ p \notin on
      <4>1. /\ mem.tally[p] # None /\ mem.tally[p] \in Tally
            /\ mem'.tally[p] = [mem.tally[p] EXCEPT !.dirty = TRUE]
            BY <1>1, <1>11, <3>1, PlayerTypes DEF tally
      <4>2. mem'.tally[p] \in Tally
            BY <4>1 DEF Tally
      <4> QED BY <4>1, <4>2, NoTally DEF Tally, TallyRow
    <3>2. CASE p \notin gone /\ p \notin on
          BY <1>11, <3>2 DEF tally, TallyRow
    <3> QED BY <3>1, <3>2
  <2>6. SawPlayer(p, st, on, anew, made, k, made[p])
    <3>1. k = Counter(p, anew, made)
          OBVIOUS
    <3> HIDE DEF k
    <3> QED BY <2>1, <2>2, <2>3, <2>4, <2>5, <3>1 DEF SawPlayer
  <2> QED BY <2>6
<1> QED BY <1>13, <1>14

(* A tally that goes on counts the kills the look saw, at most once, and   *)
(* all of them where no restart went unnoticed; a new one counts what the  *)
(* game's counter shows.                                                   *)
LEMMA LookTally ==
  ASSUME MatchInv, MatchInv', NEW p \in Player, NEW st, NEW on, NEW anew, NEW made,
         NEW k, NEW up, SawPlayer(p, st, on, anew, made, k, up)
  PROVE  /\ up \in Nat /\ k \in Nat /\ k <= game.kills[p] + up
         /\ mem'.tally[p] = None <=> p \notin on /\ mem.tally[p] = None
         /\ mem.tally[p] # None =>
               /\ TallyRow(mem'.tally[p]) <= TallyRow(mem.tally[p]) + up
               /\ p \notin Unnoticed(on, anew, made) =>
                     TallyRow(mem'.tally[p]) = TallyRow(mem.tally[p]) + up
         /\ p \in on /\ mem.tally[p] = None => TallyRow(mem'.tally[p]) = k
<1> DEFINE t == mem.tally[p]
           u == mem'.tally[p]
           now == IF st THEN "now" ELSE "since"
<1>1. /\ up \in Nat /\ k \in Nat /\ k <= game.kills[p] + up /\ k \in {up, game.kills[p] + up}
      /\ p \notin anew => k = game.kills[p] + up
      /\ p \in on => u = Tallied(t, k, now)
      BY PlayerTypes DEF SawPlayer
<1>2. /\ now \in {"no", "since", "now"}
      /\ k \in Kills /\ 0 \in Kills
  <2>1. game'.kills[p] \in Kills
        BY DEF MatchInv, Types, Game
  <2> QED BY <2>1, Constants DEF Kills, SawPlayer
<1>3. CASE p \notin on
      BY <1>1, <1>3, PlayerTypes DEF SawPlayer
<1>4. CASE p \in on /\ t = None
  <2>1. u = NewTally(k)
        BY <1>1, <1>4 DEF Tallied
  <2>2. u \in Tally /\ u.banked = 0 /\ u.last = k
        BY <1>2, <2>1 DEF NewTally, Tally
  <2> QED BY <1>1, <1>4, <2>2, NoTally DEF TallyRow
<1>5. CASE p \in on /\ t # None
  <2>1. /\ t \in Tally /\ t.banked \in Nat /\ t.last \in Nat /\ TallyRow(t) = t.banked + t.last
        /\ game.kills[p] \in {0, t.last} /\ game.kills[p] \in Nat
        BY <1>5, PlayerTypes
  <2>2. p \in Unnoticed(on, anew, made) <=>
          (p \in anew \/ game.kills[p] < t.last) /\ 0 < t.last /\ t.last <= k
        BY <1>5 DEF Unnoticed, SawPlayer
  <2>3. CASE k < t.last
    <3>1. u = [t EXCEPT !.banked = @ + t.last, !.last = k, !.dropped = now]
          BY <1>1, <1>5, <2>3 DEF Tallied
    <3> HIDE DEF now
    <3>2. u.banked = t.banked + t.last /\ u.last = k
          BY <2>1, <3>1 DEF Tally
    <3>3. k = up
          BY <1>1, <2>1, <2>3
    <3>4. u # None
      <4>1. t.banked + t.last \in Kills
            BY <1>5, <2>1, TallyRowType
      <4>2. u \in Tally
            BY <1>2, <2>1, <3>1, <4>1 DEF Tally
      <4> QED BY <4>2, NoTally
    <3>5. TallyRow(u) = t.banked + t.last + up
          BY <3>2, <3>3 DEF TallyRow
    <3> QED BY <1>1, <1>5, <2>1, <3>4, <3>5
  <2>4. CASE ~(k < t.last)
    <3>1. u = [t EXCEPT !.last = k]
          BY <1>1, <1>5, <2>4 DEF Tallied
    <3>2. u.banked = t.banked /\ u.last = k
          BY <2>1, <3>1 DEF Tally
    <3>3. k <= t.last + up
          BY <1>1, <2>1
    <3>4. p \notin Unnoticed(on, anew, made) => k = t.last + up
      <4>1. CASE p \in anew
            BY <1>1, <2>1, <2>2, <2>4, <4>1
      <4>2. CASE p \notin anew
            BY <1>1, <2>1, <2>2, <2>4, <4>2
      <4> QED BY <4>1, <4>2
    <3>5. u # None
      <4>1. u \in Tally
            BY <1>2, <2>1, <3>1 DEF Tally
      <4> QED BY <4>1, NoTally
    <3>6. TallyRow(u) = t.banked + k
          BY <3>2 DEF TallyRow
    <3> QED BY <1>1, <1>5, <2>1, <3>3, <3>4, <3>5, <3>6
  <2> QED BY <2>3, <2>4
<1> QED BY <1>3, <1>4, <1>5

LEMMA LookHolder ==
  ASSUME MatchInv, MatchInv', CountInv, NEW st, NEW on, NEW anew, NEW made,
         NEW end, Saw(st, on, anew, made, end),
         NEW p \in Player, NEW k, NEW up, SawPlayer(p, st, on, anew, made, k, up)
  PROVE  PlayerHolds(p)'
<1>1. PlayerHolds(p)
      BY DEF CountInv
<1>2. mem'.tally[p] = None <=> p \notin on /\ mem.tally[p] = None
      BY LookTally
<1>3. /\ game'.list = game.list
      /\ past'.since[p] = IF p \in on /\ mem.tally[p] = None THEN game.list ELSE past.since[p]
      BY DEF Saw, SawPlayer
<1> QED BY <1>1, <1>2, <1>3, MatchNumbers DEF PlayerHolds

LEMMA LookSameRows ==
  ASSUME rows' = rows
  PROVE  /\ Open' = Open /\ Current' = Current
         /\ \A p \in Player : Written(p)' = Written(p) /\ Line(p)' = Line(p)
  BY DEF Open, Current, Written, Line, Shut

LEMMA LookCounter ==
  ASSUME MatchInv, MatchInv', CountInv, ~past.astray,
         NEW st, NEW on, NEW anew, NEW made, NEW end, Saw(st, on, anew, made, end),
         NEW p \in Player, p \notin past.twice,
         NEW k, NEW up, SawPlayer(p, st, on, anew, made, k, up)
  PROVE  Counts(p)'
<1>1. Counts(p)
      BY DEF CountInv
<1>2. /\ up \in Nat /\ k \in Nat /\ k <= game.kills[p] + up
      /\ mem'.tally[p] = None <=> p \notin on /\ mem.tally[p] = None
      /\ mem.tally[p] # None => TallyRow(mem'.tally[p]) <= TallyRow(mem.tally[p]) + up
      /\ p \in on /\ mem.tally[p] = None => TallyRow(mem'.tally[p]) = k
      BY LookTally
<1>3. /\ game'.list = game.list /\ game'.kills[p] = k /\ past'.seen[p] = past.seen[p] + up
      /\ past'.since[p] = IF p \in on /\ mem.tally[p] = None THEN game.list ELSE past.since[p]
      /\ rows' = rows
      BY DEF Saw, SawPlayer
<1>4. /\ Open' = Open /\ Current' = Current
      /\ Written(p)' = Written(p) /\ Line(p)' = Line(p)
      BY <1>3, LookSameRows
<1>5. /\ Written(p) \in Nat /\ past.seen[p] \in Nat /\ game.kills[p] \in Nat
      /\ Open # {} => Line(p) \in Nat
      /\ mem.tally[p] # None => TallyRow(mem.tally[p]) \in Nat
      /\ mem'.tally[p] # None => TallyRow(mem'.tally[p]) \in Nat
  <2>1. mem'.tally[p] \in {None} \cup Tally
        BY DEF MatchInv, Types, Memory
  <2> QED BY <2>1, PlayerTypes, Constants DEF TallyRow, Tally, Kills
<1>6. /\ Written(p) + game.kills[p] <= past.seen[p]
      /\ Open # {} => Written(p) + Line(p) <= past.seen[p]
      /\ mem.tally[p] # None => Written(p) + TallyRow(mem.tally[p]) <= past.seen[p]
      BY <1>1 DEF Counts
<1>7. /\ Written(p) + k <= past.seen[p] + up
      /\ Open # {} => Written(p) + Line(p) <= past.seen[p] + up
      /\ mem'.tally[p] # None => Written(p) + TallyRow(mem'.tally[p]) <= past.seen[p] + up
  <2>1. Written(p) + k <= past.seen[p] + up
        BY <1>2, <1>5, <1>6
  <2> QED BY <1>2, <1>5, <1>6, <2>1
<1>8. ASSUME OnlyBefore(game.list)
      PROVE  /\ mem'.tally[p] = None => Written(p) + Line(p) + k <= past.seen[p] + up
             /\ mem'.tally[p] # None /\ OnlyBefore(past'.since[p]) =>
                  Written(p) + Line(p) + TallyRow(mem'.tally[p]) <= past.seen[p] + up
  <2>1. /\ Open # {} /\ Line(p) \in Nat
        /\ mem.tally[p] = None => Written(p) + Line(p) + game.kills[p] <= past.seen[p]
        /\ mem.tally[p] # None /\ OnlyBefore(past.since[p]) =>
              Written(p) + Line(p) + TallyRow(mem.tally[p]) <= past.seen[p]
        BY <1>1, <1>5, <1>8 DEF Counts, OnlyBefore
  <2>2. mem.tally[p] = None => Written(p) + Line(p) + k <= past.seen[p] + up
        BY <1>2, <1>5, <2>1
  <2>3. mem.tally[p] # None /\ OnlyBefore(past.since[p]) =>
          Written(p) + Line(p) + TallyRow(mem'.tally[p]) <= past.seen[p] + up
        BY <1>2, <1>5, <2>1
  <2> QED BY <1>2, <1>3, <2>2, <2>3
<1> HIDE DEF OnlyBefore
<1>9. \A n : OnlyBefore(n) <=> Open # {} /\ \A m \in rows[Current].during : m < n
      BY DEF OnlyBefore
<1>10. /\ OnlyBefore(game.list)' => OnlyBefore(game.list)
       /\ OnlyBefore(past.since[p])' => OnlyBefore(past'.since[p])
       BY <1>3, <1>4, <1>9 DEF OnlyBefore
<1> QED BY <1>3, <1>4, <1>7, <1>8, <1>10 DEF Counts, TallyRow

LEMMA LookCalm ==
  ASSUME MatchInv, MatchInv', CountInv, past.calm,
         NEW st \in BOOLEAN, NEW on, NEW anew, NEW made,
         NEW end, Saw(st, on, anew, made, end)
  PROVE  CalmHolds'
<1>1. CalmHolds /\ look = None /\ rows' = rows /\ mem'.failures = 0 /\ past'.astray = past.astray
      BY DEF CountInv, Saw
<1>2. Open' = Open /\ Current' = Current
      BY <1>1, LookSameRows
<1>3. CASE ~st
      BY <1>1, <1>2, <1>3, Constants DEF CalmHolds, Saw
<1>4. CASE st
  <2>1. /\ mem'.last # None /\ mem'.last.map = game.map /\ look' # None
        /\ look'.map = game.map /\ look'.ended = end
        /\ end # NoResult => mem.last # None
        /\ end = NoResult /\ mem.last # None /\ mem.failures < OFFLINE_AFTER_FAILURES =>
              mem.last.map = game.map
        BY <1>4 DEF Saw
  <2>2. Ended' => Open # {}
        BY <1>1, <2>1 DEF Ended, CalmHolds, NoResult
  <2>3. ~Ended' /\ Open # {} => rows[Current].map = game.map
        BY <1>1, <2>1 DEF Ended, CalmHolds, NoResult
  <2> QED BY <1>1, <1>2, <2>1, <2>2, <2>3, Constants DEF CalmHolds
<1> QED BY <1>3, <1>4

LEMMA LookComplete ==
  ASSUME MatchInv, MatchInv', CountInv, past.calm,
         NEW st, NEW on, NEW anew, NEW made, NEW end, Saw(st, on, anew, made, end),
         NEW p \in Player, p \notin past.twice, p \notin past'.missed,
         NEW k, NEW up, SawPlayer(p, st, on, anew, made, k, up)
  PROVE  Complete(p)'
<1>1. Complete(p) /\ p \notin Unnoticed(on, anew, made)
      BY DEF CountInv, Saw
<1>2. /\ up \in Nat /\ k \in Nat
      /\ mem'.tally[p] = None <=> p \notin on /\ mem.tally[p] = None
      /\ mem.tally[p] # None => TallyRow(mem'.tally[p]) = TallyRow(mem.tally[p]) + up
      /\ p \in on /\ mem.tally[p] = None => TallyRow(mem'.tally[p]) = k
      BY <1>1, LookTally
<1>3. /\ game'.kills[p] = k /\ past'.seen[p] = past.seen[p] + up
      /\ k \in {up, game.kills[p] + up} /\ (p \notin on => up = 0 /\ k = game.kills[p])
      /\ rows' = rows
      BY DEF SawPlayer, Saw
<1>4. Open' = Open /\ Written(p)' = Written(p) /\ Line(p)' = Line(p)
      BY <1>3, LookSameRows
<1>5. /\ Written(p) \in Nat /\ past.seen[p] \in Nat
      /\ mem.tally[p] # None => TallyRow(mem.tally[p]) \in Nat
      BY PlayerTypes
<1>6. CASE mem.tally[p] # None
  <2>1. Written(p) + TallyRow(mem.tally[p]) = past.seen[p] /\ mem'.tally[p] # None
        BY <1>1, <1>2, <1>6 DEF Complete
  <2>2. Written(p) + TallyRow(mem'.tally[p]) = past.seen[p] + up
        BY <1>2, <1>5, <1>6, <2>1
  <2> QED BY <1>3, <1>4, <2>1, <2>2 DEF Complete, TallyRow
<1>7. CASE mem.tally[p] = None
  <2>1. /\ Written(p) = past.seen[p] /\ game.kills[p] = 0 /\ k = up
        /\ Open # {} => Line(p) = 0
        BY <1>1, <1>2, <1>3, <1>7 DEF Complete
  <2>2. CASE p \in on
    <3>1. mem'.tally[p] # None /\ Written(p) + TallyRow(mem'.tally[p]) = past.seen[p] + up
          BY <1>2, <1>7, <2>1, <2>2
    <3> QED BY <1>3, <1>4, <3>1 DEF Complete, TallyRow
  <2>3. CASE p \notin on
    <3>1. mem'.tally[p] = None /\ up = 0 /\ k = 0
          BY <1>2, <1>3, <1>7, <2>1, <2>3
    <3> QED BY <1>3, <1>4, <1>5, <2>1, <3>1 DEF Complete
  <2> QED BY <2>2, <2>3
<1> QED BY <1>6, <1>7

LEMMA ObserveCounts ==
  ASSUME MatchInv, MatchInv', CountInv,
         NEW st \in BOOLEAN, NEW pl \in BOOLEAN, NEW scored \in BOOLEAN,
         NEW on \in SUBSET Player, NEW anew \in SUBSET Player, NEW made \in [Player -> Kills],
         NEW gone \in SUBSET Player, Observe(st, pl, on, anew, made, scored, gone)
  PROVE  CountInv'
<1>1. PICK end : Saw(st, on, anew, made, end)
      BY LookSaw
<1>2. \A p \in Player : \E k, up : SawPlayer(p, st, on, anew, made, k, up)
      BY LookSaw
<1>3. /\ rows' = rows /\ look = None /\ game'.n = game.n /\ game'.map = game.map
      /\ past'.calm = past.calm /\ past'.astray = past.astray /\ past'.twice = past.twice
      BY <1>1 DEF Saw
<1>4. Open' = Open /\ Current' = Current
      BY <1>3, LookSameRows
<1>5. StatusHolds
      BY DEF CountInv
<1>6. StatusHolds'
  <2>1. CASE ~st
        BY <1>1, <1>3, <1>4, <1>5, <2>1 DEF StatusHolds, Saw
  <2>2. CASE st
    <3>1. /\ look' # None /\ look'.ended = end
          /\ end # NoResult => mem.last # None /\ mem.last.of < game.n
          BY <1>1, <2>2 DEF Saw
    <3>2. ASSUME end # NoResult, Open # {}
          PROVE  OnlyBefore(game.n)
      <4>1. /\ \A m \in rows[Current].during : m <= mem.last.of
            /\ mem.last # None /\ mem.last.of < game.n
            BY <1>3, <1>5, <3>1, <3>2 DEF StatusHolds
      <4>2. mem.last.of \in Nat
        <5>1. mem.last \in Last
              BY <4>1 DEF MatchInv, Types, Memory
        <5> QED BY <5>1, Constants DEF Last, Match
      <4> QED BY <3>2, <4>1, <4>2, MatchNumbers DEF OnlyBefore
    <3>3. Ended' => end # NoResult
          BY <3>1 DEF Ended, NoResult
    <3>4. Ended' /\ Open # {} => OnlyBefore(game.n)'
          BY <1>3, <1>4, <3>2, <3>3 DEF OnlyBefore
    <3> QED BY <1>3, <1>4, <3>1, <3>4 DEF StatusHolds
  <2> QED BY <2>1, <2>2
<1>7. \A p \in Player : PlayerHolds(p)'
      BY <1>1, <1>2, LookHolder
<1>8. ~past.astray => MatchHolds'
      BY <1>3, <1>4 DEF CountInv, MatchHolds
<1>9. ~past.astray => \A p \in Player \ past.twice : Counts(p)'
      BY <1>1, <1>2, LookCounter
<1>10. past.calm => CalmHolds'
       BY <1>1, LookCalm
<1>11. past.calm => \A p \in Player \ (past.twice \cup past'.missed) : Complete(p)'
       BY <1>1, <1>2, LookComplete
<1> QED BY <1>3, <1>6, <1>7, <1>8, <1>9, <1>10, <1>11 DEF CountInv

-----------------------------------------------------------------------------
(* Every step, and what the counts say                                     *)

LEMMA NextCounts ==
  ASSUME MatchInv, MatchInv', CountInv, [MatchNext]_matchVars
  PROVE  CountInv'
<1>1. CASE Plays
      BY <1>1, QuietCounts, NextOnListCounts, NextOnStatusCounts DEF Plays
<1>2. CASE MinutesPass \/ (\E n \in Match : OnMatchFeed(n)) \/ Correct \/ UNCHANGED matchVars
      BY <1>2, QuietCounts
<1>3. CASE Looks
  <2>1. PICK st, pl, scored \in BOOLEAN, on, anew, gone \in SUBSET Player,
             made \in [Player -> Kills] : Observe(st, pl, on, anew, made, scored, gone)
        BY <1>3, LooksObserve
  <2> QED BY <2>1, ObserveCounts
<1>4. CASE MatchStage \/ CommitFails \/ StageRefused
      BY <1>4, MatchStageCounts, UnwrittenCounts
<1>5. CASE FailedLook
      BY <1>5, FailedLookCounts
<1>6. CASE CorrectFails \/ FailureNotSaved \/ Restart \/ ForgetRemembered
      BY <1>6, RestFaultCounts
<1> QED BY <1>1, <1>2, <1>3, <1>4, <1>5, <1>6 DEF MatchNext

THEOREM CountsHold == MatchSpec => []CountInv
<1>1. MatchInv /\ MatchInv' /\ CountInv /\ [MatchNext]_matchVars => CountInv'
      BY NextCounts
<1> QED BY <1>1, InitCounts, MatchesHold, PTL DEF MatchSpec

LEMMA RecordedIs ==
  ASSUME MatchInv, NEW p \in Player
  PROVE  Recorded(p) = Written(p) + (IF mem.tally[p] # None THEN TallyRow(mem.tally[p])
                                     ELSE IF Open # {} THEN Line(p) ELSE 0)
<1> DEFINE f == [i \in Shut |-> rows[i].lines[p]]
           Walked(g) == g = [s \in SUBSET Shut |->
                          IF s = {} THEN 0
                          ELSE rows[Some(s)].lines[p] + g[s \ {Some(s)}]]
<1>1. \A s \in SUBSET Shut : s # {} => f[Some(s)] = rows[Some(s)].lines[p]
      BY DEF Some
<1>2. \A g : Walk(f, Shut, g) <=> Walked(g)
  <2> TAKE g
  <2>1. [s \in SUBSET Shut |-> IF s = {} THEN 0 ELSE f[Some(s)] + g[s \ {Some(s)}]]
        = [s \in SUBSET Shut |->
             IF s = {} THEN 0 ELSE rows[Some(s)].lines[p] + g[s \ {Some(s)}]]
    <3> HIDE DEF f
    <3> QED BY <1>1
  <2> QED BY <2>1 DEF Walk
<1>3. MapThenSumSet(LAMBDA i : rows[i].lines[p], Shut) = (CHOOSE g : Walked(g))[Shut]
      BY DEF MapThenSumSet, MapThenFoldSet, Some
<1>4. Written(p) = (CHOOSE g : Walk(f, Shut, g))[Shut]
      BY SumIsWalk DEF Written
<1>5. (CHOOSE g : Walk(f, Shut, g)) = (CHOOSE g : Walked(g))
  <2> HIDE DEF Walked, f
  <2> QED BY <1>2
<1>6. MapThenSumSet(LAMBDA i : rows[i].lines[p], DOMAIN rows \ Open) = Written(p)
      BY <1>3, <1>4, <1>5 DEF Shut
<1> QED BY <1>6 DEF Recorded, Line

(* For any number of players, matches, kills and faults: no kill is in two *)
(* lines, however a player's counters start again, looks or writes fail or *)
(* the worker starts again (tallyLook, closeTallies, reconcileMatch).  But *)
(* a look may count kills of the next match of a player it did not see     *)
(* start again, or who left before a status showed it, and a fault may     *)
(* come between a match's end and the closing of its row.                  *)
THEOREM KillsCountedOnce == MatchSpec => []CountedOnce
<1>1. MatchInv /\ CountInv => CountedOnce
  <2> SUFFICES ASSUME MatchInv, CountInv, ~past.astray, NEW p \in Player \ past.twice
               PROVE  Recorded(p) <= past.seen[p]
      BY DEF CountedOnce
  <2>1. Counts(p)
        BY DEF CountInv
  <2> QED BY <2>1, RecordedIs, PlayerTypes DEF Counts
<1> QED BY <1>1, MatchesHold, CountsHold, PTL

(* And while nothing goes wrong every kill a look saw is in a line, of     *)
(* players who left or came again too (tallyLook, flushTallies), unless    *)
(* their counters started again and had passed where they were by the next *)
(* look, or their kills went to two lines.                                 *)
THEOREM NothingLost == MatchSpec => []NothingSeenIsLost
<1>1. MatchInv /\ CountInv => NothingSeenIsLost
  <2> SUFFICES ASSUME MatchInv, CountInv, past.calm,
                      NEW p \in Player \ (past.twice \cup past.missed)
               PROVE  Recorded(p) = past.seen[p]
      BY DEF NothingSeenIsLost
  <2>1. Complete(p)
        BY DEF CountInv
  <2> QED BY <2>1, RecordedIs, PlayerTypes DEF Complete
<1> QED BY <1>1, MatchesHold, CountsHold, PTL
=============================================================================
