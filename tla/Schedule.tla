------------------------------ MODULE Schedule ------------------------------
(***************************************************************************)
(* The worker's scheduler over the lanes: src/lib/server/poller.ts (beat,  *)
(* launchDue, observeSoon) with poller-schedule.ts, the planning of        *)
(* observe.ts, and the people's commands that share the lanes              *)
(* (gateway-local.ts, runGameAction).                                      *)
(*                                                                         *)
(* Due times matter through their order: `due` queues the servers whose    *)
(* time has come, longest overdue first.  Players and status have a due    *)
(* time each in the code; a server is due when the earlier is.  The lease  *)
(* is Lease's concern: here the process owns it throughout.                *)
(***************************************************************************)
EXTENDS Lanes

CONSTANTS
    Server,
    Command,       \* people's commands and deliveries, each sent once
    LaneOf,        \* the server of each command
    Look,          \* the look of each server, as a job
    Totals,        \* settings().concurrency, as it may be set
    MayFail,       \* servers that may stop answering
    MayHold,       \* servers that may ask the panel to slow down
    MaxCalls       \* bound: calls of observeSoon and changes of the settings

ASSUME JobAssumption == /\ LaneOf \in [Command -> Server]
                        /\ Look \in [Server -> Job]
                        /\ Job = Command \cup {Look[s] : s \in Server}
                        /\ \A s \in Server : Look[s] \notin Command
                        /\ \A s, t \in Server : Look[s] = Look[t] => s = t
ASSUME ServerAssumption == IsFiniteSet(Server)
ASSUME BudgetAssumption == Totals \subseteq Nat \ {0}
ASSUME CallAssumption == MaxCalls \in Nat

VARIABLES
    lane,      \* per server: its lane
    late,      \* waiting jobs past their deadline
    answer,    \* per command: what its caller was told
    flying,    \* servers whose look is in flight (m.inFlight), waiting or running
    counted,   \* those of them launched as one of an offline server
    active, activeOffline,   \* the scheduler's counters
    due,       \* servers whose time has come, longest overdue first
    again,     \* m.again
    hold,      \* servers inside a rate-limit hold
    offline,   \* servers that failed OFFLINE_AFTER_FAILURES times
    total,     \* settings().concurrency
    asked,     \* servers somebody asked to look at, no look having begun since
    calls      \* bounded by MaxCalls

lanes == <<lane, late, answer, asked>>
looks == <<flying, counted, active, activeOffline, again>>
vars == <<lanes, looks, due, hold, offline, total, calls>>

Jobs(s) == {Look[s]} \cup {c \in Command : LaneOf[c] = s}
WaitingJobs == UNION {Waiting(lane[s]) : s \in Server}

TypeOK ==
    /\ DOMAIN lane = Server
    /\ \A s \in Server : /\ lane[s].running \in Jobs(s) \cup {Free}
                         /\ Waiting(lane[s]) \subseteq Jobs(s) \ {lane[s].running}
                         /\ IsQueue(lane[s].jobs)
                         /\ IsFiniteSet(Waiting(lane[s]))
                         /\ Cardinality(Waiting(lane[s])) <= MAX_QUEUED
    /\ late \subseteq WaitingJobs
    /\ answer \in [Command -> {"none", "full", "dropped", "done"}]
    /\ flying \subseteq Server /\ counted \subseteq flying
    /\ active \in Nat /\ activeOffline \in Nat
    /\ IsQueue(due) /\ DOMAIN due \subseteq Server
    /\ again \subseteq flying /\ hold \subseteq Server /\ offline \subseteq Server
    /\ total \in Totals
    /\ asked \subseteq Server
    /\ calls \in 0 .. MaxCalls

Init ==
    /\ lane = [s \in Server |-> Idle]
    /\ late = {}
    /\ answer = [c \in Command |-> "none"]
    /\ flying = {} /\ counted = {}
    /\ active = 0 /\ activeOffline = 0
    /\ due = Nobody
    /\ again = {} /\ hold = {} /\ offline = {}
    /\ total \in Totals
    /\ asked = {}
    /\ calls = 0

-----------------------------------------------------------------------------
(* What begins in a step. *)
Begun == {lane'[s].running : s \in Server} \ {lane[s].running : s \in Server}

(* The lanes become `new`: commands rejected, refused or done are          *)
(* answered, and a look that begins, or is rejected or refused, is no      *)
(* longer asked for.                                                       *)
LanesBecome(new, rejected, refused, done) ==
    /\ lane' = new
    /\ late' = late \cap WaitingJobs'
    /\ answer' = [c \in Command |-> IF c \in rejected THEN "dropped"
                                    ELSE IF c \in refused THEN "full"
                                    ELSE IF c \in done THEN "done" ELSE answer[c]]
    /\ asked' = {s \in asked : Look[s] \notin Begun \cup rejected \cup refused}

-----------------------------------------------------------------------------
Overdue(s) == s \in DOMAIN due
LastDue(s) == Behind(Without(due, {s}), s)

(* The cadence comes round, also while a look is under way.  A hold keeps  *)
(* the due time out of reach.                                              *)
BecomeDue(s) ==
    /\ ~Overdue(s) /\ s \notin hold
    /\ due' = Behind(due, s)
    /\ UNCHANGED <<lanes, looks, hold, offline, total, calls>>

(* offlineLimit: half the budget, and one slot at least. *)
Limit == IF total \div 2 < 1 THEN 1 ELSE total \div 2

(* What the budget has left, and of it the share of the offline. *)
Left == IF active > total THEN 0 ELSE total - active
OfflineLeft == IF activeOffline > Limit THEN 0 ELSE Limit - activeOffline

(* Mutant: no share for the servers that do not answer. *)
Picks_NoShare ==
    {picked \in SUBSET (DOMAIN due \ flying) :
       \A s \in DOMAIN due \ flying :
         s \in picked <=> Cardinality(picked \cap due[s]) < Left}

(* Mutant: the latest overdue first. *)
Picks_Latest ==
    {picked \in SUBSET (DOMAIN due \ flying) :
       \A s \in DOMAIN due \ flying :
         LET ahead == {t \in picked : s \in due[t]} IN
         s \in picked <=>
           /\ Cardinality(ahead) < Left
           /\ s \in offline => Cardinality(ahead \cap offline) < OfflineLeft}

(* pickDue: those not in flight for whom, when the longer overdue have     *)
(* taken theirs, the budget still has a slot, within the share of the      *)
(* offline if need be.                                                     *)
Picks ==
    {picked \in SUBSET (DOMAIN due \ flying) :
       \A s \in DOMAIN due \ flying :
         LET ahead == picked \cap due[s] IN
         s \in picked <=>
           /\ Cardinality(ahead) < Left
           /\ s \in offline => Cardinality(ahead \cap offline) < OfflineLeft}

(* launchDue: each gets its next due time, is counted, and queues for its  *)
(* lane, which pumps.  A full lane refuses, and the look is over as it     *)
(* began.                                                                  *)
WithLook(s) == Joined(lane[s], Look[s])
Queued(launched) ==
    [s \in Server |-> IF s \in launched THEN Pumped(WithLook(s), late) ELSE lane[s]]
Outwaited(launched) == UNION {Rejected(WithLook(s), late) : s \in launched}

Beat ==
    \E picked \in Picks \ {{}} :
        LET launched == {s \in picked : ~Full(lane[s])} IN
        /\ LanesBecome(Queued(launched), Outwaited(launched),
                       {Look[s] : s \in picked \ launched}, {})
        /\ flying' = flying \cup launched
        /\ counted' = counted \cup (launched \cap offline)
        /\ active' = active + Cardinality(launched)
        /\ activeOffline' = activeOffline + Cardinality(launched \cap offline)
        /\ due' = Without(due, picked)
        /\ UNCHANGED <<again, hold, offline, total, calls>>

(* Mutant: what was asked for meanwhile is forgotten. *)
Replanned_Once(s) ==
    IF s \in hold' THEN Without(due, {s}) ELSE IF Overdue(s) THEN LastDue(s) ELSE due

(* replan: overdue means due now, and so does a look asked for meanwhile;  *)
(* a hold comes before both.                                               *)
Replanned(s) ==
    IF s \in hold' THEN Without(due, {s})
    ELSE IF Overdue(s) \/ s \in again THEN LastDue(s) ELSE due

(* Mutant: the share is given back if the server is offline by now. *)
Land_AsItIs(s) ==
    /\ flying' = flying \ {s} /\ counted' = counted \ {s} /\ again' = again \ {s}
    /\ active' = active - 1
    /\ activeOffline' = IF s \in offline' THEN activeOffline - 1 ELSE activeOffline
    /\ due' = Replanned(s)

(* The look's promise settled, in whatever way: launchDue's .finally. *)
Land(s) ==
    /\ flying' = flying \ {s} /\ counted' = counted \ {s} /\ again' = again \ {s}
    /\ active' = active - 1
    /\ activeOffline' = IF s \in counted THEN activeOffline - 1 ELSE activeOffline
    /\ due' = Replanned(s)

NextTurn(s) == [lane EXCEPT ![s] = Pumped(Freed(@), late)]
Overslept(s) == Rejected(Freed(lane[s]), late)

(* observeServer ended: it answered (which lifts a hold), failed once too  *)
(* often, or asked for a hold.  The lane goes on, and it is planned anew.  *)
LookEnds(s) ==
    /\ lane[s].running = Look[s]
    /\ LanesBecome(NextTurn(s), Overslept(s), {}, {})
    /\ \/ offline' = offline \ {s} /\ hold' = hold \ {s}
       \/ s \in MayFail /\ offline' = offline \cup {s} /\ UNCHANGED hold
       \/ s \in MayHold /\ hold' = hold \cup {s} /\ UNCHANGED offline
    /\ Land(s)
    /\ UNCHANGED <<total, calls>>

HoldEnds(s) ==
    /\ s \in hold
    /\ hold' = hold \ {s}
    /\ due' = IF Overdue(s) THEN due ELSE Behind(due, s)
    /\ UNCHANGED <<lanes, looks, offline, total, calls>>

(* observeSoon: at the next beat, after the look in flight, or after the   *)
(* hold.                                                                   *)
ObserveSoon(s) ==
    /\ calls < MaxCalls /\ calls' = calls + 1
    /\ asked' = asked \cup {s}
    /\ again' = IF s \in flying THEN again \cup {s} ELSE again
    /\ due' = IF s \in flying \cup hold THEN due ELSE LastDue(s)
    /\ UNCHANGED <<lane, late, answer, flying, counted, active, activeOffline, hold, offline, total>>

(* The settings changed: the idle servers are planned anew, and those that *)
(* were overdue are all due now, in the roster's order.                    *)
NewSettings ==
    /\ calls < MaxCalls /\ calls' = calls + 1
    /\ total' \in Totals \ {total}
    /\ LET planned == DOMAIN due \ flying
           rest == DOMAIN due \cap flying
       IN \E roster \in {r \in [planned -> SUBSET planned] : IsQueue(r)} :
            due' = [s \in DOMAIN due |-> IF s \in planned THEN rest \cup roster[s]
                                        ELSE due[s] \cap rest]
    /\ UNCHANGED <<lanes, looks, hold, offline>>

-----------------------------------------------------------------------------
(* The lanes' other users *)

Send(c) ==
    LET s == LaneOf[c]
        joined == Joined(lane[s], c) IN
    /\ answer[c] = "none" /\ lane[s].running # c /\ c \notin Waiting(lane[s])
    /\ IF Full(lane[s]) THEN LanesBecome(lane, {}, {c}, {})
       ELSE LanesBecome([lane EXCEPT ![s] = Pumped(joined, late)], Rejected(joined, late), {}, {})
    /\ UNCHANGED <<looks, due, hold, offline, total, calls>>

(* The game answered the command, or failed it: the caller hears, and the  *)
(* lane goes on, perhaps after dropping what waited too long: its look too *)
(* is over then.                                                           *)
CommandEnds(c) ==
    LET s == LaneOf[c] IN
    /\ lane[s].running = c
    /\ LanesBecome(NextTurn(s), Overslept(s), {}, {c})
    /\ UNCHANGED <<hold, offline, total, calls>>
    /\ IF Look[s] \in Overslept(s) THEN Land(s) ELSE UNCHANGED <<looks, due>>

(* A waiting job's deadline passes; they all wait as long, so the first to *)
(* come is the first to be late.                                           *)
Expire(s) ==
    /\ \E j \in Waiting(lane[s]) \ late : /\ lane[s].jobs[j] \subseteq late
                                        /\ late' = late \cup {j}
    /\ UNCHANGED <<lane, answer, asked, looks, due, hold, offline, total, calls>>

Next ==
    \/ \E s \in Server : \/ BecomeDue(s) \/ LookEnds(s) \/ HoldEnds(s)
                         \/ ObserveSoon(s) \/ Expire(s)
    \/ \E c \in Command : Send(c) \/ CommandEnds(c)
    \/ Beat \/ NewSettings

Spec == Init /\ [][Next]_vars

(* The beat fires, cadences come round, holds pass, and the game or its    *)
(* timeout settles every request.                                          *)
Fairness ==
    /\ WF_vars(Beat)
    /\ \A s \in Server :
         /\ WF_vars(BecomeDue(s) \/ HoldEnds(s))
         /\ WF_vars(LookEnds(s) \/ \E c \in Command : CommandEnds(c) /\ LaneOf[c] = s)

FairSpec == Spec /\ Fairness

-----------------------------------------------------------------------------
(* Properties *)

(* The scheduler's counters are the looks in flight, however each ended    *)
(* (run, refused by a full lane, dropped too late) and whatever became of  *)
(* its server meanwhile: no slot of the budget is lost or given twice.     *)
CountersAreTheFlights ==
    /\ active = Cardinality(flying)
    /\ activeOffline = Cardinality(counted)

(* What launches keeps within the budget, and servers that do not answer   *)
(* never hold more than their share of it ("never starves the ones that    *)
(* answer", poller-schedule.ts, pickDue).                                  *)
LaunchesKeepTheShare ==
    [][/\ flying' \subseteq flying \/ Cardinality(flying') <= total
       /\ counted' \subseteq counted \/ Cardinality(counted') <= Limit]_vars

(* A look somebody asked for is never forgotten: until one begins (or is   *)
(* refused by its lane), the server is due, or a look that has not begun   *)
(* or will be followed by another is in flight, or a hold comes first.     *)
AskedIsKept ==
    \A s \in asked : Overdue(s) \/ s \in hold \/ s \in again
                     \/ (s \in flying /\ lane[s].running # Look[s])

(* A lane that is free has nobody waiting for it. *)
NobodyWaitsForNothing ==
    \A s \in Server : lane[s].running = Free => Waiting(lane[s]) = {}

(* Everyone is answered once, and as it went.  A command leaves its lane   *)
(* having run, and its caller hears how that ended, or past its deadline,  *)
(* and the caller hears that it was dropped; nobody runs past the          *)
(* deadline, and who was told anything, refused or dropped or done, is     *)
(* never in the lane again and told nothing else ("a caller that gave up   *)
(* never has its command run late", dispatcher.ts).                        *)
InLane(c) == c \in Waiting(lane[LaneOf[c]]) \cup {lane[LaneOf[c]].running}
AnsweredOnce(c) ==
    /\ InLane(c) /\ ~InLane(c)' =>
         answer'[c] = IF lane[LaneOf[c]].running = c THEN "done" ELSE "dropped"
    /\ answer[c] = "none" /\ answer'[c] = "dropped" => c \in late
    /\ c \in late => lane'[LaneOf[c]].running # c
    /\ answer[c] # "none" => answer'[c] = answer[c] /\ ~InLane(c)'
NobodyLeavesUnanswered == [][\A c \in Command : AnsweredOnce(c)]_vars

(* Every server is looked at again and again. *)
NobodyIsForgotten ==
    \A s \in Server : []<>(lane[s].running = Look[s])
=============================================================================
