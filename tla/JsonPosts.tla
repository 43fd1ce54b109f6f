----------------------------- MODULE JsonPosts -----------------------------
(***************************************************************************)
(* The queue of POSTs to organisations' JSON webhooks:                     *)
(* src/lib/server/json-webhook-queue.ts, with the pause and the enabling   *)
(* of json-webhooks.ts.                                                    *)
(*                                                                         *)
(* An event is queued in its caller's transaction, which may commit after  *)
(* a younger one's.  The worker that owns the lease claims each webhook's  *)
(* oldest open POST, sends it, and writes down what the receiver said; a   *)
(* POST without an answer waits and is sent again, and one whose worker    *)
(* stopped goes out again once its lease has run out.  Ownership is as in  *)
(* Outbox.tla.  Waits and leases end at any moment.                        *)
(***************************************************************************)
EXTENDS Integers, FiniteSets

CONSTANTS
    Post,          \* ids: an interval of Nat, oldest first
    Hook,
    HookOf,        \* the webhook each POST is for
    Proc, NoProc,
    SLOTS,         \* POSTs in flight at once, across every webhook
    RETRIES,       \* the length of RETRY_S
    MaxLapse,      \* bound: times a running owner loses its lease
    MaxEdits       \* bound: times an owner pauses a webhook

ASSUME PostAssumption == Post \subseteq Nat /\ HookOf \in [Post -> Hook]
ASSUME ProcAssumption == NoProc \notin Proc
ASSUME BoundAssumption == {SLOTS, RETRIES, MaxLapse, MaxEdits} \subseteq Nat

VARIABLES
    post,      \* the table: state ("queuing" before its transaction commits), attempts,
               \* due (not_before passed), lapsed (lease_until passed)
    hook,      \* per webhook: on (enabled), and whether a pause has its skipQueued still to run
    owner,     \* whose unlapsed lease the database holds
    proc,      \* per process: up, believes (isOwner)
    job,       \* per process and webhook: the POST in flight (busy)
    heard,     \* the best the receiver said of each POST so far (observer)
    late,      \* POSTs whose transaction committed after a younger one's (observer)
    count      \* bound counters: lapses, edits

vars == <<post, hook, owner, proc, job, heard, late, count>>

Done == {"delivered", "failed", "skipped"}
Open == {"pending", "sending"}
Answers == {"ok", "final", "none"}
Better(said, before) == IF before = "ok" \/ (before = "final" /\ said = "none") THEN before ELSE said
NoJob == [row |-> 0, attempts |-> 0, at |-> "none", out |-> "none"]
Jobs == [row : Post \cup {0}, attempts : Nat, at : {"none", "takes", "note", "finish"},
         out : Answers \cup {"none", "failed", "skipped"}]
Busy(p) == {h \in Hook : job[p][h].at # "none"}
Of(h) == {r \in Post : HookOf[r] = h}

TypeOK ==
    /\ post \in [Post -> [state : {"absent", "queuing"} \cup Open \cup Done,
                          attempts : Nat, due : BOOLEAN, lapsed : BOOLEAN]]
    /\ hook \in [Hook -> [on : BOOLEAN, skipping : BOOLEAN]]
    /\ owner \in Proc \cup {NoProc}
    /\ proc \in [Proc -> [up : BOOLEAN, believes : BOOLEAN]]
    /\ job \in [Proc -> [Hook -> Jobs]]
    /\ heard \in [Post -> Answers \cup {"unsent"}]
    /\ late \subseteq Post
    /\ count \in [lapses : 0 .. MaxLapse, edits : 0 .. MaxEdits]

Init ==
    /\ post = [r \in Post |-> [state |-> "absent", attempts |-> 0, due |-> TRUE, lapsed |-> FALSE]]
    /\ hook = [h \in Hook |-> [on |-> TRUE, skipping |-> FALSE]]
    /\ owner = NoProc
    /\ proc = [p \in Proc |-> [up |-> TRUE, believes |-> FALSE]]
    /\ job = [p \in Proc |-> [h \in Hook |-> NoJob]]
    /\ heard = [r \in Post |-> "unsent"]
    /\ late = {}
    /\ count = [lapses |-> 0, edits |-> 0]

-----------------------------------------------------------------------------
(* queueEvent, and the transaction it is called in *)

(* The webhook was on when it was read; the row has its id, and nobody     *)
(* sees it yet.                                                            *)
QueueEvent(r) ==
    /\ post[r].state = "absent"
    /\ \A q \in Post : q < r => post[q].state # "absent"
    /\ hook[HookOf[r]].on
    /\ post' = [post EXCEPT ![r].state = "queuing"]
    /\ UNCHANGED <<hook, owner, proc, job, heard, late, count>>

Commit(r) ==
    /\ post[r].state = "queuing"
    /\ post' = [post EXCEPT ![r].state = "pending"]
    /\ late' = IF \E q \in Of(HookOf[r]) : q > r /\ post[q].state \notin {"absent", "queuing"}
               THEN late \cup {r} ELSE late
    /\ UNCHANGED <<hook, owner, proc, job, heard, count>>

-----------------------------------------------------------------------------
(* withOwnedTransaction as a caller sees it (Lease.tla). *)
Owned(p) == owner = p /\ proc[p].believes
Disown(p) == [proc EXCEPT ![p].believes = FALSE]

(* tick *)

(* Mutant: a POST whose worker stopped is always sent again. *)
AfterSweep_Forever ==
    [r \in Post |-> IF post[r].state = "sending" /\ post[r].lapsed
                    THEN [post[r] EXCEPT !.state = "pending", !.lapsed = FALSE]
                    ELSE post[r]]

(* Mutant: nothing is swept. *)
AfterSweep_None == post

(* A POST whose worker stopped mid-send goes out again, within the         *)
(* attempts a retry would have had.                                        *)
AfterSweep ==
    [r \in Post |-> IF post[r].state = "sending" /\ post[r].lapsed
                    THEN [post[r] EXCEPT !.lapsed = FALSE,
                            !.state = IF post[r].attempts > RETRIES THEN "failed" ELSE "pending"]
                    ELSE post[r]]

(* Each webhook's oldest open POST, if it waits and is due. *)
Heads(table) ==
    {r \in Post : /\ table[r].state = "pending" /\ table[r].due
                  /\ \A q \in Of(HookOf[r]) : q < r => table[q].state \notin Open}

(* The oldest heads of webhooks with none in flight here, as many as there *)
(* are free slots.                                                         *)
Picked(p, table) ==
    LET free == {r \in Heads(table) : HookOf[r] \notin Busy(p)}
    IN  {r \in free : Cardinality({q \in free : q < r}) < SLOTS - Cardinality(Busy(p))}

(* One transaction sweeps and claims; its answer may be lost, and then     *)
(* nobody sends what it claimed until the lease runs out.                  *)
Tick(p) ==
    LET picked == Picked(p, AfterSweep) IN
    /\ proc[p].up /\ Owned(p)
    /\ post' = [r \in Post |->
                  IF r \in picked
                  THEN [state |-> "sending", attempts |-> post[r].attempts + 1,
                        due |-> TRUE, lapsed |-> FALSE]
                  ELSE AfterSweep[r]]
    /\ \/ job' = [job EXCEPT ![p] = [h \in Hook |->
                    IF \E r \in picked : HookOf[r] = h
                    THEN LET r == CHOOSE r \in picked : HookOf[r] = h
                         IN  [row |-> r, attempts |-> post[r].attempts + 1, at |-> "takes",
                              out |-> "none"]
                    ELSE @[h]]]
       \/ UNCHANGED job
    /\ UNCHANGED <<hook, owner, proc, heard, late, count>>

-----------------------------------------------------------------------------
(* post *)

At(p, h, at) == job[p][h].at = at
Goto(p, h, at, out) == job' = [job EXCEPT ![p][h] = [@ EXCEPT !.at = at, !.out = out]]
Over(p, h) == job' = [job EXCEPT ![p][h] = NoJob]

(* takes: the webhook does not take this POST any more (it was paused or   *)
(* changed), or the read failed.                                           *)
NotTaken(p, h) ==
    /\ At(p, h, "takes")
    /\ Goto(p, h, "finish", "skipped") \/ Goto(p, h, "finish", "failed")
    /\ UNCHANGED <<post, hook, owner, proc, heard, late, count>>

(* The webhook is on and takes it: it is sent, and answered or not. *)
Send(p, h) ==
    /\ At(p, h, "takes")
    /\ hook[h].on
    /\ \E said \in Answers :
         /\ heard' = [heard EXCEPT ![job[p][h].row] = Better(said, @)]
         /\ Goto(p, h, "note", said)
    /\ UNCHANGED <<post, hook, owner, proc, late, count>>

(* What the POST is once its answer is written down: no answer, and it     *)
(* waits for its next attempt while there is one.                          *)
Again(p, h) == job[p][h].out = "none" /\ job[p][h].attempts <= RETRIES
Abandoned(p, h) == job[p][h].out = "none" /\ job[p][h].attempts > RETRIES

Ended(r, state) == [post[r] EXCEPT !.state = state, !.lapsed = FALSE]

(* Mutant: the row is written whatever became of it. *)
Written_Blind(p, h, r) ==
    IF r = job[p][h].row
    THEN IF Again(p, h) THEN [post[r] EXCEPT !.state = "pending", !.due = FALSE, !.lapsed = FALSE]
         ELSE Ended(r, IF job[p][h].out = "ok" THEN "delivered" ELSE "failed")
    ELSE IF Abandoned(p, h) /\ HookOf[r] = h /\ post[r].state = "pending"
    THEN Ended(r, "skipped") ELSE post[r]

(* The POST if it is still being sent; when the receiver is given up, what *)
(* waits behind it too.                                                    *)
Written(p, h, r) ==
    IF Abandoned(p, h) /\ HookOf[r] = h /\ post[r].state = "pending"
    THEN Ended(r, "skipped")
    ELSE IF r # job[p][h].row \/ post[r].state # "sending" THEN post[r]
    ELSE IF Again(p, h) THEN [post[r] EXCEPT !.state = "pending", !.due = FALSE, !.lapsed = FALSE]
    ELSE Ended(r, IF job[p][h].out = "ok" THEN "delivered" ELSE "failed")

(* The POST and its webhook's pause are written together.  The commit's    *)
(* answer may be lost, and then it is finished as failed on top.           *)
Note(p, h) ==
    /\ At(p, h, "note") /\ Owned(p)
    /\ post' = [r \in Post |-> Written(p, h, r)]
    /\ hook' = IF Abandoned(p, h) THEN [hook EXCEPT ![h].on = FALSE] ELSE hook
    /\ Over(p, h) \/ Goto(p, h, "finish", "failed")
    /\ UNCHANGED <<owner, proc, heard, late, count>>

(* Mutant: finished as it was answered. *)
NoteFails_AsAnswered(p, h) ==
    /\ At(p, h, "note")
    /\ Goto(p, h, "finish", job[p][h].out)
    /\ UNCHANGED <<post, hook, owner, proc, heard, late, count>>

(* The transaction failed: the POST is finished as failed. *)
NoteFails(p, h) ==
    /\ At(p, h, "note")
    /\ Goto(p, h, "finish", "failed")
    /\ UNCHANGED <<post, hook, owner, proc, heard, late, count>>

(* LostOwnership, here or in finish: its lease runs out and it goes out    *)
(* again.                                                                  *)
Lost(p, h) ==
    /\ At(p, h, "note") \/ At(p, h, "finish")
    /\ ~Owned(p)
    /\ proc' = Disown(p)
    /\ Over(p, h)
    /\ UNCHANGED <<post, hook, owner, heard, late, count>>

Finish(p, h) ==
    LET r == job[p][h].row IN
    /\ At(p, h, "finish") /\ Owned(p)
    /\ post' = IF post[r].state = "sending" THEN [post EXCEPT ![r] = Ended(r, job[p][h].out)]
               ELSE post
    /\ Over(p, h) \/ (job[p][h].out = "skipped" /\ Goto(p, h, "finish", "failed"))
    /\ UNCHANGED <<hook, owner, proc, heard, late, count>>

(* The database failed: a skip is finished as failed instead, a failure is *)
(* left to the lease.                                                      *)
FinishFails(p, h) ==
    /\ At(p, h, "finish")
    /\ IF job[p][h].out = "skipped" THEN Goto(p, h, "finish", "failed") ELSE Over(p, h)
    /\ UNCHANGED <<post, hook, owner, proc, heard, late, count>>

-----------------------------------------------------------------------------
(* updateJsonWebhook: two statements, not one transaction *)

Pause(h) ==
    /\ count.edits < MaxEdits
    /\ ~hook[h].skipping
    /\ hook' = [hook EXCEPT ![h] = [on |-> FALSE, skipping |-> TRUE]]
    /\ count' = [count EXCEPT !.edits = @ + 1]
    /\ UNCHANGED <<post, owner, proc, job, heard, late>>

(* What waits is skipped, even if the webhook was enabled again meanwhile. *)
SkipQueued(h) ==
    /\ hook[h].skipping
    /\ hook' = [hook EXCEPT ![h].skipping = FALSE]
    /\ post' = [r \in Post |-> IF HookOf[r] = h /\ post[r].state = "pending"
                               THEN Ended(r, "skipped") ELSE post[r]]
    /\ UNCHANGED <<owner, proc, job, heard, late, count>>

Enable(h) ==
    /\ ~hook[h].on
    /\ hook' = [hook EXCEPT ![h].on = TRUE]
    /\ UNCHANGED <<post, owner, proc, job, heard, late, count>>

-----------------------------------------------------------------------------
(* Time, ownership, shutdown and crashes *)

LeaseRunsOut(r) ==
    /\ post[r].state = "sending" /\ ~post[r].lapsed
    /\ post' = [post EXCEPT ![r].lapsed = TRUE]
    /\ UNCHANGED <<hook, owner, proc, job, heard, late, count>>

ComesDue(r) ==
    /\ post[r].state = "pending" /\ ~post[r].due
    /\ post' = [post EXCEPT ![r].due = TRUE]
    /\ UNCHANGED <<hook, owner, proc, job, heard, late, count>>

Own(p) ==
    /\ proc[p].up /\ ~proc[p].believes
    /\ owner \in {NoProc, p}
    /\ owner' = p
    /\ proc' = [proc EXCEPT ![p].believes = TRUE]
    /\ UNCHANGED <<post, hook, job, heard, late, count>>

(* A running owner's renewals stall, or the owner is dead. *)
Lapse ==
    /\ owner # NoProc
    /\ owner' = NoProc
    /\ IF proc[owner].up
       THEN count.lapses < MaxLapse /\ count' = [count EXCEPT !.lapses = @ + 1]
       ELSE UNCHANGED count
    /\ UNCHANGED <<post, hook, proc, job, heard, late>>

LearnLost(p) ==
    /\ proc[p].believes /\ owner # p
    /\ proc' = Disown(p)
    /\ UNCHANGED <<post, hook, owner, job, heard, late, count>>

(* stopPoller: the lease is given up; what is in flight goes on. *)
Stop(p) ==
    /\ proc[p].up
    /\ \E q \in Proc \ {p} : proc[q].up
    /\ proc' = [proc EXCEPT ![p] = [up |-> FALSE, believes |-> FALSE]]
    /\ owner' = IF owner = p THEN NoProc ELSE owner
    /\ UNCHANGED <<post, hook, job, heard, late, count>>

Crash(p) ==
    /\ proc[p].up
    /\ \E q \in Proc \ {p} : proc[q].up
    /\ proc' = [proc EXCEPT ![p] = [up |-> FALSE, believes |-> FALSE]]
    /\ job' = [job EXCEPT ![p] = [h \in Hook |-> NoJob]]
    /\ UNCHANGED <<post, hook, owner, heard, late, count>>

-----------------------------------------------------------------------------
InFlight(p, h) == \/ NotTaken(p, h) \/ Send(p, h) \/ Note(p, h) \/ NoteFails(p, h) \/ Lost(p, h)
                  \/ Finish(p, h) \/ FinishFails(p, h)

Next == \/ \E r \in Post : QueueEvent(r) \/ Commit(r) \/ LeaseRunsOut(r) \/ ComesDue(r)
        \/ \E h \in Hook : Pause(h) \/ SkipQueued(h) \/ Enable(h)
        \/ \E p \in Proc : \/ Tick(p) \/ Own(p) \/ LearnLost(p) \/ Stop(p) \/ Crash(p)
                           \/ \E h \in Hook : InFlight(p, h)
        \/ Lapse

Spec == Init /\ [][Next]_vars

(* Ticks come, what is in flight goes on, waits and leases end, a dead     *)
(* owner's lease lapses and the other process asks for it.                 *)
Fairness ==
    /\ \A r \in Post : WF_vars(LeaseRunsOut(r)) /\ WF_vars(ComesDue(r))
    /\ WF_vars(Lapse /\ ~proc[owner].up)
    /\ \A p \in Proc : /\ WF_vars(Own(p) \/ LearnLost(p)) /\ WF_vars(Tick(p))
                       /\ \A h \in Hook : WF_vars(InFlight(p, h))

FairSpec == Spec /\ Fairness

-----------------------------------------------------------------------------
(* Properties *)

(* A webhook's POSTs go oldest first, and while one waits for its retry    *)
(* the others wait behind it: the first time a POST goes out, every older  *)
(* one has ended, but for those that committed late.                       *)
OldestFirst ==
    [][\A r \in Post : heard[r] = "unsent" /\ heard'[r] # "unsent" =>
         \A q \in Of(HookOf[r]) : q < r /\ post[q].state \in Open => q \in late]_vars

(* However a worker stops, and however late an answer is written down, an  *)
(* ended POST stays as it ended, and delivered means the receiver said so. *)
EndsTruthfully ==
    [][\A r \in Post : /\ post[r].state \in Done => post'[r].state = post[r].state
                       /\ post'[r].state = "delivered" => heard'[r] = "ok"]_vars

(* While the owner keeps its lease, restarts do not lengthen the budget: a *)
(* POST is claimed at most once per wait, and once more.                   *)
WithinAttempts ==
    count.lapses = 0 => \A r \in Post : post[r].attempts <= RETRIES + 1

(* Every queued POST ends: a receiver that never answers, a paused         *)
(* webhook, a stopped worker or a lost lease leaves none behind.           *)
EveryPostEnds == \A r \in Post : post[r].state \in Open ~> post[r].state \in Done
=============================================================================
