------------------------------- MODULE Outbox -------------------------------
(***************************************************************************)
(* The trigger delivery loop: src/lib/server/outbox.ts.                    *)
(*                                                                         *)
(* Rules write rows ("intents"); the worker that owns the lease claims the *)
(* oldest due rows of each server, durably, before anything is sent, and   *)
(* delivers them one server at a time (a chain).  The game acts on what it *)
(* is sent and cannot be asked whether it did, so a row is sent at most    *)
(* once: one whose outcome nobody recorded ends as unknown.                *)
(*                                                                         *)
(* Ownership is what Lease.tla shows of it: at most one process holds an   *)
(* unlapsed lease in the database, a process may go on believing it does,  *)
(* and a fenced transaction of a process that does not is refused.  Time   *)
(* (a row's lease, its wait, its age, a hold) passes at any moment.        *)
(***************************************************************************)
EXTENDS Integers, FiniteSets

CONSTANTS
    Row,           \* outbox ids: an interval of Nat, oldest first
    Server,
    ServerOf,      \* the server each row is for
    MayBe,         \* what delivering each row may be: see Kinds
    Proc, NoProc,
    PER_SERVER,    \* most rows one claim takes of one server
    CLAIM_LIMIT,   \* most rows one claim takes
    MaxLapse,      \* bound: times a running owner loses its lease
    Ageing         \* bound: rows that may pass their age cut-off (a skip comes anyway)

(* game: a request to the game server.  grant: a reserved slot written to  *)
(* a list (Seeding and bounty rewards).  ban: a ban written in the fenced  *)
(* transaction (PANEL_BAN).  flag: recording it is the whole delivery.     *)
Kinds == {"game", "grant", "ban", "flag"}
Done == {"delivered", "failed", "skipped", "unknown"}

ASSUME RowAssumption == /\ Row \subseteq Nat
                        /\ ServerOf \in [Row -> Server]
                        /\ MayBe \in [Row -> SUBSET Kinds]
                        /\ Ageing \subseteq Row
ASSUME ProcAssumption == NoProc \notin Proc
ASSUME BoundAssumption == PER_SERVER \in Nat /\ CLAIM_LIMIT \in Nat /\ MaxLapse \in Nat

VARIABLES
    kind,    \* per row: its action, as the rule wrote it
    row,     \* the table: state, lease ("none", "running", "lapsed"), due (not_before passed)
    old,     \* rows past their age cut-off
    owner,   \* whose unlapsed lease the database holds
    proc,    \* per process: up (running, stopped, gone: shut down or crashed), believes
             \* (isOwner), whether a pass is claiming, the rows it got
    held,    \* per process: the servers that asked the panel to slow down
    chain,   \* per process and server: rows still to deliver, all it took, and the step it is at
    sends,   \* how often each row was put into effect (observer's count)
    lapses   \* bound counter

vars == <<kind, row, old, owner, proc, held, chain, sends, lapses>>

NoChain == [rows |-> {}, all |-> {}, at |-> "none", out |-> "none", refused |-> FALSE]
Fresh(rows) == [rows |-> rows, all |-> rows, at |-> "early", out |-> "none", refused |-> FALSE]
Pending == [state |-> "pending", lease |-> "none", due |-> TRUE]

Steps == {"none", "early", "lane", "ready", "finish", "release", "back"}
Busy(p) == {s \in Server : chain[p][s].rows # {}}
Mine(p) == UNION {chain[p][s].all : s \in Server}

TypeOK ==
    /\ kind \in [Row -> Kinds]
    /\ row \in [Row -> [state : {"absent", "pending", "sending"} \cup Done,
                        lease : {"none", "running", "lapsed"}, due : BOOLEAN]]
    /\ old \subseteq Row
    /\ owner \in Proc \cup {NoProc}
    /\ proc \in [Proc -> [up : {"running", "stopped", "gone"}, believes : BOOLEAN,
                          claiming : BOOLEAN, got : SUBSET Row]]
    /\ held \in [Proc -> SUBSET Server]
    /\ chain \in [Proc -> [Server -> [rows : SUBSET Row, all : SUBSET Row, at : Steps,
                                      out : Done \cup {"none"}, refused : BOOLEAN]]]
    /\ sends \in [Row -> Nat]
    /\ lapses \in 0 .. MaxLapse

Init ==
    /\ kind \in {k \in [Row -> Kinds] : \A r \in Row : k[r] \in MayBe[r]}
    /\ row = [r \in Row |-> [Pending EXCEPT !.state = "absent"]]
    /\ old = {}
    /\ owner = NoProc
    /\ proc = [p \in Proc |-> [up |-> "running", believes |-> FALSE, claiming |-> FALSE, got |-> {}]]
    /\ held = [p \in Proc |-> {}]
    /\ chain = [p \in Proc |-> [s \in Server |-> NoChain]]
    /\ sends = [r \in Row |-> 0]
    /\ lapses = 0

-----------------------------------------------------------------------------
(* enqueueIntents: each dedupe key once, so each row once; a watch-only    *)
(* intent is written as skipped.                                           *)
Enqueue(r) ==
    /\ row[r].state = "absent"
    /\ \A q \in Row : q < r => row[q].state # "absent"
    /\ \E state \in {"pending", "skipped"} : row' = [row EXCEPT ![r].state = state]
    /\ UNCHANGED <<kind, old, owner, proc, held, chain, sends, lapses>>

(* dropQueued: a rule's settings changed, so what it has queued is         *)
(* skipped, in one statement.                                              *)
DropQueued ==
    /\ \E rows \in SUBSET {r \in Row : row[r].state = "pending"} \ {{}} :
         row' = [r \in Row |-> IF r \in rows THEN [Pending EXCEPT !.state = "skipped"] ELSE row[r]]
    /\ UNCHANGED <<kind, old, owner, proc, held, chain, sends, lapses>>

-----------------------------------------------------------------------------
(* withOwnedTransaction as a caller sees it: it runs, it throws            *)
(* LostOwnership and the process knows, or the database fails and it wrote *)
(* nothing.                                                                *)
Owned(p) == owner = p /\ proc[p].believes
Disown(p) == [proc EXCEPT ![p].believes = FALSE]
Refused(p) == proc' \in {proc, IF Owned(p) THEN proc ELSE Disown(p)}

(* pass *)

CanPass(p) == proc[p].up = "running" /\ proc[p].believes /\ ~proc[p].claiming

(* The rows a claim by p takes: due rows of servers with no chain running  *)
(* here and not held, the PER_SERVER oldest of each, the CLAIM_LIMIT       *)
(* oldest of those.                                                        *)
Oldest(rows, n) == {r \in rows : Cardinality({q \in rows : q < r}) < n}
Due(p) == {r \in Row : /\ row[r].state = "pending" /\ row[r].due
                       /\ ServerOf[r] \notin Busy(p) \cup held[p]}
Claimable(p) ==
    Oldest(UNION {Oldest({r \in Due(p) : ServerOf[r] = s}, PER_SERVER) : s \in Server},
           CLAIM_LIMIT)

(* Mutant: nothing is swept. *)
Swept_None(p) == {}

(* A send whose lease lapsed may have reached the game.  One still waiting *)
(* in a chain here has not.                                                *)
Swept(p) == {r \in Row : row[r].state = "sending" /\ row[r].lease = "lapsed" /\ r \notin Mine(p)}

(* Mutant: a lapsed row is tried again. *)
AfterClaim_Retry(p) ==
    [r \in Row |-> IF r \in Swept(p) THEN Pending
                   ELSE IF r \in Claimable(p)
                        THEN [state |-> "sending", lease |-> "running", due |-> TRUE]
                        ELSE row[r]]

AfterClaim(p) ==
    [r \in Row |-> IF r \in Swept(p) THEN [Pending EXCEPT !.state = "unknown"]
                   ELSE IF r \in Claimable(p)
                        THEN [state |-> "sending", lease |-> "running", due |-> TRUE]
                        ELSE row[r]]

(* One transaction: sweep, then claim.  The pass was started by an owner   *)
(* that had not been stopped; a stop after that finds it claiming or done. *)
(* The commit's answer may be lost: the rows are claimed, nobody has them. *)
Claim(p) ==
    /\ CanPass(p) /\ Owned(p)
    /\ row' = AfterClaim(p)
    /\ \/ proc' = [proc EXCEPT ![p].claiming = TRUE, ![p].got = Claimable(p)]
       \/ UNCHANGED proc
    /\ UNCHANGED <<kind, old, owner, held, chain, sends, lapses>>

(* LostOwnership.  (When the database fails before it commits, nothing     *)
(* changes.)                                                               *)
ClaimLost(p) ==
    /\ CanPass(p) /\ ~Owned(p)
    /\ proc' = Disown(p)
    /\ UNCHANGED <<kind, row, old, owner, held, chain, sends, lapses>>

(* One chain per server, which delivers its oldest row first. *)
Launch(p) ==
    /\ proc[p].claiming /\ proc[p].up = "running"
    /\ chain' = [chain EXCEPT ![p] = [s \in Server |->
                   LET rows == {r \in proc[p].got : ServerOf[r] = s}
                   IN  IF rows = {} THEN @[s] ELSE Fresh(rows)]]
    /\ proc' = [proc EXCEPT ![p].claiming = FALSE, ![p].got = {}]
    /\ UNCHANGED <<kind, row, old, owner, held, sends, lapses>>

PutBack(rows) ==
    [r \in Row |-> IF r \in rows /\ row[r].state = "sending" THEN Pending ELSE row[r]]

(* Stopped while claiming: the rows go back unsent.  If that fails they    *)
(* stay claimed, and the sweep counts them unknown.                        *)
LaunchStopped(p) ==
    /\ proc[p].claiming /\ proc[p].up = "stopped"
    /\ \/ Owned(p) /\ row' = PutBack(proc[p].got)
       \/ UNCHANGED row
    /\ \E believes \in {proc[p].believes, Owned(p)} :
         proc' = [proc EXCEPT ![p].claiming = FALSE, ![p].got = {}, ![p].believes = believes]
    /\ UNCHANGED <<kind, old, owner, held, chain, sends, lapses>>

-----------------------------------------------------------------------------
(* deliverChain, deliverOne: the oldest row left of a chain *)

First(p, r) ==
    /\ r \in chain[p][ServerOf[r]].rows
    /\ \A q \in chain[p][ServerOf[r]].rows : r <= q
At(p, r, at) == First(p, r) /\ chain[p][ServerOf[r]].at = at

Goto(p, r, at) == chain' = [chain EXCEPT ![p][ServerOf[r]].at = at]
FinishAs(p, r, out, refused) ==
    chain' = [chain EXCEPT ![p][ServerOf[r]] = [@ EXCEPT !.at = "finish", !.out = out,
                                                          !.refused = refused]]

(* Mutant: the row is updated whatever became of it. *)
Update_Blind(r, new) == [row EXCEPT ![r] = new]

(* UPDATE outbox ... WHERE id = r AND state = 'sending'. *)
Update(r, new) == IF row[r].state = "sending" THEN [row EXCEPT ![r] = new] ELSE row

(* Mutant: what the chain took is never forgotten. *)
Without_Mine(c, r) == [c EXCEPT !.rows = @ \ {r}, !.at = "early", !.out = "none", !.refused = FALSE]

(* On to the next row; with none left the server is free to be claimed.    *)
Without(c, r) == IF c.rows = {r} THEN NoChain
                 ELSE [c EXCEPT !.rows = @ \ {r}, !.at = "early", !.out = "none", !.refused = FALSE]
Advance(p, r) == chain' = [chain EXCEPT ![p][ServerOf[r]] = Without(@, r)]

(* Mutant: the row is finished without saying how it ended. *)
Skip_Unnamed(p, r) ==
    /\ At(p, r, "early") \/ At(p, r, "lane")
    /\ Goto(p, r, "finish")
    /\ UNCHANGED <<kind, row, old, owner, proc, held, sends, lapses>>

(* skipReason, before the lane and again in it: too old, or whatever else  *)
(* the worker's memory says against it now.  A panel action is never too   *)
(* old; it asks only whether the rule and the server are still there.      *)
Skip(p, r) ==
    /\ At(p, r, "early") \/ At(p, r, "lane")
    /\ FinishAs(p, r, "skipped", FALSE)
    /\ UNCHANGED <<kind, row, old, owner, proc, held, sends, lapses>>

(* The server is held, by an answer here or by its observation's: this row *)
(* and the rest go back.                                                   *)
Hold(p, r) ==
    /\ kind[r] = "game" /\ r \notin old
    /\ At(p, r, "early") \/ At(p, r, "lane")
    /\ held' = [held EXCEPT ![p] = @ \cup {ServerOf[r]}]
    /\ Goto(p, r, "back")
    /\ UNCHANGED <<kind, row, old, owner, proc, sends, lapses>>

Unheld(p, r) == kind[r] = "game" => ServerOf[r] \notin held[p]

(* The player is off the list with their session open, a move before is    *)
(* unconfirmed, or the rule could not be read: looked at again later.      *)
Wait(p, r) ==
    /\ \/ At(p, r, "early") /\ kind[r] \in {"game", "flag"}
       \/ At(p, r, "lane")
    /\ kind[r] = "game" => Unheld(p, r) /\ r \notin old
    /\ Goto(p, r, "release")
    /\ UNCHANGED <<kind, row, old, owner, proc, held, sends, lapses>>

ToLane(p, r) ==
    /\ At(p, r, "early")
    /\ kind[r] = "game" /\ Unheld(p, r) /\ r \notin old
    /\ Goto(p, r, "lane")
    /\ UNCHANGED <<kind, row, old, owner, proc, held, sends, lapses>>

(* Every check passed and isOwner() said yes.  What follows awaits the     *)
(* client, or the list and its server, before anything takes effect.       *)
Ready(p, r) ==
    /\ proc[p].believes
    /\ \/ At(p, r, "lane") /\ Unheld(p, r) /\ r \notin old
       \/ At(p, r, "early") /\ kind[r] \in {"grant", "ban"}
    /\ Goto(p, r, "ready")
    /\ UNCHANGED <<kind, row, old, owner, proc, held, sends, lapses>>

(* isOwner() said no: a lost lease, or a renewal that stalled.  The row is *)
(* left to the sweep.                                                      *)
Abandon(p, r) ==
    /\ \/ At(p, r, "lane")
       \/ At(p, r, "early") /\ kind[r] \in {"grant", "ban"}
    /\ Advance(p, r)
    /\ UNCHANGED <<kind, row, old, owner, proc, held, sends, lapses>>

Flag(p, r) ==
    /\ At(p, r, "early") /\ kind[r] = "flag"
    /\ FinishAs(p, r, "delivered", FALSE)
    /\ UNCHANGED <<kind, row, old, owner, proc, held, sends, lapses>>

Effect(r) == sends' = [sends EXCEPT ![r] = @ + 1]

(* execute: the request goes out.  It is answered (perhaps with a later    *)
(* step refused for sending too fast), refused, refused for sending too    *)
(* fast, or not answered, and then the game may have acted.                *)
Send(p, r) ==
    /\ At(p, r, "ready") /\ kind[r] = "game"
    /\ Effect(r)
    /\ \E out \in {"delivered", "failed", "unknown"}, refused \in BOOLEAN :
         /\ out = "unknown" => ~refused
         /\ FinishAs(p, r, out, refused)
         /\ held' = IF refused /\ out = "failed"
                    THEN [held EXCEPT ![p] = @ \cup {ServerOf[r]}] ELSE held
    /\ UNCHANGED <<kind, row, old, owner, proc, lapses>>

(* The panel failed before anything was sent, or the action found there    *)
(* was nothing to do.                                                      *)
SendNothing(p, r) ==
    /\ At(p, r, "ready")
    /\ \E out \in {"failed", "skipped"} : FinishAs(p, r, out, FALSE)
    /\ UNCHANGED <<kind, row, old, owner, proc, held, sends, lapses>>

(* grantEntry of a reward: isOwner is asked, and the slot is written on    *)
(* its own, not in a fenced transaction.  Its answer may be lost, and then *)
(* it counts as failed.                                                    *)
Grant(p, r) ==
    /\ At(p, r, "ready") /\ kind[r] = "grant"
    /\ Effect(r)
    /\ \E out \in {"delivered", "failed"} : FinishAs(p, r, out, FALSE)
    /\ UNCHANGED <<kind, row, old, owner, proc, held, lapses>>

(* grantEntry of a rule's ban: in the fenced transaction. *)
Ban(p, r) ==
    /\ At(p, r, "ready") /\ kind[r] = "ban"
    /\ \/ /\ Owned(p)
          /\ Effect(r)
          /\ \E out \in {"delivered", "failed"} : FinishAs(p, r, out, FALSE)
          /\ UNCHANGED proc
       \/ /\ ~Owned(p)
          /\ proc' = Disown(p)
          /\ Advance(p, r)
          /\ UNCHANGED sends
    /\ UNCHANGED <<kind, row, old, owner, held, lapses>>

(* finish: the row says how it ended, if it is still being sent and the    *)
(* lease is ours.  The chain goes on even if the database fails, unless    *)
(* the game asked the panel to slow down: then the rest goes back.         *)
Finish(p, r) ==
    LET c == chain[p][ServerOf[r]] IN
    /\ At(p, r, "finish")
    /\ \/ Owned(p) /\ row' = Update(r, [Pending EXCEPT !.state = c.out])
       \/ UNCHANGED row
    /\ IF c.refused
       THEN /\ held' = [held EXCEPT ![p] = @ \cup {ServerOf[r]}]
            /\ chain' = [chain EXCEPT ![p][ServerOf[r]] =
                           [Without(@, r) EXCEPT !.at = IF c.rows = {r} THEN "none" ELSE "back"]]
       ELSE Advance(p, r) /\ UNCHANGED held
    /\ UNCHANGED <<kind, old, owner, proc, sends, lapses>>

(* Not ours: the row is left to the sweep and the chain goes on. *)
FinishLost(p, r) ==
    /\ At(p, r, "finish")
    /\ ~Owned(p)
    /\ proc' = Disown(p)
    /\ Advance(p, r)
    /\ UNCHANGED <<kind, row, old, owner, held, sends, lapses>>

(* A panel action's finish may fail after its update (reading the server   *)
(* row for the audit): the row is finished again, as failed.               *)
FinishAgain(p, r) ==
    /\ At(p, r, "finish") /\ kind[r] \in {"grant", "ban"}
    /\ chain[p][ServerOf[r]].out # "failed"
    /\ \/ Owned(p) /\ row' = Update(r, [Pending EXCEPT !.state = chain[p][ServerOf[r]].out])
       \/ UNCHANGED row
    /\ FinishAs(p, r, "failed", FALSE)
    /\ UNCHANGED <<kind, old, owner, proc, held, sends, lapses>>

(* release: back to pending, due again in a while. *)
Release(p, r) ==
    /\ At(p, r, "release")
    /\ \/ Owned(p) /\ row' = Update(r, [Pending EXCEPT !.due = FALSE]) /\ UNCHANGED proc
       \/ UNCHANGED row /\ Refused(p)
    /\ Advance(p, r)
    /\ UNCHANGED <<kind, old, owner, held, sends, lapses>>

(* putBack of what is left of the chain: it ends. *)
Back(p, r) ==
    LET s == ServerOf[r] IN
    /\ At(p, r, "back")
    /\ \/ Owned(p) /\ row' = PutBack(chain[p][s].rows) /\ UNCHANGED proc
       \/ UNCHANGED row /\ Refused(p)
    /\ chain' = [chain EXCEPT ![p][s] = NoChain]
    /\ UNCHANGED <<kind, old, owner, held, sends, lapses>>

-----------------------------------------------------------------------------
(* Time, ownership, shutdown and crashes *)

LeaseRunsOut(r) ==
    /\ row[r].lease = "running"
    /\ row' = [row EXCEPT ![r].lease = "lapsed"]
    /\ UNCHANGED <<kind, old, owner, proc, held, chain, sends, lapses>>

ComesDue(r) ==
    /\ row[r].state = "pending" /\ ~row[r].due
    /\ row' = [row EXCEPT ![r].due = TRUE]
    /\ UNCHANGED <<kind, old, owner, proc, held, chain, sends, lapses>>

GrowsOld(r) ==
    /\ r \in Ageing \ old /\ kind[r] = "game"
    /\ row[r].state \in {"pending", "sending"}
    /\ old' = old \cup {r}
    /\ UNCHANGED <<kind, row, owner, proc, held, chain, sends, lapses>>

HoldEnds(p, s) ==
    /\ s \in held[p]
    /\ held' = [held EXCEPT ![p] = @ \ {s}]
    /\ UNCHANGED <<kind, row, old, owner, proc, chain, sends, lapses>>

(* A process takes a lease nobody holds, or learns it holds it still.      *)
Own(p) ==
    /\ proc[p].up = "running" /\ ~proc[p].believes
    /\ owner \in {NoProc, p}
    /\ owner' = p
    /\ proc' = [proc EXCEPT ![p].believes = TRUE]
    /\ UNCHANGED <<kind, row, old, held, chain, sends, lapses>>

(* The lease runs out in the database: renewals stall, or the owner is no  *)
(* longer there to renew it.                                               *)
Lapse ==
    /\ owner # NoProc
    /\ IF proc[owner].up = "running"
       THEN lapses < MaxLapse /\ lapses' = lapses + 1 ELSE UNCHANGED lapses
    /\ owner' = NoProc
    /\ UNCHANGED <<kind, row, old, proc, held, chain, sends>>

(* A process that lost the lease learns it. *)
LearnLost(p) ==
    /\ proc[p].believes /\ owner # p
    /\ proc' = Disown(p)
    /\ UNCHANGED <<kind, row, old, owner, held, chain, sends, lapses>>

(* stopDelivery, awaited by stopPoller, which then gives the lease up.     *)
Stop(p) ==
    /\ proc[p].up = "running"
    /\ \E q \in Proc \ {p} : proc[q].up = "running"
    /\ proc' = [proc EXCEPT ![p].up = "stopped"]
    /\ UNCHANGED <<kind, row, old, owner, held, chain, sends, lapses>>

GiveUp(p) ==
    /\ proc[p].up = "stopped" /\ ~proc[p].claiming
    /\ proc' = [proc EXCEPT ![p].up = "gone", ![p].believes = FALSE]
    /\ owner' = IF owner = p THEN NoProc ELSE owner
    /\ UNCHANGED <<kind, row, old, held, chain, sends, lapses>>

Crash(p) ==
    /\ proc[p].up \in {"running", "stopped"}
    /\ \E q \in Proc \ {p} : proc[q].up = "running"
    /\ proc' = [proc EXCEPT ![p] = [up |-> "gone", believes |-> FALSE, claiming |-> FALSE,
                                    got |-> {}]]
    /\ chain' = [chain EXCEPT ![p] = [s \in Server |-> NoChain]]
    /\ held' = [held EXCEPT ![p] = {}]
    /\ UNCHANGED <<kind, row, old, owner, sends, lapses>>

-----------------------------------------------------------------------------
Passing(p) == Claim(p) \/ ClaimLost(p) \/ Launch(p) \/ LaunchStopped(p)
Deliver(p, r) == \/ Skip(p, r) \/ Hold(p, r) \/ Wait(p, r) \/ ToLane(p, r) \/ Ready(p, r)
                 \/ Abandon(p, r) \/ Flag(p, r) \/ Send(p, r) \/ SendNothing(p, r)
                 \/ Grant(p, r) \/ Ban(p, r) \/ Release(p, r) \/ Back(p, r)
                 \/ Finish(p, r) \/ FinishLost(p, r) \/ FinishAgain(p, r)
Passes(r) == LeaseRunsOut(r) \/ ComesDue(r) \/ GrowsOld(r)

Next == \/ \E r \in Row : Enqueue(r) \/ Passes(r)
        \/ \E p \in Proc : \/ Passing(p) \/ Own(p) \/ LearnLost(p) \/ Stop(p) \/ GiveUp(p) \/ Crash(p)
                           \/ \E r \in Row : Deliver(p, r)
                           \/ \E s \in Server : HoldEnds(p, s)
        \/ DropQueued
        \/ Lapse

Spec == Init /\ [][Next]_vars

(* The scheduling the code rests on: intervals fire, chains run, leases,   *)
(* waits and holds end, a dead owner's lease lapses and the other process  *)
(* asks for it.  Strong fairness where the database may fail and be asked  *)
(* again: a claim goes through in the end, and a rule can be read.         *)
Fairness ==
    /\ \A r \in Row : WF_vars(LeaseRunsOut(r) \/ ComesDue(r)) /\ WF_vars(GrowsOld(r))
    /\ WF_vars(Lapse /\ proc[owner].up # "running")
    /\ \A p \in Proc :
         /\ WF_vars(Passing(p)) /\ SF_vars(Claim(p))
         /\ WF_vars(Own(p) \/ LearnLost(p) \/ GiveUp(p))
         /\ \A s \in Server : WF_vars(HoldEnds(p, s))
         /\ \A r \in Row : WF_vars(Deliver(p, r)) /\ SF_vars(Flag(p, r))

FairSpec == Spec /\ Fairness

-----------------------------------------------------------------------------
(* Properties *)

Handles(p, r) == r \in proc[p].got \/ r \in chain[p][ServerOf[r]].rows

(* A row is in the hands of one process at most, whatever became of their  *)
(* leases: a row waiting to be claimed is in nobody's chain, so no claim   *)
(* can start a second delivery of it.                                      *)
OneHandler ==
    \A r \in Row :
        /\ \A p, q \in Proc : Handles(p, r) /\ Handles(q, r) => p = q
        /\ \A p \in Proc : Handles(p, r) => row[r].state \notin {"absent", "pending"}

(* How a row looks from outside: recording a flag is its whole effect.     *)
FateOf(r) == IF row[r].state \in Done THEN row[r].state ELSE "open"
EffectsOf(r) == IF kind[r] = "flag" /\ row[r].state = "delivered" THEN 1 ELSE sends[r]

(* The outbox with its claims, chains, holds, crashes and lost leases does *)
(* what Delivery promises: no row takes effect twice, none ends twice, and *)
(* no row is called delivered or skipped that was not.                     *)
D == INSTANCE Delivery WITH fate <- [r \in Row |-> FateOf(r)],
                            effects <- [r \in Row |-> EffectsOf(r)]

ImplementsDelivery == D!Spec

(* Every row that is written ends: a crash, a lost lease, a failed update  *)
(* or a hold never leaves one behind.                                      *)
EveryRowEnds == \A r \in Row : row[r].state # "absent" ~> row[r].state \in Done
=============================================================================
