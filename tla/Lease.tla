------------------------------- MODULE Lease -------------------------------
(***************************************************************************)
(* The worker lease: src/lib/server/leadership.ts, with the renewal timer  *)
(* and the shutdown of poller.ts that drive it and the totals lock of      *)
(* totals.ts that its transactions take first.                             *)
(*                                                                         *)
(* One database row names the owning token and when its lease ends.  Every *)
(* process renews on a timer that does not wait for the answer before, so  *)
(* several renewals of one process can be on their way at once, each with  *)
(* the lease end it computed when it was sent.  Every write of the worker  *)
(* is a transaction that locks the row FOR SHARE and judges it first.      *)
(*                                                                         *)
(* A process is one token: a restart is another member of Proc.  Times are *)
(* kept relative to now, so no clock grows: row.left is what is left of    *)
(* the lease by the database's clock, until[i] what an unsent answer would *)
(* leave, me.age how long ago the last renewal landed.  acquired_at is     *)
(* compared for equality only, so a new period is any value nobody still   *)
(* remembers; that no two hand-overs share a millisecond is assumed.       *)
(***************************************************************************)
EXTENDS Integers, FiniteSets

CONSTANTS
    Proc,          \* worker processes (tokens)
    Dead,          \* those of an earlier deployment, dead since before the start
    NoProc,        \* the token of a row that does not exist yet
    Slot,          \* renewals one process can have on their way
    LEASE,         \* LEASE_MS, in ticks
    Skew,          \* how far each process's clock is ahead of the database's
    Floor,         \* the least time left worth telling apart: lapsed on every clock
    Period,        \* values of acquired_at
    NoPeriod,      \* since = 0: this process never owned the lease
    Work,          \* transactions: one per process and kind of work
    ProcOf,        \* whose each is
    Dated,         \* those that pass `period`
    Totals,        \* those that pass `totalsOf`
    Purge,         \* the purge of a server (stats.ts), which holds its totals lock
    Unlocked

ASSUME ProcAssumption == /\ NoProc \notin Proc /\ Dead \subseteq Proc
                         /\ ProcOf \in [Work -> Proc]
                         /\ Dated \subseteq Work /\ Totals \subseteq Work
ASSUME PeriodAssumption == NoPeriod \notin Period
ASSUME ClockAssumption == /\ LEASE \in Nat \ {0}
                          /\ Skew \in [Proc -> Int]
                          /\ Floor \in Int /\ Floor < 0
                          /\ \A p \in Proc : Floor < Skew[p]
ASSUME LockAssumption == Purge \notin Work /\ Unlocked \notin Work /\ Purge # Unlocked

VARIABLES
    row,       \* worker_ownership: token, left, acquiredAt
    me,        \* per process: owner, since, age (the module variables)
    renewal,   \* per process and slot: an acquireOrRenew on its way
    phase,     \* per process: running; shut down (releasing, its statement on its way, then
               \* released, or stopped without); crashed
    work,      \* per transaction: how far it is, and the period it names
    totals     \* who holds the server's totals lock

vars == <<row, me, renewal, phase, work, totals>>

Periods == Period \cup {NoPeriod}
Beliefs == [owner : BOOLEAN, since : Periods, age : 0 .. LEASE]
Renewals == [at : {"free", "asked", "answered"}, until : Int, won : BOOLEAN, period : Periods]
Works == [at : {"idle", "read", "begun", "locked", "checked", "written", "dropped"},
          period : Periods]
Free == [at |-> "free", until |-> 0, won |-> FALSE, period |-> NoPeriod]
Nobody == [owner |-> FALSE, since |-> NoPeriod, age |-> LEASE]
(* owner = false; the age of the last renewal no longer matters then.      *)
NotOwner(m) == [owner |-> FALSE, since |-> m.since, age |-> LEASE]
Idle == [at |-> "idle", period |-> NoPeriod]

(* Work whose transaction is in progress: it holds whatever locks it took. *)
Open(w) == work[w].at \in {"begun", "locked", "checked"}

(* Mutants: the row read without FOR SHARE; the row locked before the      *)
(* totals lock.                                                            *)
Sharing_PlainRead == {}
Sharing_RowFirst == {w \in Work : Open(w)}

(* Work whose transaction has passed the check holds the lease row FOR     *)
(* SHARE until it ends; a statement that updates the row waits for it.     *)
Sharing == {w \in Work : work[w].at = "checked"}

(* Periods anything still remembers. *)
Remembered == {row.acquiredAt}
              \cup {me[p].since : p \in Proc}
              \cup {renewal[p][i].period : p \in Proc, i \in Slot}
              \cup {work[w].period : w \in Work}
(* Mutant: acquired_at is set by the insert and never again. *)
NewPeriods_Kept == IF row.acquiredAt = NoPeriod THEN Period ELSE {row.acquiredAt}

NewPeriods == Period \ Remembered

(* isOwner(): what the process believes, by its own clock. *)
IsOwner(p) == me[p].owner /\ me[p].age < LEASE

TypeOK ==
    /\ row \in [token : Proc \cup {NoProc}, left : Int, acquiredAt : Periods]
    /\ me \in [Proc -> Beliefs]
    /\ renewal \in [Proc -> [Slot -> Renewals]]
    /\ phase \in [Proc -> {"running", "releasing", "released", "stopped", "crashed"}]
    /\ work \in [Work -> Works]
    /\ totals \in Work \cup {Purge, Unlocked}

(* A new database has no row; otherwise the row is a predecessor's, whose  *)
(* last renewal may be as recent as now.                                   *)
FreshRow == [token |-> NoProc, left |-> Floor, acquiredAt |-> NoPeriod]
RowOf(p, t) == [token |-> p, left |-> LEASE + Skew[p], acquiredAt |-> t]

Init ==
    /\ row \in {FreshRow} \cup {RowOf(p, t) : p \in Dead, t \in Period}
    /\ me = [p \in Proc |-> Nobody]
    /\ renewal = [p \in Proc |-> [i \in Slot |-> Free]]
    /\ phase = [p \in Proc |-> IF p \in Dead THEN "crashed" ELSE "running"]
    /\ work = [w \in Work |-> Idle]
    /\ totals = Unlocked

-----------------------------------------------------------------------------
(* acquireOrRenew *)

(* The timer (or the first beat) asks: the new lease end is fixed now, by  *)
(* this process's clock, whenever the statement will run.                  *)
Ask(p, i) ==
    /\ phase[p] = "running"
    /\ renewal[p][i].at = "free"
    /\ renewal' = [renewal EXCEPT ![p][i] = [at |-> "asked", until |-> LEASE + Skew[p],
                                             won |-> FALSE, period |-> NoPeriod]]
    /\ UNCHANGED <<row, me, phase, work, totals>>

Answered(p, i, won, period) ==
    renewal' = [renewal EXCEPT ![p][i] =
                  IF phase[p] = "crashed" THEN Free
                  ELSE [at |-> "answered", until |-> 0, won |-> won, period |-> period]]

(* The upsert runs while nobody shares the row: ours, so renewed. *)
Renew(p, i) ==
    /\ renewal[p][i].at = "asked"
    /\ Sharing = {}
    /\ row.token = p
    /\ row' = [row EXCEPT !.left = renewal[p][i].until]
    /\ Answered(p, i, TRUE, row.acquiredAt)
    /\ UNCHANGED <<me, phase, work, totals>>

(* Mutant: an existing row is never taken over. *)
Take_OnlyInsert(p, i) ==
    /\ renewal[p][i].at = "asked"
    /\ row.token = NoProc
    /\ \E now \in NewPeriods :
         /\ row' = [token |-> p, left |-> renewal[p][i].until, acquiredAt |-> now]
         /\ Answered(p, i, TRUE, now)
    /\ UNCHANGED <<me, phase, work, totals>>

(* Not there, or another's and lapsed by the database's clock: taken. *)
Take(p, i) ==
    /\ renewal[p][i].at = "asked"
    /\ Sharing = {}
    /\ row.token # p
    /\ row.token = NoProc \/ row.left < 0
    /\ \E now \in NewPeriods :
         /\ row' = [token |-> p, left |-> renewal[p][i].until, acquiredAt |-> now]
         /\ Answered(p, i, TRUE, now)
    /\ UNCHANGED <<me, phase, work, totals>>

(* Another's and still running: no row comes back. *)
Refuse(p, i) ==
    /\ renewal[p][i].at = "asked"
    /\ Sharing = {}
    /\ row.token \notin {p, NoProc} /\ row.left >= 0
    /\ Answered(p, i, FALSE, NoPeriod)
    /\ UNCHANGED <<row, me, phase, work, totals>>

(* Mutant: the process counts from what the row has left, not from now. *)
Learn_FromRow(p, i) ==
    /\ phase[p] # "crashed"
    /\ renewal[p][i].at = "answered"
    /\ me' = [me EXCEPT ![p] =
                IF renewal[p][i].won
                THEN [owner |-> TRUE, since |-> renewal[p][i].period, age |-> LEASE - row.left]
                ELSE NotOwner(@)]
    /\ renewal' = [renewal EXCEPT ![p][i] = Free]
    /\ UNCHANGED <<row, phase, work, totals>>

(* The answer arrives: what it says replaces what the process believed,    *)
(* and the process counts its lease from now.                              *)
Learn(p, i) ==
    /\ phase[p] # "crashed"
    /\ renewal[p][i].at = "answered"
    /\ me' = [me EXCEPT ![p] =
                IF renewal[p][i].won
                THEN [owner |-> TRUE, since |-> renewal[p][i].period, age |-> 0]
                ELSE NotOwner(@)]
    /\ renewal' = [renewal EXCEPT ![p][i] = Free]
    /\ UNCHANGED <<row, phase, work, totals>>

(* The query failed (a dropped connection): nothing is learnt.  Whether    *)
(* the statement ran is another matter: it may have, before the answer     *)
(* was lost.                                                               *)
Fail(p, i) ==
    /\ renewal[p][i].at # "free"
    /\ renewal' = [renewal EXCEPT ![p][i] = Free]
    /\ UNCHANGED <<row, me, phase, work, totals>>

-----------------------------------------------------------------------------
(* stopPoller: the timer is stopped, then releaseOwnership *)

Stop(p) ==
    /\ phase[p] = "running"
    /\ phase' = [phase EXCEPT ![p] = IF me[p].owner THEN "releasing" ELSE "stopped"]
    /\ me' = [me EXCEPT ![p] = NotOwner(@)]
    /\ UNCHANGED <<row, renewal, work, totals>>

(* UPDATE ... SET lease_until = 0 WHERE token = mine; a failure is ignored. *)
Release(p) ==
    /\ phase[p] = "releasing"
    /\ Sharing = {}
    /\ row' = IF row.token = p THEN [row EXCEPT !.left = Floor] ELSE row
    /\ phase' = [phase EXCEPT ![p] = "released"]
    /\ UNCHANGED <<me, renewal, work, totals>>

ReleaseFails(p) ==
    /\ phase[p] = "releasing"
    /\ phase' = [phase EXCEPT ![p] = "stopped"]
    /\ UNCHANGED <<row, me, renewal, work, totals>>

-----------------------------------------------------------------------------
(* withOwnedTransaction *)

End(w, at) ==
    /\ work' = [work EXCEPT ![w] = [@ EXCEPT !.at = at]]
    /\ totals' = IF totals = w THEN Unlocked ELSE totals

(* The work, or the next of its kind, reads the game.  It was launched by  *)
(* an owner, perhaps a while ago: the lane it waited for does not ask      *)
(* again.                                                                  *)
Read(w) ==
    LET p == ProcOf[w] IN
    /\ phase[p] # "crashed"
    /\ work[w].at \in {"idle", "written", "dropped"}
    /\ me[p].since # NoPeriod
    /\ work' = [work EXCEPT ![w] = [at |-> "read", period |-> IF w \in Dated THEN me[p].since
                                                                            ELSE NoPeriod]]
    /\ UNCHANGED <<row, me, renewal, phase, totals>>

(* Not the owner by its own account: refused before the transaction. *)
Begin(w) ==
    LET p == ProcOf[w] IN
    /\ phase[p] # "crashed"
    /\ work[w].at = "read"
    /\ work' = [work EXCEPT ![w].at = IF me[p].owner THEN "begun" ELSE "dropped"]
    /\ UNCHANGED <<row, me, renewal, phase, totals>>

(* The totals lock first: a purge holding it makes this wait, with nothing *)
(* held on the lease row.                                                  *)
Lock(w) ==
    /\ work[w].at = "begun"
    /\ w \in Totals => totals = Unlocked
    /\ work' = [work EXCEPT ![w].at = "locked"]
    /\ totals' = IF w \in Totals THEN w ELSE totals
    /\ UNCHANGED <<row, me, renewal, phase>>

(* SELECT ... FOR SHARE: not ours, or lapsed by this process's clock. *)
Lost(w) ==
    LET p == ProcOf[w] IN
    /\ work[w].at = "locked"
    /\ row.token # p \/ row.left - Skew[p] < 0
    /\ me' = [me EXCEPT ![p] = NotOwner(@)]
    /\ End(w, "dropped")
    /\ UNCHANGED <<row, renewal, phase>>

Holds(w) ==
    LET p == ProcOf[w] IN
    work[w].at = "locked" /\ row.token = p /\ row.left - Skew[p] >= 0

(* Ours, but it changed hands since the work read the game. *)
Stale(w) ==
    /\ Holds(w)
    /\ w \in Dated /\ row.acquiredAt # work[w].period
    /\ End(w, "dropped")
    /\ UNCHANGED <<row, me, renewal, phase>>

(* Mutant: the period is not compared. *)
Check_AnyPeriod(w) ==
    /\ Holds(w)
    /\ work' = [work EXCEPT ![w].at = "checked"]
    /\ UNCHANGED <<row, me, renewal, phase, totals>>

Check(w) ==
    /\ Holds(w)
    /\ w \in Dated => row.acquiredAt = work[w].period
    /\ work' = [work EXCEPT ![w].at = "checked"]
    /\ UNCHANGED <<row, me, renewal, phase, totals>>

(* fn(tx) returned: its writes and nobody else's are there from now on. *)
Commit(w) ==
    /\ work[w].at = "checked"
    /\ End(w, "written")
    /\ UNCHANGED <<row, me, renewal, phase>>

(* fn(tx) threw, or the database did: nothing is written. *)
Rollback(w) ==
    /\ Open(w)
    /\ End(w, "dropped")
    /\ UNCHANGED <<row, me, renewal, phase>>

-----------------------------------------------------------------------------
(* The surroundings *)

PurgeStart ==
    /\ Totals # {}
    /\ totals = Unlocked
    /\ totals' = Purge
    /\ UNCHANGED <<row, me, renewal, phase, work>>

PurgeEnd ==
    /\ totals = Purge
    /\ totals' = Unlocked
    /\ UNCHANGED <<row, me, renewal, phase, work>>

(* The process dies.  Its transactions roll back; a renewal it has sent    *)
(* may still run in the database.                                          *)
Crash(p) ==
    /\ phase[p] \in {"running", "releasing"}
    /\ phase' = [phase EXCEPT ![p] = "crashed"]
    /\ me' = [me EXCEPT ![p] = Nobody]
    /\ renewal' = [renewal EXCEPT ![p] =
                     [i \in Slot |-> IF @[i].at = "asked" THEN @[i] ELSE Free]]
    /\ work' = [w \in Work |-> IF ProcOf[w] = p /\ work[w].at \notin {"idle", "written"}
                               THEN [work[w] EXCEPT !.at = "dropped"] ELSE work[w]]
    /\ totals' = IF totals \in Work /\ ProcOf[totals] = p THEN Unlocked ELSE totals
    /\ UNCHANGED row

Older(n) == IF n > Floor THEN n - 1 ELSE n
Tick ==
    /\ row' = [row EXCEPT !.left = Older(@)]
    /\ me' = [p \in Proc |-> [me[p] EXCEPT !.age = IF @ < LEASE THEN @ + 1 ELSE @]]
    /\ renewal' = [p \in Proc |-> [i \in Slot |->
                     IF renewal[p][i].at = "asked"
                     THEN [renewal[p][i] EXCEPT !.until = Older(@)] ELSE renewal[p][i]]]
    /\ UNCHANGED <<phase, work, totals>>

-----------------------------------------------------------------------------
Renewal(p) == \E i \in Slot : \/ Ask(p, i) \/ Renew(p, i) \/ Take(p, i) \/ Refuse(p, i)
                              \/ Learn(p, i) \/ Fail(p, i)
Shutdown(p) == Stop(p) \/ Release(p) \/ ReleaseFails(p)
Transaction(w) == \/ Read(w) \/ Begin(w) \/ Lock(w) \/ Lost(w) \/ Stale(w) \/ Check(w)
                  \/ Commit(w) \/ Rollback(w)

Next == \/ \E p \in Proc : Renewal(p) \/ Shutdown(p) \/ Crash(p)
        \/ \E w \in Work : Transaction(w)
        \/ PurgeStart \/ PurgeEnd
        \/ Tick

Spec == Init /\ [][Next]_vars

(* The scheduling the code rests on: time passes, the renewal timer fires, *)
(* the database runs what it was sent and answers, and a transaction that  *)
(* can go on does.  A statement on the row needs strong fairness: works    *)
(* that share the row come and go, and it runs in one of the gaps.  No     *)
(* fairness for a purge: nothing here says how long it holds its lock.     *)
Fairness ==
    /\ WF_vars(Tick)
    /\ \A p \in Proc, i \in Slot :
         /\ WF_vars(Ask(p, i))
         /\ SF_vars(Renew(p, i) \/ Take(p, i) \/ Refuse(p, i))
         /\ WF_vars(Learn(p, i))
    /\ \A w \in Work : /\ WF_vars(Lost(w) \/ Stale(w) \/ Check(w))
                       /\ WF_vars(Commit(w) \/ Rollback(w))

FairSpec == Spec /\ Fairness

-----------------------------------------------------------------------------
(* Properties *)

(* While a transaction of the worker writes, its process's token is the    *)
(* one in the row, and work that names its period was read in the period   *)
(* the row is in: nobody takes the lease under a write, however late the   *)
(* write comes (leadership.ts, "can never write late").                    *)
WritersOwnTheRow ==
    \A w \in Work : work[w].at = "checked" =>
        /\ row.token = ProcOf[w]
        /\ w \in Dated => row.acquiredAt = work[w].period

(* What becomes of a piece of work, seen from outside: prepared work is    *)
(* valid while ownership has not changed hands since it was read.          *)
Valid(w) == w \in Dated /\ row.token = ProcOf[w] /\ row.acquiredAt = work[w].period
FateOf(w) == IF work[w].at \in {"written", "dropped"} THEN work[w].at
             ELSE IF work[w].at = "idle" THEN "none"
             ELSE IF Valid(w) THEN "valid" ELSE "stale"

OW == INSTANCE OwnedWrites WITH holder <- row.token, fate <- [w \in Work |-> FateOf(w)]

(* The lease, its clocks, locks, lost answers and crashes implement the    *)
(* abstract promise: written by the holder, and never across a hand-over.  *)
ImplementsOwnedWrites == OW!Spec

(* A renewal that was sent is settled, even when a purge never lets go of  *)
(* the totals lock: work that waits for it holds nothing on the lease row. *)
RenewalNotStalled ==
    \A p \in Proc, i \in Slot : renewal[p][i].at = "asked" ~> renewal[p][i].at # "asked"

(* Once every other process is dead, the one still running owns the lease  *)
(* after a while, whoever held it before.                                  *)
Takeover ==
    \A p \in Proc :
        (phase[p] = "running" /\ \A q \in Proc \ {p} : phase[q] = "crashed")
            ~> (row.token = p \/ phase[p] # "running")
=============================================================================
