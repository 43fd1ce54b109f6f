------------------------------ MODULE Whispers ------------------------------
(***************************************************************************)
(* The death whisper rule: a player who was killed hears from it, at most  *)
(* once in its cooldown.  src/lib/server/death-whisper.ts and              *)
(* feed-events.ts, from the batch of kills the feed wrote (feed.ts writes  *)
(* an event once, whatever the game sends again) to the rule's rows in the *)
(* outbox.                                                                 *)
(*                                                                         *)
(* Nothing in the table keeps the cooldown.  What does is the worker's     *)
(* memory, filled from the rule's rows the first time it acts in a period  *)
(* of ownership; batches of kills are not serialised, so several are under *)
(* way at once, each moves the memory in one go and writes later, and puts *)
(* back what it moved if it could not write.                               *)
(*                                                                         *)
(* One rule of one server.  Messages, who is exempt or below the count and *)
(* the pruning of cooldowns long over are data; switching the rule off and *)
(* on and changing its cooldown are left out.  A transaction is one step,  *)
(* as OwnedWrites lets it be: it is refused unless the process holds the   *)
(* lease, in whichever period.  Values of acquired_at are counted.         *)
(***************************************************************************)
EXTENDS Naturals

CONSTANTS
    Proc, NoProc,      \* worker processes; a token of nobody running
    Player,            \* who may be killed
    Batch,             \* batches of kills, each handed to the worker once
    Period,            \* values of acquired_at: bounds the hand-overs
    COOLDOWN,          \* cooldownMinutes
    MaxTime            \* bounds the clock

ASSUME NamesAssumption == NoProc \notin Proc
ASSUME PeriodAssumption == Period \subseteq Nat \ {0}
ASSUME TimeAssumption == COOLDOWN \in Nat \ {0} /\ MaxTime \in Nat \ {0}

VARIABLES
    now,    \* the clock
    lease,  \* worker_ownership: holder (token) and period (acquired_at)
    since,  \* per process: the period it last learnt it owns
    epoch,  \* per process: the period its beat last forgot for
    mem,    \* per process and period: the rule's memory made in it
    job,    \* the batches
    row     \* outbox: the rule's whispers, whether the commit's answer came, and whether
            \* they were decided from the memory of an earlier period (observers)

vars == <<now, lease, since, epoch, mem, job, row>>

NoPeriod == 0   \* since = 0
Periods == Period \cup {NoPeriod}
Never == 0
Times == 0 .. MaxTime
Unset == [x \in Player |-> Never]
NoMemory == [fill |-> "none", track |-> Unset]
Memories == [fill : {"none", "asked", "read"}, track : [Player -> Times]]

(* A batch: where it is worked at and in which period's memory, when it    *)
(* came, whom it whispers, and what the memory said of them before.        *)
New == [at |-> "new", proc |-> NoProc, of |-> NoPeriod, stamp |-> Never,
        picks |-> {}, before |-> Unset]
Over == [New EXCEPT !.at = "over"]
Jobs == [at : {"new", "waiting", "decided", "over"}, proc : Proc \cup {NoProc}, of : Periods,
         stamp : Times, picks : SUBSET Player, before : [Player -> Times]]
Rows == [to : Player, by : Batch, decided : Times, created : Times,
         answer : {"heard", "lost"}, old : BOOLEAN]

TypeOK ==
    /\ now \in Times \ {Never}
    /\ lease \in [holder : Proc \cup {NoProc}, period : Periods]
    /\ since \in [Proc -> Periods]
    /\ epoch \in [Proc -> Periods]
    /\ mem \in [Proc -> [Periods -> Memories]]
    /\ job \in [Batch -> Jobs]
    /\ row \subseteq Rows

Init ==
    /\ now = 1
    /\ lease = [holder |-> NoProc, period |-> NoPeriod]
    /\ since = [p \in Proc |-> NoPeriod]
    /\ epoch = [p \in Proc |-> NoPeriod]
    /\ mem = [p \in Proc |-> [t \in Periods |-> NoMemory]]
    /\ job = [b \in Batch |-> New]
    /\ row = {}

UnderWay(p) == {b \in Batch : job[b].at \in {"waiting", "decided"} /\ job[b].proc = p}

Tick == now < MaxTime /\ now' = now + 1 /\ UNCHANGED <<lease, since, epoch, mem, job, row>>

-----------------------------------------------------------------------------
(* The lease, as what it promises, and the beat that forgets *)

(* A process takes it, in a new period; the one before need not know.      *)
HandOver(p) ==
    /\ lease.holder # p
    /\ lease.period + 1 \in Period
    /\ lease' = [holder |-> p, period |-> lease.period + 1]
    /\ UNCHANGED <<now, since, epoch, mem, job, row>>

(* The renewal's answer. *)
Learn(p) ==
    /\ lease.holder = p
    /\ since[p] # lease.period
    /\ since' = [since EXCEPT ![p] = lease.period]
    /\ UNCHANGED <<now, lease, epoch, mem, job, row>>

(* Mutant: the beat leaves the rule's memory alone. *)
Beat_Remembers(p) ==
    /\ since[p] # epoch[p]
    /\ epoch' = [epoch EXCEPT ![p] = since[p]]
    /\ mem' = [mem EXCEPT ![p][since[p]] = mem[p][epoch[p]]]
    /\ UNCHANGED <<now, lease, since, job, row>>

(* A beat in a new period forgets the whispers; a batch under way keeps    *)
(* the memory it was given.                                                *)
Kept(p) == {job[b].of : b \in UnderWay(p)}
Beat(p) ==
    /\ since[p] # epoch[p]
    /\ epoch' = [epoch EXCEPT ![p] = since[p]]
    /\ mem' = [mem EXCEPT ![p] = [t \in Periods |-> IF t \in Kept(p) THEN @[t] ELSE NoMemory]]
    /\ UNCHANGED <<now, lease, since, job, row>>

(* The process dies and another starts: what it was at is lost. *)
Restart(p) ==
    /\ lease' = IF lease.holder = p THEN [lease EXCEPT !.holder = NoProc] ELSE lease
    /\ since' = [since EXCEPT ![p] = NoPeriod]
    /\ epoch' = [epoch EXCEPT ![p] = NoPeriod]
    /\ mem' = [mem EXCEPT ![p] = [t \in Periods |-> NoMemory]]
    /\ job' = [b \in Batch |-> IF b \in UnderWay(p) THEN Over ELSE job[b]]
    /\ UNCHANGED <<now, row>>

-----------------------------------------------------------------------------
(* A batch of kills *)

(* It comes to a process, owner or not, which takes the time and asks for  *)
(* the rule's rows if it has not yet; the memory it is given may be one    *)
(* that the beat has yet to forget.                                        *)
Arrive(b, p) ==
    /\ job[b].at = "new"
    /\ job' = [job EXCEPT ![b] = [New EXCEPT !.at = "waiting", !.proc = p, !.of = epoch[p],
                                             !.stamp = now]]
    /\ mem' = [mem EXCEPT ![p][epoch[p]].fill = IF @ = "none" THEN "asked" ELSE @]
    /\ UNCHANGED <<now, lease, since, epoch, row>>

(* When a player was last written a whisper. *)
Whispered(x) == {r.created : r \in {s \in row : s.to = x}}
LastWritten(x) ==
    IF Whispered(x) = {} THEN {Never}
    ELSE {t \in Whispered(x) : \A u \in Whispered(x) : u <= t}

(* whisperedBefore: the rule's rows are in the memory. *)
Fill(p, t) ==
    /\ mem[p][t].fill = "asked"
    /\ \E last \in [Player -> Times] :
         /\ \A x \in Player : last[x] \in LastWritten(x)
         /\ mem' = [mem EXCEPT ![p][t] = [fill |-> "read", track |-> last]]
    /\ UNCHANGED <<now, lease, since, epoch, job, row>>

(* Mutant: what could not be read is taken for nothing. *)
FillFails_Empty(p, t) ==
    /\ mem[p][t].fill = "asked"
    /\ mem' = [mem EXCEPT ![p][t].fill = "read"]
    /\ UNCHANGED <<now, lease, since, epoch, job, row>>

(* They could not be read: who waits for them whispers nobody, and they    *)
(* are asked for again at the next batch.                                  *)
FillFails(p, t) ==
    /\ mem[p][t].fill = "asked"
    /\ mem' = [mem EXCEPT ![p][t] = NoMemory]
    /\ job' = [b \in Batch |->
                 IF job[b].at = "waiting" /\ job[b].proc = p /\ job[b].of = t THEN Over ELSE job[b]]
    /\ UNCHANGED <<now, lease, since, epoch, row>>

Track(b) == mem[job[b].proc][job[b].of].track
Cooling(last, at) == last # Never /\ last + COOLDOWN > at

(* deathWhisperStep: the killed who are not cooling are picked, and the    *)
(* memory moves on at once.                                                *)
Decide(b, deaths) ==
    /\ job[b].at = "waiting"
    /\ mem[job[b].proc][job[b].of].fill = "read"
    /\ LET picks == {x \in deaths : ~Cooling(Track(b)[x], job[b].stamp)} IN
         IF picks = {} THEN job' = [job EXCEPT ![b] = Over] /\ UNCHANGED mem
         ELSE /\ job' = [job EXCEPT ![b].at = "decided", ![b].picks = picks,
                                    ![b].before = [x \in Player |-> IF x \in picks THEN Track(b)[x]
                                                                    ELSE Never]]
              /\ mem' = [mem EXCEPT ![job[b].proc][job[b].of].track =
                           [x \in Player |-> IF x \in picks THEN job[b].stamp ELSE @[x]]]
    /\ UNCHANGED <<now, lease, since, epoch, row>>

(* enqueueIntents: nothing in it names the period the batch is of. *)
FromOld(b) == job[b].of # lease.period
Written(b, answer) ==
    {[to |-> x, by |-> b, decided |-> job[b].stamp, created |-> now,
      answer |-> answer, old |-> FromOld(b)] : x \in job[b].picks}

(* withOwnedTransaction: it once learnt that it owns the lease, in         *)
(* whichever period, and does.                                             *)
Writes(p) == since[p] # NoPeriod /\ lease.holder = p

Commit(b) ==
    /\ job[b].at = "decided"
    /\ Writes(job[b].proc)
    /\ row' = row \cup Written(b, "heard")
    /\ job' = [job EXCEPT ![b] = Over]
    /\ UNCHANGED <<now, lease, since, epoch, mem>>

(* Mutant: without looking whether a later batch moved the player on. *)
Undone_Blind(b) ==
    [mem EXCEPT ![job[b].proc][job[b].of].track =
        [x \in Player |-> IF x \in job[b].picks THEN job[b].before[x] ELSE @[x]]]

(* Mutant: the memory stays as it moved. *)
Undone_Kept(b) == mem

(* undo: as it was, but for a player a later batch has moved on since. *)
Undone(b) ==
    [mem EXCEPT ![job[b].proc][job[b].of].track =
        [x \in Player |-> IF x \in job[b].picks /\ @[x] = job[b].stamp THEN job[b].before[x]
                          ELSE @[x]]]

(* LostOwnership, or the database failed, here or at the players' stats. *)
Fail(b) ==
    /\ job[b].at = "decided"
    /\ mem' = Undone(b)
    /\ job' = [job EXCEPT ![b] = Over]
    /\ UNCHANGED <<now, lease, since, epoch, row>>

(* It was written and the answer to the commit was lost: the same to the   *)
(* process.                                                                *)
CommitUnheard(b) ==
    /\ job[b].at = "decided"
    /\ Writes(job[b].proc)
    /\ row' = row \cup Written(b, "lost")
    /\ mem' = Undone(b)
    /\ job' = [job EXCEPT ![b] = Over]
    /\ UNCHANGED <<now, lease, since, epoch>>

-----------------------------------------------------------------------------
Worker(p) == \/ HandOver(p) \/ Learn(p) \/ Beat(p) \/ Restart(p)
             \/ \E t \in Periods : Fill(p, t) \/ FillFails(p, t)
Handle(b) == \/ \E p \in Proc : Arrive(b, p)
             \/ \E deaths \in SUBSET Player : Decide(b, deaths)
             \/ Commit(b) \/ Fail(b) \/ CommitUnheard(b)

Next == \/ \E p \in Proc : Worker(p)
        \/ \E b \in Batch : Handle(b)
        \/ Tick

Spec == Init /\ [][Next]_vars

-----------------------------------------------------------------------------
(* Properties *)

(* Two whispers of one player were decided a cooldown apart, whichever     *)
(* batches, processes and periods they come from and whatever failed in    *)
(* between ("whispers a player at most once in its cooldown",              *)
(* death-whisper.ts; "a restart, a deploy or a handover keeps the          *)
(* cooldowns", feed-events.ts).                                            *)
Apart(r, s) == r.decided + COOLDOWN <= s.decided \/ s.decided + COOLDOWN <= r.decided
AllApart(rows) == \A r, s \in rows : r # s /\ r.to = s.to => Apart(r, s)
OncePerCooldown == AllApart({r \in row : r.answer = "heard"})

(* So it is of the whispers of batches that decided from the memory of the *)
(* period they were written in.  Out of the cooldown's reach are two: the  *)
(* batch whose commit's answer was lost put its memory back although the   *)
(* whisper went, which the property above leaves out too; and one that     *)
(* decided from the memory of an earlier period, as it began before the    *)
(* beat forgot or outlived a lease lost and regained, knew nothing of the  *)
(* whispers another worker wrote meanwhile, nor the new memory of its own. *)
OnceUnlessOld == AllApart({r \in row : r.answer = "heard" /\ ~r.old})

(* Nobody is passed over for a whisper that was never sent: whoever the    *)
(* owner holds to be cooling has a row for it, or a batch under way that   *)
(* is going to write one ("if the whispers cannot be written, the memory   *)
(* goes back to what it was", feed-events.ts).                             *)
CoolingIsBacked ==
    \A p \in Proc, x \in Player :
        LET m == mem[p][epoch[p]] IN
        m.fill = "read" /\ Cooling(m.track[x], now) =>
            \/ \E r \in row : r.to = x /\ m.track[x] \in {r.decided, r.created}
            \/ \E b \in UnderWay(p) : /\ job[b].at = "decided" /\ job[b].of = epoch[p]
                                      /\ x \in job[b].picks /\ job[b].stamp = m.track[x]
=============================================================================
