------------------------------ MODULE Presence ------------------------------
(***************************************************************************)
(* Who is on a game server: the worker's memory of open sessions and the   *)
(* table player_sessions.  src/lib/server/sessions.ts, the look that feeds *)
(* it (observe.ts, observeServer and observationFailed) and the beat that  *)
(* forgets it after the lease changed hands (poller.ts).                   *)
(*                                                                         *)
(* Nothing in the table keeps a player from having two open sessions, and  *)
(* the rows a process goes by are in its memory, read outside the          *)
(* transaction that writes.  What keeps the two together is the lease: a   *)
(* look writes only in the period of ownership it began in (Lease, whose   *)
(* promise OwnedWrites makes a transaction one step here), a failed write  *)
(* throws the memory away, and so does a new period.                       *)
(*                                                                         *)
(* One game server; its lane runs one look of a process at a time.  Values *)
(* of acquired_at are counted.  Ids of sessions are never used twice in    *)
(* the code; here one nobody remembers any more stands for a new one.      *)
(***************************************************************************)
EXTENDS Naturals

CONSTANTS
    Proc, NoProc,        \* worker processes; a token of nobody running
    Player, Nobody,      \* who plays; the owner of a row that is closed or not there
    Session, NoSession,  \* ids of rows
    Period,              \* values of acquired_at: bounds the hand-overs
    OFFLINE              \* OFFLINE_AFTER_FAILURES

ASSUME NamesAssumption == /\ NoProc \notin Proc /\ Nobody \notin Player
                          /\ NoSession \notin Session
ASSUME PeriodAssumption == Period \subseteq Nat \ {0}
ASSUME OfflineAssumption == OFFLINE \in {1, 2, 3}

VARIABLES
    lease,     \* worker_ownership: holder (token) and period (acquired_at)
    since,     \* per process: the period it last learnt it owns
    epoch,     \* per process: the period its beat last forgot for
    mem,       \* per process: m.presence, loaded and the open session of each player
    failures,  \* per process: m.failures
    look,      \* per process: the look in its lane
    row,       \* player_sessions: whose open session each row is
    online,    \* the players on the game server
    stray      \* whether sessions were opened by a memory the beat had yet to forget (observer)

vars == <<lease, since, epoch, mem, failures, look, row, online, stray>>

Ids == Session \cup {NoSession}
NoPeriod == 0   \* since = 0
Periods == Period \cup {NoPeriod}
None == [x \in Player |-> NoSession]
NewPresence == [loaded |-> FALSE, open |-> None]
NoLook == [at |-> "idle", period |-> NoPeriod, old |-> FALSE, joined |-> {}, left |-> None]
Looks == [at : {"idle", "started", "due", "failed"}, period : Periods,
          old : BOOLEAN, joined : SUBSET Player, left : [Player -> Ids]]

TypeOK ==
    /\ lease \in [holder : Proc \cup {NoProc}, period : Periods]
    /\ since \in [Proc -> Periods]
    /\ epoch \in [Proc -> Periods]
    /\ mem \in [Proc -> [loaded : BOOLEAN, open : [Player -> Ids]]]
    /\ failures \in [Proc -> 0 .. OFFLINE]
    /\ look \in [Proc -> Looks]
    /\ row \in [Session -> Player \cup {Nobody}]
    /\ online \subseteq Player
    /\ stray \in BOOLEAN

Init ==
    /\ lease = [holder |-> NoProc, period |-> NoPeriod]
    /\ since = [p \in Proc |-> NoPeriod]
    /\ epoch = [p \in Proc |-> NoPeriod]
    /\ mem = [p \in Proc |-> NewPresence]
    /\ failures = [p \in Proc |-> 0]
    /\ look = [p \in Proc |-> NoLook]
    /\ row = [i \in Session |-> Nobody]
    /\ online = {}
    /\ stray = FALSE

OpenOf(x) == {i \in Session : row[i] = x}
Has(f) == {x \in Player : f[x] # NoSession}

(* The ids something still refers to. *)
UsedIds == {i \in Session : row[i] # Nobody}
           \cup {mem[p].open[x] : p \in Proc, x \in Player}
           \cup {look[p].left[x] : p \in Proc, x \in Player}

-----------------------------------------------------------------------------
(* The lease, as what it promises *)

(* Another process takes it, in a new period; the one before need not know. *)
HandOver(p) ==
    /\ lease.holder # p
    /\ lease.period + 1 \in Period
    /\ lease' = [holder |-> p, period |-> lease.period + 1]
    /\ UNCHANGED <<since, epoch, mem, failures, look, row, online, stray>>

(* The renewal's answer: it owns the lease, and since when. *)
Learn(p) ==
    /\ lease.holder = p
    /\ since[p] # lease.period
    /\ since' = [since EXCEPT ![p] = lease.period]
    /\ UNCHANGED <<lease, epoch, mem, failures, look, row, online, stray>>

(* Mutant: the period is noted and nothing forgotten. *)
Beat_Remembers(p) ==
    /\ since[p] # epoch[p]
    /\ epoch' = [epoch EXCEPT ![p] = since[p]]
    /\ UNCHANGED <<lease, since, mem, failures, look, row, online, stray>>

(* A beat in a new period: what is remembered may be stale against another *)
(* worker's writes.  A look on its way keeps going with it forgotten.      *)
Beat(p) ==
    /\ since[p] # epoch[p]
    /\ epoch' = [epoch EXCEPT ![p] = since[p]]
    /\ mem' = [mem EXCEPT ![p] = NewPresence]
    /\ UNCHANGED <<lease, since, failures, look, row, online, stray>>

(* The process dies and another starts: a new token, and nothing in memory. *)
Restart(p) ==
    /\ since[p] # NoPeriod
    /\ lease' = IF lease.holder = p THEN [lease EXCEPT !.holder = NoProc] ELSE lease
    /\ since' = [since EXCEPT ![p] = NoPeriod]
    /\ epoch' = [epoch EXCEPT ![p] = NoPeriod]
    /\ mem' = [mem EXCEPT ![p] = NewPresence]
    /\ failures' = [failures EXCEPT ![p] = 0]
    /\ look' = [look EXCEPT ![p] = NoLook]
    /\ UNCHANGED <<row, online, stray>>

-----------------------------------------------------------------------------
(* A look at the server *)

(* Launched by an owner, run when its lane gets to it, perhaps much later: *)
(* the period it names is the one the process knows of then, and its beat  *)
(* may not have forgotten for that one yet.                                *)
Start(p) ==
    /\ look[p].at = "idle"
    /\ since[p] # NoPeriod
    /\ look' = [look EXCEPT ![p] = [NoLook EXCEPT !.at = "started", !.period = since[p]]]
    /\ UNCHANGED <<lease, since, epoch, mem, failures, row, online, stray>>

(* The memory a look goes by: loadPresence, once per process and period.   *)
(* It is keyed by player: of several open rows of one player, the one read *)
(* last stays.                                                             *)
Memories(p) ==
    IF mem[p].loaded THEN {mem[p]}
    ELSE {[loaded |-> TRUE, open |-> f] : f \in
            {g \in [Player -> Ids] : \A x \in Player :
                IF OpenOf(x) = {} THEN g[x] = NoSession ELSE g[x] \in OpenOf(x)}}

(* The look goes by a memory that the beat, new period or not, has yet to  *)
(* forget.                                                                 *)
FromOld(p) == mem[p].loaded /\ epoch[p] # look[p].period

(* Mutant: whoever is missing is waited for, and never leaves. *)
Judge_GraceNeverOver(p, over) ==
    /\ look[p].at = "started"
    /\ \E m \in Memories(p) :
         /\ over \subseteq Has(m.open) \ online
         /\ mem' = [mem EXCEPT ![p] = m]
         /\ look' = [look EXCEPT ![p] =
                       [at |-> "due", period |-> @.period, old |-> FromOld(p),
                        joined |-> online \ Has(m.open),
                        left |-> None]]
    /\ failures' = [failures EXCEPT ![p] = 0]
    /\ UNCHANGED <<lease, since, epoch, row, online, stray>>

(* The game answered with its player list, and diffPresence compares it:   *)
(* those on it without a session join, and of those missing from it, the   *)
(* ones whose grace is over leave.  The reads of the list and of the table *)
(* are one step: what another worker writes between them comes with a new  *)
(* period, and then the look writes nothing.                               *)
Judge(p, over) ==
    /\ look[p].at = "started"
    /\ \E m \in Memories(p) :
         /\ over \subseteq Has(m.open) \ online
         /\ mem' = [mem EXCEPT ![p] = m]
         /\ look' = [look EXCEPT ![p] =
                       [at |-> "due", period |-> @.period, old |-> FromOld(p),
                        joined |-> online \ Has(m.open),
                        left |-> [x \in Player |-> IF x \in over THEN m.open[x] ELSE NoSession]]]
    /\ failures' = [failures EXCEPT ![p] = 0]
    /\ UNCHANGED <<lease, since, epoch, row, online, stray>>

List(p) == \E over \in SUBSET Player : Judge(p, over)

(* It did not answer.  Once is no outage yet: no session is touched, though *)
(* a transaction for the sample may fail and throw the memory away.        *)
Unreachable(p) ==
    /\ look[p].at = "started"
    /\ failures' = [failures EXCEPT ![p] = IF @ < OFFLINE THEN @ + 1 ELSE @]
    /\ IF failures'[p] = OFFLINE
       THEN look' = [look EXCEPT ![p].at = "failed"] /\ UNCHANGED mem
       ELSE /\ look' = [look EXCEPT ![p] = NoLook]
            /\ mem' \in {mem, [mem EXCEPT ![p] = NewPresence]}
    /\ UNCHANGED <<lease, since, epoch, row, online, stray>>

(* Mutant: the period is not passed. *)
MayWrite_AnyPeriod(p) == lease.holder = p

(* withOwnedTransaction lets it write: ours, in the period it began in. *)
MayWrite(p) == lease.holder = p /\ lease.period = look[p].period

(* What the table and the memory become once `left` is closed (a row       *)
(* closed already stays as it is) and `joined` has new rows.               *)
NewIds(joined) ==
    {f \in [joined -> Session \ UsedIds] :
        \A x, y \in joined : f[x] = f[y] => x = y}
RowAfter(left, new) ==
    [i \in Session |-> IF \E x \in DOMAIN new : new[x] = i
                       THEN CHOOSE x \in DOMAIN new : new[x] = i
                       ELSE IF \E x \in Player : left[x] = i THEN Nobody ELSE row[i]]
OpenAfter(open, left, new) ==
    [x \in Player |-> IF x \in DOMAIN new THEN new[x]
                      ELSE IF left[x] # NoSession THEN NoSession ELSE open[x]]

(* Mutant: the memory holds the joins of this look alone. *)
Kept_Joined(p, left, new) ==
    IF mem[p].loaded THEN [loaded |-> TRUE, open |-> new] ELSE NewPresence

(* A memory forgotten meanwhile stays one that has to be loaded. *)
Kept(p, left, new) ==
    IF mem[p].loaded THEN [loaded |-> TRUE, open |-> OpenAfter(mem[p].open, left, new)]
    ELSE NewPresence

(* Sessions opened by such a memory. *)
Strays(p) == look[p].old /\ look[p].joined # {}

(* persistPresence, committed; a look that changed nothing writes nothing. *)
Save(p) ==
    /\ look[p].at = "due"
    /\ MayWrite(p) \/ (look[p].joined = {} /\ Has(look[p].left) = {})
    /\ NewIds(look[p].joined) # {}
    /\ LET new == CHOOSE f \in NewIds(look[p].joined) : TRUE IN
         /\ row' = RowAfter(look[p].left, new)
         /\ mem' = [mem EXCEPT ![p] = Kept(p, look[p].left, new)]
    /\ look' = [look EXCEPT ![p] = NoLook]
    /\ stray' = (stray \/ Strays(p))
    /\ UNCHANGED <<lease, since, epoch, failures, online>>

(* closeAllSessions: the server stopped answering.  The memory is loaded   *)
(* in the same transaction if it has to be.                                *)
CloseAll(p) ==
    /\ look[p].at = "failed"
    /\ MayWrite(p)
    /\ \E m \in Memories(p) : row' = RowAfter(m.open, <<>>)
    /\ mem' = [mem EXCEPT ![p] = [loaded |-> TRUE, open |-> None]]
    /\ look' = [look EXCEPT ![p] = NoLook]
    /\ UNCHANGED <<lease, since, epoch, failures, online, stray>>

(* What the memory is after a transaction that was not written. *)
Forgotten(p) == NewPresence

(* LostOwnership, StaleOwnership, or the database failed: nothing was      *)
(* written, but the memory may have moved, and is thrown away.             *)
Drop(p) ==
    /\ look[p].at \in {"due", "failed"}
    /\ mem' = [mem EXCEPT ![p] = Forgotten(p)]
    /\ look' = [look EXCEPT ![p] = NoLook]
    /\ UNCHANGED <<lease, since, epoch, failures, row, online, stray>>

(* It was written and the answer to the commit was lost: the same to the   *)
(* process.                                                                *)
SaveUnheard(p) ==
    /\ look[p].at = "due"
    /\ MayWrite(p)
    /\ NewIds(look[p].joined) # {}
    /\ row' = RowAfter(look[p].left, CHOOSE f \in NewIds(look[p].joined) : TRUE)
    /\ mem' = [mem EXCEPT ![p] = Forgotten(p)]
    /\ look' = [look EXCEPT ![p] = NoLook]
    /\ stray' = (stray \/ Strays(p))
    /\ UNCHANGED <<lease, since, epoch, failures, online>>

-----------------------------------------------------------------------------
(* The players come and go. *)
Come(x) == /\ online' = online \cup {x} /\ x \notin online
           /\ UNCHANGED <<lease, since, epoch, mem, failures, look, row, stray>>
Go(x) == /\ online' = online \ {x} /\ x \in online
         /\ UNCHANGED <<lease, since, epoch, mem, failures, look, row, stray>>

Look(p) == \/ Start(p) \/ List(p) \/ Unreachable(p)
           \/ Save(p) \/ SaveUnheard(p) \/ CloseAll(p) \/ Drop(p)

Next == \/ \E p \in Proc : HandOver(p) \/ Learn(p) \/ Beat(p) \/ Restart(p) \/ Look(p)
        \/ \E x \in Player : Come(x) \/ Go(x)

Spec == Init /\ [][Next]_vars

(* The holder's beat and its looks go on.  Strong fairness where something *)
(* may fail any number of times but not for ever: the game's answer, and   *)
(* the transaction that would open or close a player's session.  The grace *)
(* passes: who is missing for good is found past it sooner or later.       *)
Holds(p) == lease.holder = p
Leaves(p, x) == \E over \in SUBSET Player : x \in over /\ Judge(p, over)
Writes(p, x) == x \in look[p].joined \cup Has(look[p].left) /\ Save(p)

Fairness ==
    /\ WF_vars(\E p \in Proc : Holds(p) /\ (Learn(p) \/ Beat(p)))
    /\ WF_vars(\E p \in Proc : Holds(p) /\ Start(p))
    /\ SF_vars(\E p \in Proc : Holds(p) /\ List(p))
    /\ WF_vars(\E p \in Proc : Holds(p) /\ (Save(p) \/ Drop(p)))
    /\ \A x \in Player : /\ SF_vars(\E p \in Proc : Holds(p) /\ Leaves(p, x))
                         /\ SF_vars(\E p \in Proc : Holds(p) /\ Writes(p, x))

FairSpec == Spec /\ Fairness

-----------------------------------------------------------------------------
(* Properties *)

(* "a player's sessions do not overlap" (sessions.ts, latestNames): each   *)
(* has one open session on a server at most, although each of them may be  *)
(* written by another process.                                             *)
OneOpenSession ==
    \A i, j \in Session : row[i] = row[j] /\ row[i] # Nobody => i = j

(* So it is unless a look of a new period was judged, before the beat      *)
(* forgot, from what the process remembered of an earlier one, and opened  *)
(* sessions for players whom another worker had given one: lost and late   *)
(* writes, late looks, restarts and hand-overs never open a second.        *)
OneOpenUnlessStray == ~stray => OneOpenSession

(* Between its writes, what the owner remembers is what the table holds,   *)
(* once its beat has forgotten what it knew before: what it will write is  *)
(* judged from the truth, whoever wrote before it.                         *)
MemoryIsTheTable ==
    ~stray => \A p \in Proc :
        (lease.holder = p /\ epoch[p] = lease.period /\ mem[p].loaded)
            => \A x \in Player : OpenOf(x) = {mem[p].open[x]} \ {NoSession}

(* Once the lease changes hands no more and nobody comes or goes, the      *)
(* table shows who is on, and nobody else, again and again (an outage may  *)
(* close everyone's session for a while): no session is left open for a    *)
(* player who left, whichever process opened it, crashed or lost its write *)
(* ("null while online", schema.ts, leftAt).  A second session opened by   *)
(* an old memory is known to nobody and may stay.                          *)
TableFollowsServer ==
    <>[][FALSE]_<<lease, online>> /\ <>[](lease.holder # NoProc)
        => []<>(stray \/ \A x \in Player : OpenOf(x) # {} <=> x \in online)
=============================================================================
