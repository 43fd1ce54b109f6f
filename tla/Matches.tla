------------------------------ MODULE Matches ------------------------------
(***************************************************************************)
(* The matches of one game server as the worker records them: where one    *)
(* ends, its result, and every player's line of it.  observe.ts with       *)
(* match-players.ts, match-feed.ts and trigger-rules.ts.                   *)
(*                                                                         *)
(* The worker sees the game through its looks, some of the status, some of *)
(* the player list, and through the feed, which reports a match's result   *)
(* on its own way.  A look moves the memory first and writes in its match  *)
(* stage later; the feed may come in between.                              *)
(*                                                                         *)
(* A result is the match it is of; a line is the player's kills.  The      *)
(* clock of the match (live builds send none), deaths, cash, time on and   *)
(* the feed's own columns are left out.  One worker; that its transactions *)
(* are refused once the lease is lost is in module Lease.                  *)
(***************************************************************************)
EXTENDS Naturals, Sequences, FiniteSetsExt

CONSTANTS
    Player, Map,
    Kind,                   \* kinds of server: has a feed, who comes, how many matches it plays
    None,                     \* nothing remembered, held or open
    OFFLINE_AFTER_FAILURES,
    MAX_MATCHES, MAX_SCORE, MAX_KILLS,   \* bounds: matches, a match's score, each player's kills
    MaxFaults                 \* bound: restarts, lost ownership, failed writes

ASSUME BoundsAssumption == /\ {OFFLINE_AFTER_FAILURES, MAX_MATCHES} \subseteq Nat \ {0}
                           /\ {MAX_SCORE, MAX_KILLS, MaxFaults} \subseteq Nat
ASSUME KindAssumption ==
    Kind \subseteq [feed : BOOLEAN, players : SUBSET Player, matches : 1 .. MAX_MATCHES]

VARIABLES
    game,     \* the game server: the match it plays and what its answers show of it
    mem,      \* ServerMemory: lastMatch, feedEnd, closed, tallies, failures
    look,     \* the look under way, before its match stage
    fix,      \* a result on its way to the match a look closed
    rows,     \* matches and match_players
    past      \* what happened so far, for the properties

matchVars == <<game, mem, look, fix, rows, past>>

Match == 1 .. MAX_MATCHES
Kills == 0 .. MAX_KILLS
Result == [by : {"none", "look", "feed"}, of : 0 .. MAX_MATCHES]
NoResult == [by |-> "none", of |-> 0]
Looked == [map : Map, of : Match, young : BOOLEAN, ended : Result]
Last == [map : Map, score : 0 .. MAX_SCORE, of : Match]

(* banked and last as the code has them; dropped is droppedAt, as far as   *)
(* closeTallies asks: at the look under way, since the last status look,   *)
(* or before.                                                              *)
Tally == [banked : Kills, last : Kills, dropped : {"no", "since", "now"}, dirty : BOOLEAN]
NewTally(k) == [banked |-> 0, last |-> k, dropped |-> "no", dirty |-> FALSE]
TallyRow(t) == t.banked + t.last

ASSUME NoneAssumption == None \notin Looked \cup Last \cup Tally

NewMemory == [last |-> None, held |-> None, closed |-> None,
              tally |-> [p \in Player |-> None], failures |-> 0, status |-> FALSE]

Open == {i \in DOMAIN rows : rows[i].open}
NewRow(map, n) == [map |-> map, open |-> TRUE, result |-> NoResult, late |-> FALSE,
                   during |-> {n}, lines |-> [p \in Player |-> 0]]

MatchTypeOK ==
    /\ game \in [kind : Kind, n : Match, list : Match, map : Map, score : 0 .. MAX_SCORE, young : BOOLEAN,
                 kills : [Player -> Kills]]
    /\ mem.last \in {None} \cup Last
    /\ mem.held \in {None} \cup [of : Match, fresh : BOOLEAN]
    /\ mem.closed \in {None} \cup [row : DOMAIN rows, recent : BOOLEAN, byFeed : BOOLEAN]
    /\ mem.tally \in [Player -> {None} \cup Tally]
    /\ mem.failures \in 0 .. OFFLINE_AFTER_FAILURES /\ mem.status \in BOOLEAN
    /\ look \in {None} \cup Looked
    /\ fix \in {None} \cup [row : DOMAIN rows, of : Match]
    /\ \A i \in DOMAIN rows :
         rows[i] \in [map : Map, open : BOOLEAN, result : Result, late : BOOLEAN,
                      during : SUBSET Match, lines : [Player -> Kills]]
    /\ Cardinality(Open) <= 1
    /\ past \in [seen : [Player -> Kills], since : [Player -> 0 .. MAX_MATCHES],
                 twice : SUBSET Player, missed : SUBSET Player, faults : 0 .. MaxFaults,
                 calm : BOOLEAN, astray : BOOLEAN]

MatchInit ==
    /\ game \in [kind : Kind, n : {1}, list : {1}, map : Map, score : {0}, young : {TRUE},
                 kills : [Player -> {0}]]
    /\ mem = NewMemory /\ look = None /\ fix = None /\ rows = <<>>
    /\ past = [seen |-> [p \in Player |-> 0], since |-> [p \in Player |-> 0], twice |-> {},
               missed |-> {}, faults |-> 0, calm |-> TRUE, astray |-> FALSE]

-----------------------------------------------------------------------------
(* The game server *)

Worker == <<mem, look, fix, rows>>

MuchLater ==
    [mem EXCEPT !.held = IF @ = None THEN None ELSE [@ EXCEPT !.fresh = FALSE],
                !.closed = IF @ = None THEN None ELSE [@ EXCEPT !.recent = FALSE]]

(* A match lasts longer than FEED_END_FRESH_MS and LATE_END_MS after its   *)
(* first minutes, in which the result of the one before still comes.       *)
Ages ==
    /\ game.young /\ game.list = game.n
    /\ game' = [game EXCEPT !.young = FALSE]
    /\ mem' = MuchLater
    /\ UNCHANGED <<look, fix, rows, past>>

(* Either may be over sooner. *)
MinutesPass ==
    /\ \/ mem.held # None /\ mem.held.fresh
       \/ mem.closed # None /\ mem.closed.recent
    /\ mem' = MuchLater
    /\ UNCHANGED <<game, look, fix, rows, past>>

(* The next match reaches the player list, then the status. *)
NextOnList ==
    /\ ~game.young /\ game.list = game.n /\ game.n < game.kind.matches
    /\ game' = [game EXCEPT !.list = @ + 1, !.kills = [p \in Player |-> 0]]
    /\ UNCHANGED <<Worker, past>>

NextOnStatus ==
    /\ game.list = game.n + 1
    /\ \E map \in Map :
         game' = [game EXCEPT !.n = @ + 1, !.map = map, !.score = 0, !.young = TRUE]
    /\ UNCHANGED <<Worker, past>>

(* What a look finds besides: who is on, whose counters started again with *)
(* a new connection, the kills made since (and after that), whether        *)
(* somebody scored.                                                        *)
Found(on, anew, made, scored) ==
    /\ on \subseteq game.kind.players /\ anew \subseteq on
    /\ \A p \in Player : /\ made[p] > 0 => p \in on
                        /\ past.seen[p] + made[p] <= MAX_KILLS
    /\ scored => game.score < MAX_SCORE

-----------------------------------------------------------------------------
(* A look *)

(* matchBoundary: another map, or a lower score. *)
Boundary(last, score) == last # None /\ (last.map # game.map \/ score < last.score)

(* takeFeedEnd: the held result, if it came recently. *)
Taken(held) == IF held # None /\ held.fresh THEN [by |-> "feed", of |-> held.of] ELSE NoResult

(* Mutant: what was reached is not banked. *)
Tallied_NoBank(t, k, now) ==
    IF t = None THEN NewTally(k)
    ELSE IF k < t.last THEN [t EXCEPT !.last = k, !.dropped = now]
    ELSE [t EXCEPT !.last = k]

(* tallyLook: a counter below the last look's was started again. *)
Tallied(t, k, now) ==
    IF t = None THEN NewTally(k)
    ELSE IF k < t.last THEN [t EXCEPT !.banked = @ + t.last, !.last = k, !.dropped = now]
    ELSE [t EXCEPT !.last = k]

Counter(p, anew, made) == (IF p \in anew THEN 0 ELSE game.kills[p]) + made[p]

(* Whose counters started again and have passed the last ones: no drop.    *)
Unnoticed(on, anew, made) ==
    {p \in on : /\ mem.tally[p] # None
               /\ (p \in anew \/ game.kills[p] < mem.tally[p].last)
               /\ 0 < mem.tally[p].last /\ mem.tally[p].last <= Counter(p, anew, made)}

(* The end this look sees, if any, with the game's own result if it came.  *)
EndSeen(st, score) ==
    IF ~st \/ mem.failures >= OFFLINE_AFTER_FAILURES \/ ~Boundary(mem.last, score) THEN NoResult
    ELSE IF Taken(mem.held) # NoResult THEN Taken(mem.held)
    ELSE [by |-> "look", of |-> mem.last.of]

(* It reads the status (st), the player list (its on) or both; gone is who *)
(* it takes to have left (module Presence).                                *)
Observe(st, pl, on, anew, made, scored, gone) ==
    LET score == game.score + (IF scored THEN 1 ELSE 0)
        end == EndSeen(st, score) IN
    /\ look = None
    /\ st \/ (pl /\ mem.status)
    /\ Found(on, anew, made, scored)
    /\ (~pl => on = {}) /\ (~st => ~scored)
    /\ gone \subseteq {p \in Player \ on : pl /\ mem.tally[p] # None}
    /\ game' = [game EXCEPT !.score = score,
                            !.kills = [p \in Player |-> Counter(p, anew, made)]]
    /\ mem' = [mem EXCEPT
         !.last = IF st THEN [map |-> game.map, score |-> score, of |-> game.n] ELSE @,
         !.held = IF end # NoResult THEN None ELSE @,
         !.tally = [p \in Player |->
             IF p \in on
             THEN Tallied(@[p], Counter(p, anew, made), IF st THEN "now" ELSE "since")
             ELSE IF p \in gone THEN [@[p] EXCEPT !.dirty = TRUE] ELSE @[p]],
         !.failures = 0, !.status = TRUE]
    /\ look' = IF st THEN [map |-> game.map, of |-> game.n, young |-> game.young, ended |-> end]
               ELSE None
    /\ past' = [past EXCEPT !.seen = [p \in Player |-> @[p] + made[p]],
                            !.missed = @ \cup Unnoticed(on, anew, made),
                            !.since = [p \in Player |->
                                IF p \in on /\ mem.tally[p] = None THEN game.list ELSE @[p]]]
    /\ UNCHANGED <<fix, rows>>

-----------------------------------------------------------------------------
(* The match stage: reconcileMatch *)

Tallies == {p \in Player : mem.tally[p] # None}
Current == CHOOSE i \in Open : TRUE
Ended == look.ended # NoResult
Stale == ~Ended /\ Open # {} /\ rows[Current].map # look.map

(* Mutant: an abandoned match is not closed. *)
Closing_AtAnEnd == Open # {} /\ Ended

Closing == Open # {} /\ (Ended \/ Stale)
ClosingResult == IF Ended THEN look.ended ELSE Taken(mem.held)

(* Mutant: the counters since a drop stay with the match that ended. *)
CloseLine_All(t) == TallyRow(t)

(* closeTallies: a drop since the last status look was the next match.     *)
CloseLine(t) == IF t.dropped = "no" THEN TallyRow(t) ELSE t.banked
Carried(t) == IF t = None \/ t.dropped = "no" THEN None ELSE NewTally(t.last)

Later(t) ==
    IF t = None THEN None
    ELSE [t EXCEPT !.dropped = IF @ = "now" THEN "since" ELSE "no"]

LinesWritten ==
    [p \in Player |->
        LET t == mem.tally[p] line == rows[Current].lines[p] IN
        IF t = None \/ Stale THEN line
        ELSE IF Ended THEN CloseLine(t)
        ELSE IF t.dirty THEN TallyRow(t) ELSE line]

RowsWritten ==
    LET late == look.of # Max(rows[Current].during) + 1 \/ ~look.young
        written == IF Open = {} THEN rows
                   ELSE IF Closing
                   THEN [rows EXCEPT ![Current].open = FALSE, ![Current].result = ClosingResult,
                                     ![Current].late = late, ![Current].lines = LinesWritten]
                   ELSE [rows EXCEPT ![Current].during = @ \cup {look.of},
                                     ![Current].lines = LinesWritten]
    IN  IF Open = {} \/ Ended \/ Stale THEN Append(written, NewRow(look.map, look.of))
        ELSE written

(* The memory moves with the statements, not with their commit.            *)
MemoryAfter ==
    [mem EXCEPT
        !.tally = [p \in Player |->
            IF Ended THEN Carried(@[p])
            ELSE IF @[p] = None THEN None
            ELSE IF Open = {} \/ Stale THEN Later(@[p]) ELSE [Later(@[p]) EXCEPT !.dirty = FALSE]],
        !.held = IF Stale THEN None ELSE @,
        !.closed = IF Closing
                   THEN [row |-> Current, recent |-> TRUE, byFeed |-> ClosingResult.by = "feed"]
                   ELSE @]

(* Whose kills of the next match go into a line of the one before: the     *)
(* match ends and no drop was seen, or they left before a status showed    *)
(* the match they came for.                                                *)
GivenBefore ==
    IF Open = {} \/ Stale THEN {}
    ELSE IF Ended THEN {p \in Tallies : mem.tally[p].dropped = "no" /\ game.kills[p] > 0}
    ELSE {p \in Tallies : /\ mem.tally[p].dirty /\ TallyRow(mem.tally[p]) > 0
                         /\ \A m \in rows[Current].during \cup {look.of} : m < past.since[p]}

MatchStage ==
    /\ look # None
    /\ mem' = MemoryAfter /\ rows' = RowsWritten
    /\ look' = None
    /\ past' = [past EXCEPT !.astray = @ \/ (Stale /\ \E p \in Tallies : past.since[p] < look.of),
                            !.twice = @ \cup GivenBefore]
    /\ UNCHANGED <<game, fix>>

Unwritten ==
    IF Open = {} THEN rows ELSE [rows EXCEPT ![Current].during = @ \cup {look.of}]
(* A match is over and its row not closed. *)
Turning == Open # {} /\ Max(rows[Current].during) < game.list

Fault ==
    /\ past.faults < MaxFaults
    /\ past' = [past EXCEPT !.faults = @ + 1, !.calm = FALSE, !.astray = @ \/ Turning]

(* Its commit fails, or it is refused before it does anything: then the    *)
(* tallies of a match that ended stay.                                     *)
CommitFails ==
    /\ look # None /\ Fault
    /\ mem' = MemoryAfter /\ rows' = Unwritten
    /\ look' = None
    /\ UNCHANGED <<game, fix>>

StageRefused ==
    /\ look # None /\ Fault
    /\ mem' = [mem EXCEPT !.tally = [p \in Player |-> Later(@[p])]] /\ rows' = Unwritten
    /\ look' = None
    /\ UNCHANGED <<game, fix>>

-----------------------------------------------------------------------------
(* A look that fails: observationFailed.  Once the server counts as        *)
(* offline, everyone's line goes to the open match and the tallies end.    *)
Offline == mem.failures + 1 >= OFFLINE_AFTER_FAILURES
FailedLook ==
    /\ look = None
    /\ IF Offline
       THEN /\ mem' = [mem EXCEPT !.failures = OFFLINE_AFTER_FAILURES, !.last = None,
                                  !.tally = [p \in Player |-> None]]
            /\ rows' = [i \in DOMAIN rows |->
                  IF ~rows[i].open THEN rows[i]
                  ELSE [rows[i] EXCEPT !.lines = [p \in Player |->
                      IF p \in Tallies THEN TallyRow(mem.tally[p]) ELSE @[p]]]]
            /\ past' = [past EXCEPT !.calm = FALSE, !.astray = @ \/ Turning]
       ELSE /\ mem' = [mem EXCEPT !.failures = @ + 1]
            /\ UNCHANGED <<rows, past>>
    /\ UNCHANGED <<game, look, fix>>

FailureNotSaved ==
    /\ look = None /\ Offline /\ Fault
    /\ \E last \in {mem.last, None} :
         mem' = [mem EXCEPT !.failures = OFFLINE_AFTER_FAILURES, !.last = last]
    /\ UNCHANGED <<game, look, fix, rows>>

-----------------------------------------------------------------------------
(* The feed: onMatchFeed.  The game sends a result from the end of its     *)
(* match on, and again until it is answered; it may never come.            *)
MayCome(n) == game.kind.feed /\ n = (IF game.young THEN game.n - 1 ELSE game.n)

(* Mutant: whatever comes is of the match a look closed. *)
OnMatchFeed_AnyTime(n) ==
    /\ MayCome(n)
    /\ IF mem.closed = None
       THEN mem' = [mem EXCEPT !.held = [of |-> n, fresh |-> TRUE]] /\ UNCHANGED fix
       ELSE /\ ~mem.closed.byFeed /\ fix = None
            /\ mem' = [mem EXCEPT !.closed.byFeed = TRUE]
            /\ fix' = [row |-> mem.closed.row, of |-> n]
    /\ UNCHANGED <<game, look, rows, past>>

OnMatchFeed(n) ==
    /\ MayCome(n)
    /\ IF mem.closed = None \/ ~mem.closed.recent
       THEN mem' = [mem EXCEPT !.held = [of |-> n, fresh |-> TRUE]] /\ UNCHANGED fix
       ELSE /\ ~mem.closed.byFeed /\ fix = None
            /\ mem' = [mem EXCEPT !.closed.byFeed = TRUE]
            /\ fix' = [row |-> mem.closed.row, of |-> n]
    /\ UNCHANGED <<game, look, rows, past>>

(* The result corrects the match, if that has ended. *)
Correct ==
    /\ fix # None
    /\ rows' = IF rows[fix.row].open THEN rows
               ELSE [rows EXCEPT ![fix.row].result = [by |-> "feed", of |-> fix.of]]
    /\ fix' = None
    /\ UNCHANGED <<game, mem, look, past>>

CorrectFails ==
    /\ fix # None /\ Fault
    /\ mem' = IF mem.closed # None /\ mem.closed.row = fix.row
              THEN [mem EXCEPT !.closed.byFeed = FALSE] ELSE mem
    /\ fix' = None
    /\ UNCHANGED <<game, look, rows>>

-----------------------------------------------------------------------------
(* The worker stops and another starts. *)
Restart ==
    /\ Fault
    /\ mem' = NewMemory /\ look' = None /\ fix' = None
    /\ UNCHANGED <<game, rows>>

(* It lost the lease and has it again: forgetRemembered, and what was      *)
(* under way is refused.  The tallies stay.                                *)
ForgetRemembered ==
    /\ Fault
    /\ mem' = [mem EXCEPT !.last = None, !.held = None, !.closed = None]
    /\ look' = None /\ fix' = None
    /\ UNCHANGED <<game, rows>>

-----------------------------------------------------------------------------
(* The match stage reads nothing of the game, which may as well wait.      *)
Plays == look = None /\ (Ages \/ NextOnList \/ NextOnStatus)

(* Whatever a look may find.  Counters at zero that start again are as     *)
(* they were.                                                              *)
Looks ==
    \E st, pl \in BOOLEAN :
    \E scored \in {FALSE, st}, on \in SUBSET (IF pl THEN game.kind.players ELSE {}) :
    \E anew \in SUBSET {p \in on : game.kills[p] > 0}, gone \in SUBSET (Tallies \ on),
       made \in [Player -> IF on = {} THEN {0} ELSE Kills] :
        Observe(st, pl, on, anew, made, scored, gone)

MatchNext ==
    \/ Plays \/ MinutesPass \/ Looks
    \/ MatchStage \/ CommitFails \/ StageRefused \/ FailedLook \/ FailureNotSaved
    \/ \E n \in Match : OnMatchFeed(n)
    \/ Correct \/ CorrectFails \/ Restart \/ ForgetRemembered

MatchSpec == MatchInit /\ [][MatchNext]_matchVars

-----------------------------------------------------------------------------
(* Properties *)

(* What is recorded of a player's kills, and what will be when the match   *)
(* on is written.                                                          *)
Recorded(p) ==
    MapThenSumSet(LAMBDA i : rows[i].lines[p], DOMAIN rows \ Open)
    + (IF mem.tally[p] # None THEN TallyRow(mem.tally[p])
       ELSE IF Open # {} THEN rows[Current].lines[p] ELSE 0)

(* No kill is in two lines, whenever the list runs ahead of the status,    *)
(* looks fail, writes fail or the worker starts again, but in the ways     *)
(* named here.  The match ends while a look has already counted kills of   *)
(* the next one, of a player whose counters were not seen to start again;  *)
(* or such a player left before a status showed it (twice).  And a fault   *)
(* or an outage between a match's end and the closing of its row, and an   *)
(* abandoned match, keep tallies that should have ended with their match   *)
(* (astray).                                                               *)
CountedOnce == ~past.astray => \A p \in Player \ past.twice : Recorded(p) <= past.seen[p]

(* While nothing goes wrong, every kill a look saw is in the line of a     *)
(* match, also of players who left or whose counters started again, unless *)
(* by the next look they have passed where they were (missed), which       *)
(* tallyLook takes for the same run of them.                               *)
NothingSeenIsLost ==
    past.calm => \A p \in Player \ (past.twice \cup past.missed) : Recorded(p) = past.seen[p]

(* A match closed as the next one began has a result of its own, the       *)
(* looks' or the feed's, whichever came first and whatever failed: never   *)
(* that of the match before or after.  A row that stayed open over several *)
(* matches is of all of them, seen or not.                                 *)
OwnResult ==
    \A i \in DOMAIN rows \ Open :
        ~rows[i].late /\ rows[i].result # NoResult =>
            rows[i].result.of \in Min(rows[i].during) .. Max(rows[i].during)
=============================================================================
