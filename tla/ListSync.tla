------------------------------ MODULE ListSync ------------------------------
(***************************************************************************)
(* The list sync of one game server: src/lib/server/lists-sync.ts and      *)
(* lists-plan.ts, with the import of lists.ts.                             *)
(*                                                                         *)
(* The lists say which ids should have a reserved slot; the server's       *)
(* config document says which have one.  The panel adds what the lists     *)
(* want and takes back only what it put there itself, which it knows by    *)
(* its own rows (server_list_state).  Lists, document, rows and the copy   *)
(* of the document the panel keeps change independently: a run plans       *)
(* against what it read, claims, writes and records in separate steps, and *)
(* may stop after any of them.                                             *)
(*                                                                         *)
(* Bans are enforced by kicks and never written, so an id is a slot.  A    *)
(* write that was sent takes effect when it is sent or never.              *)
(***************************************************************************)
EXTENDS Integers, FiniteSets

CONSTANTS
    Id,         \* SteamIDs, as numbers: the most pressing first (PRIORITY)
    Proc,       \* processes that sync this server: withServerLock admits one run of each
    Budget,     \* lines of ids the document has room for
    MaxEdits,   \* bound: edits by people
    Wanted      \* what the lists may want when the server is taken on

ASSUME IdAssumption == Id \subseteq Nat /\ IsFiniteSet(Id)
ASSUME WantedAssumption == Wanted \subseteq SUBSET Id
ASSUME BoundAssumption == Budget \in Nat /\ MaxEdits \in Nat

VARIABLES
    wanted,     \* what the lists want on the server (desiredFor)
    doc,        \* ids in the server's document
    row,        \* server_list_state per id: none, applied, failed; waiting for RETRY_AFTER_MS
    copy,       \* server_reserved: the document as last seen
    run,        \* per process: its run
    placed,     \* ids the panel wrote that nobody took out since (observer)
    others,     \* ids others wrote that the panel has not made its own since (observer)
    edits,      \* bound counter
    calm        \* from now on the server answers and nothing fails (assumed to come)

vars == <<wanted, doc, row, copy, run, placed, others, edits, calm>>

States == {"none", "applied", "failed", "waiting"}
NoPlan == [adds |-> {}, removes |-> {}, confirms |-> {}, deletes |-> {}]
Plans == [adds : SUBSET Id, removes : SUBSET Id, confirms : SUBSET Id, deletes : SUBSET Id]
(* at: idle; seen (the copy was refreshed by the caller); given, lists     *)
(* (with and without that, the lists are read); look (work to do by the    *)
(* copy); claim; read, put (the document as one text); each (the    *)
(* live routes); record; copy.                                             *)
NoRun == [at |-> "idle", plan |-> NoPlan, todo |-> {}, seen |-> {}, rows |-> [i \in Id |-> "none"],
          want |-> {}, fresh |-> FALSE, again |-> FALSE, failed |-> {}, done |-> {}]
Runs == [at : {"idle", "seen", "given", "lists", "look", "claim", "read", "put", "each", "record", "copy"},
         plan : Plans, todo : SUBSET Id, seen : SUBSET Id, rows : [Id -> States],
         want : SUBSET Id, fresh : BOOLEAN, again : BOOLEAN, failed : SUBSET Id, done : SUBSET Id]

Managed == {i \in Id : row[i] # "none"}

(* The document stays within the panel's budget for it. *)
TypeOK ==
    /\ wanted \subseteq Id /\ doc \subseteq Id /\ copy \subseteq Id
    /\ Cardinality(doc) <= Budget
    /\ row \in [Id -> States]
    /\ run \in [Proc -> Runs]
    /\ placed \subseteq doc /\ others \subseteq Id
    /\ edits \in 0 .. MaxEdits
    /\ calm \in BOOLEAN

(* A server just taken on: its document is its owner's, and the lists      *)
(* may want some of it already.                                            *)
Init ==
    /\ wanted \in Wanted
    /\ doc \in {s \in SUBSET Id : Cardinality(s) <= Budget}
    /\ row = [i \in Id |-> "none"]
    /\ copy = {}
    /\ run = [p \in Proc |-> NoRun]
    /\ placed = {}
    /\ others = doc
    /\ edits = 0
    /\ calm = FALSE

-----------------------------------------------------------------------------
(* planSync *)

(* Mutant: what failed once is never tried again. *)
PlanSync_GiveUp(want, rows, seen) ==
    LET managed == {i \in Id : rows[i] # "none"}
        idle == {i \in Id : rows[i] \in {"waiting", "failed"}}
    IN  [adds |-> (want \ seen) \ idle,
         removes |-> ((managed \ want) \cap seen) \ idle,
         confirms |-> {i \in want \cap seen : rows[i] \in {"failed", "waiting"}},
         deletes |-> (managed \ want) \ seen]

(* What is wanted and not there is added, what is ours and no longer       *)
(* wanted is removed, both not before a failure's wait is over.            *)
PlanSync(want, rows, seen) ==
    LET managed == {i \in Id : rows[i] # "none"}
        idle == {i \in Id : rows[i] = "waiting"}
    IN  [adds |-> (want \ seen) \ idle,
         removes |-> ((managed \ want) \cap seen) \ idle,
         confirms |-> {i \in want \cap seen : rows[i] \in {"failed", "waiting"}},
         deletes |-> (managed \ want) \ seen]

HasWork(plan) == plan.adds # {} \/ plan.removes # {}

-----------------------------------------------------------------------------
(* A run *)

At(p, at) == run[p].at = at
Set(p, r) == run' = [run EXCEPT ![p] = r]
Planned(p, want, rows, seen) ==
    Set(p, [NoRun EXCEPT !.at = "claim", !.plan = PlanSync(want, rows, seen), !.seen = seen])

(* keepLists: the worker reads the document, when its copy is due. *)
Refresh(p) ==
    /\ At(p, "idle")
    /\ copy' = doc
    /\ Set(p, [NoRun EXCEPT !.at = "seen", !.seen = doc])
    /\ UNCHANGED <<wanted, doc, row, placed, others, edits, calm>>

(* The sync is not due yet. *)
NotDue(p) ==
    /\ At(p, "seen")
    /\ Set(p, NoRun)
    /\ UNCHANGED <<wanted, doc, row, copy, placed, others, edits, calm>>

(* A run begins with what the lists want; the rows are another query. *)
ReadLists(p) ==
    /\ At(p, "idle") \/ At(p, "seen")
    /\ Set(p, [run[p] EXCEPT !.at = IF At(p, "seen") THEN "given" ELSE "lists", !.want = wanted])
    /\ UNCHANGED <<wanted, doc, row, copy, placed, others, edits, calm>>

(* It plans from what its caller just read. *)
Start(p) ==
    /\ At(p, "given")
    /\ IF PlanSync(run[p].want, row, run[p].seen) = NoPlan THEN Set(p, NoRun)
       ELSE Planned(p, run[p].want, row, run[p].seen)
    /\ UNCHANGED <<wanted, doc, row, copy, placed, others, edits, calm>>

(* Or from the copy; with nothing to do by it, nothing is read. *)
StartFromCopy(p) ==
    /\ At(p, "lists")
    /\ IF PlanSync(run[p].want, row, copy) = NoPlan THEN Set(p, NoRun)
       ELSE Set(p, [run[p] EXCEPT !.at = "look", !.rows = row])
    /\ UNCHANGED <<wanted, doc, row, copy, placed, others, edits, calm>>

(* Before the server is touched it is looked at again. *)
Look(p) ==
    /\ At(p, "look")
    /\ copy' = doc
    /\ Planned(p, run[p].want, run[p].rows, doc)
    /\ UNCHANGED <<wanted, doc, row, placed, others, edits, calm>>

(* Mutant: nothing is claimed before the write. *)
Claimed_None(p) == row

(* Each add is recorded as the panel's before the write. *)
Claimed(p) == [i \in Id |-> IF i \in run[p].plan.adds THEN "applied" ELSE row[i]]

(* How this build takes slots: as one document, one at a time (it has     *)
(* routes, or did not say), or not at all, and then everything failed.     *)
Ways == {"document", "routes", "none"}

Claim(p, way) ==
    LET plan == run[p].plan
        all == plan.adds \cup plan.removes
    IN
    /\ At(p, "claim")
    /\ calm => way # "none"
    /\ row' = Claimed(p)
    /\ others' = others \ plan.adds
    /\ Set(p, CASE ~HasWork(plan)      -> [run[p] EXCEPT !.at = "record"]
                [] way = "document"    -> [run[p] EXCEPT !.at = "read"]
                [] way = "routes"      -> [run[p] EXCEPT !.at = "each", !.todo = all]
                [] way = "none"        -> [run[p] EXCEPT !.at = "record", !.failed = all])
    /\ UNCHANGED <<wanted, doc, copy, placed, edits, calm>>

(* Everyone else who read the document has an old revision of it now. *)
Written(p, ids, r) ==
    /\ doc' = ids
    /\ run' = [q \in Proc |-> IF q = p THEN r
                              ELSE [run[q] EXCEPT !.fresh = @ /\ ids = doc]]
    /\ placed' = (placed \cap ids) \cup (ids \ doc)

-----------------------------------------------------------------------------
(* throughDocument *)

ReadDoc(p) ==
    /\ At(p, "read")
    /\ Set(p, [run[p] EXCEPT !.at = "put", !.todo = doc, !.fresh = TRUE])
    /\ UNCHANGED <<wanted, doc, row, copy, placed, others, edits, calm>>

(* Mutant: what the document holds already is not counted. *)
Fitting_Anew(kept, adds) == {i \in adds : Cardinality({j \in adds : j <= i}) <= Budget}

(* The adds that fit, the most pressing first. *)
Fitting(kept, adds) ==
    {i \in adds : Cardinality(kept) + Cardinality({j \in adds : j <= i}) <= Budget}

(* What the document is to hold, from the text that was read. *)
NewText(p) ==
    LET kept == run[p].todo \ run[p].plan.removes
    IN  kept \cup Fitting(kept, run[p].plan.adds \ kept)

Outcome(p, done, failed, seen) ==
    [run[p] EXCEPT !.at = "record", !.todo = {}, !.fresh = FALSE, !.again = FALSE,
                   !.done = done, !.failed = failed, !.seen = seen]
AsPlanned(p, ids) ==
    Outcome(p, run[p].plan.removes \cup (run[p].plan.adds \cap ids), run[p].plan.adds \ ids, ids)

(* Mutant: the PUT names no revision. *)
Matches_Any(p) == TRUE

(* If-Match: the document is still the one that was read. *)
Matches(p) == run[p].fresh

(* The PUT is done, or there is nothing to write. *)
Put(p) ==
    /\ At(p, "put")
    /\ IF NewText(p) = run[p].todo
       THEN Set(p, AsPlanned(p, NewText(p))) /\ UNCHANGED <<doc, placed>>
       ELSE Matches(p) /\ Written(p, NewText(p), AsPlanned(p, NewText(p)))
    /\ UNCHANGED <<wanted, row, copy, others, edits, calm>>

(* Somebody wrote in between: read once more, then the changes fail. *)
Conflict(p) ==
    /\ At(p, "put") /\ NewText(p) # run[p].todo /\ ~Matches(p)
    /\ IF ~run[p].again THEN Set(p, [run[p] EXCEPT !.at = "read", !.todo = {}, !.again = TRUE])
       ELSE Set(p, Outcome(p, {}, run[p].plan.adds \cup run[p].plan.removes, run[p].seen))
    /\ UNCHANGED <<wanted, doc, row, copy, placed, others, edits, calm>>

(* Refused, read-only or not served: everything failed. *)
Refused(p) ==
    /\ ~calm
    /\ At(p, "read") \/ At(p, "put")
    /\ Set(p, Outcome(p, {}, run[p].plan.adds \cup run[p].plan.removes, run[p].seen))
    /\ UNCHANGED <<wanted, doc, row, copy, placed, others, edits, calm>>

(* No answer: nothing is known to have happened, and the write may have.   *)
Unreachable(p) ==
    /\ ~calm
    /\ At(p, "read") \/ At(p, "put")
    /\ \/ Set(p, Outcome(p, {}, {}, run[p].seen)) /\ UNCHANGED <<doc, placed>>
       \/ /\ At(p, "put") /\ NewText(p) # run[p].todo /\ Matches(p)
          /\ Written(p, NewText(p), Outcome(p, {}, {}, run[p].seen))
    /\ UNCHANGED <<wanted, row, copy, others, edits, calm>>

-----------------------------------------------------------------------------
(* oneByOne *)

(* Removes first. *)
NextOne(p) ==
    LET removes == run[p].todo \cap run[p].plan.removes
    IN  IF removes # {} THEN removes ELSE run[p].todo

With(p, i, s) == IF i \in run[p].plan.removes THEN s \ {i} ELSE s \cup {i}

(* Done, or already so. *)
EditOne(p) ==
    /\ At(p, "each")
    /\ \E i \in NextOne(p) :
         /\ Cardinality(With(p, i, doc)) <= Budget
         /\ Written(p, With(p, i, doc),
                    [run[p] EXCEPT !.todo = @ \ {i}, !.done = @ \cup {i}, !.seen = With(p, i, @)])
    /\ UNCHANGED <<wanted, row, copy, others, edits, calm>>

RefuseOne(p) ==
    /\ At(p, "each")
    /\ \E i \in NextOne(p) :
         /\ calm => Cardinality(With(p, i, doc)) > Budget
         /\ Set(p, [run[p] EXCEPT !.todo = @ \ {i}, !.failed = @ \cup {i}])
    /\ UNCHANGED <<wanted, doc, row, copy, placed, others, edits, calm>>

(* Gone in the middle: the rest is not attempted, this one may be done. *)
LoseOne(p) ==
    /\ ~calm
    /\ At(p, "each")
    /\ \E i \in NextOne(p) :
         LET r == [run[p] EXCEPT !.at = "record", !.todo = {}] IN
         \/ Set(p, r) /\ UNCHANGED <<doc, placed>>
         \/ Cardinality(With(p, i, doc)) <= Budget /\ Written(p, With(p, i, doc), r)
    /\ UNCHANGED <<wanted, row, copy, others, edits, calm>>

AllDone(p) ==
    /\ At(p, "each") /\ run[p].todo = {}
    /\ Set(p, [run[p] EXCEPT !.at = "record"])
    /\ UNCHANGED <<wanted, doc, row, copy, placed, others, edits, calm>>

-----------------------------------------------------------------------------
(* record: the rows in one transaction, then the copy *)

Recorded(p, i) ==
    LET r == run[p] IN
    IF i \in (r.done \cap r.plan.removes) \cup r.plan.deletes THEN "none"
    ELSE IF i \in r.failed THEN "waiting"
    ELSE IF i \in r.done \cup r.plan.confirms THEN "applied"
    ELSE row[i]

Record(p) ==
    /\ At(p, "record")
    /\ row' = [i \in Id |-> Recorded(p, i)]
    /\ Set(p, [NoRun EXCEPT !.at = "copy", !.seen = run[p].seen])
    /\ UNCHANGED <<wanted, doc, copy, placed, others, edits, calm>>

WriteCopy(p) ==
    /\ At(p, "copy")
    /\ copy' = run[p].seen
    /\ Set(p, NoRun)
    /\ UNCHANGED <<wanted, doc, row, placed, others, edits, calm>>

(* The process dies, or the database fails, or the server does while it is *)
(* looked at: the run ends where it is.                                    *)
Stop(p) ==
    /\ ~calm
    /\ ~At(p, "idle")
    /\ Set(p, NoRun)
    /\ UNCHANGED <<wanted, doc, row, copy, placed, others, edits, calm>>

-----------------------------------------------------------------------------
(* People and time *)

Edited == edits < MaxEdits /\ edits' = edits + 1

(* The lists change: an entry is added, removed or expires, a group's      *)
(* window opens or closes.                                                 *)
EditLists ==
    /\ Edited
    /\ wanted' \in SUBSET Id \ {wanted}
    /\ UNCHANGED <<doc, row, copy, run, placed, others, calm>>

Outdate == run' = [q \in Proc |-> [run[q] EXCEPT !.fresh = FALSE]]

(* Somebody edits the document by hand: through the panel, which brings    *)
(* its copy in line, or not.                                               *)
HandAdd(i) ==
    /\ Edited
    /\ i \notin doc /\ Cardinality(doc) < Budget
    /\ doc' = doc \cup {i}
    /\ others' = IF row[i] = "none" THEN others \cup {i} ELSE others
    /\ copy' \in {copy, copy \cup {i}}
    /\ Outdate
    /\ UNCHANGED <<wanted, row, placed, calm>>

HandRemove(i) ==
    /\ Edited
    /\ i \in doc
    /\ doc' = doc \ {i}
    /\ placed' = placed \ {i} /\ others' = others \ {i}
    /\ copy' \in {copy, copy \ {i}}
    /\ Outdate
    /\ UNCHANGED <<wanted, row, calm>>

(* importEntries: an id of the server's becomes a list's and the panel's. *)
Import(i) ==
    /\ Edited
    /\ i \in copy /\ i \notin wanted /\ row[i] = "none"
    /\ wanted' = wanted \cup {i}
    /\ row' = [row EXCEPT ![i] = "applied"]
    /\ others' = others \ {i}
    /\ UNCHANGED <<doc, copy, run, placed, calm>>

Calm ==
    /\ ~calm
    /\ calm' = TRUE
    /\ UNCHANGED <<wanted, doc, row, copy, run, placed, others, edits>>

(* RETRY_AFTER_MS have passed. *)
WaitEnds(i) ==
    /\ row[i] = "waiting"
    /\ row' = [row EXCEPT ![i] = "failed"]
    /\ UNCHANGED <<wanted, doc, copy, run, placed, others, edits, calm>>

-----------------------------------------------------------------------------
Planning(p) == Start(p) \/ StartFromCopy(p) \/ Look(p)
               \/ \E way \in Ways : Claim(p, way)
Writing(p) == \/ ReadDoc(p) \/ Put(p) \/ Conflict(p) \/ Refused(p) \/ Unreachable(p)
              \/ EditOne(p) \/ RefuseOne(p) \/ LoseOne(p) \/ AllDone(p)
Recording(p) == Record(p) \/ WriteCopy(p)

Next == \/ \E p \in Proc : Refresh(p) \/ NotDue(p) \/ ReadLists(p)
        \/ \E p \in Proc : Planning(p) \/ Writing(p) \/ Recording(p) \/ Stop(p)
        \/ EditLists
        \/ Calm
        \/ \E i \in Id : HandAdd(i) \/ HandRemove(i) \/ Import(i) \/ WaitEnds(i)

Spec == Init /\ [][Next]_vars

(* The copy is refreshed and the sync runs each on its own timer, which    *)
(* comes round again whatever else was done meanwhile; a run goes on,      *)
(* waits end, and trouble does: how much there is before is not bounded.   *)
Fairness ==
    /\ WF_vars(Calm)
    /\ \A i \in Id : WF_vars(WaitEnds(i))
    /\ \A p \in Proc : /\ SF_vars(Refresh(p)) /\ SF_vars(ReadLists(p))
                       /\ WF_vars(NotDue(p) \/ Planning(p) \/ Writing(p) \/ Recording(p))

FairSpec == Spec /\ Fairness

-----------------------------------------------------------------------------
(* Properties *)

(* What somebody else put in the document, and the panel never made its    *)
(* own, stays there until somebody takes it out, whatever is written       *)
(* around it.                                                              *)
OthersStay == others \subseteq doc

(* lists-sync.ts, claim: no crash leaves an id the panel placed looking    *)
(* like someone else's, which nothing would ever remove.                   *)
PlacedIsManaged ==
    (\A p \in Proc : At(p, "idle")) => placed \subseteq Managed

(* Once people stop editing, the server has what the lists want, as far as *)
(* there is room, and nothing of the panel's that they do not.             *)
Converges ==
    <>[](placed \subseteq wanted /\ (wanted \subseteq doc \/ Cardinality(doc) = Budget))
=============================================================================
