--------------------------- MODULE ListSyncProofs ---------------------------
(***************************************************************************)
(* What the list sync keeps for every number of ids and edits: the         *)
(* document's budget whoever syncs, and who a slot belongs to as long as   *)
(* one process does.                                                       *)
(***************************************************************************)
EXTENDS ListSync, FiniteSetTheorems, WellFoundedInduction, TLAPS

(* A run whose revision still matches holds the document itself, so what   *)
(* it fits in was measured on the right text.                              *)
FreshIsCurrent == \A p \in Proc : run[p].fresh => At(p, "put") /\ run[p].todo = doc

TInv == TypeOK /\ FreshIsCurrent

(* What a run of the only process may touch is the panel's: what it plans  *)
(* to take back or confirm was the panel's when it planned, and what it    *)
(* adds is since it claimed.                                               *)
PlanIsManaged(p) ==
    LET r == run[p] IN
    /\ r.plan.removes \cup r.plan.confirms \cup r.plan.deletes \subseteq Managed
    /\ {i \in Id : r.rows[i] # "none"} \subseteq Managed
    /\ r.at \in {"read", "put", "each", "record"} => r.plan.adds \subseteq Managed
    /\ r.plan.adds \cap (r.plan.removes \cup r.plan.deletes) = {}
    /\ r.at = "each" => r.todo \subseteq r.plan.adds \cup r.plan.removes
    /\ r.done \cup r.failed \subseteq r.plan.adds \cup r.plan.removes

(* The rows a run is going to delete are of ids the panel has no longer in *)
(* the document.                                                           *)
DroppedIsGone(p) ==
    LET r == run[p] IN
    /\ placed \cap r.plan.deletes = {}
    /\ placed \cap r.done \cap r.plan.removes = {}
    /\ r.at \in {"seen", "given"} => placed \subseteq r.seen
    /\ r.at = "put" => placed \subseteq r.todo

(* Every slot in the document is the panel's, with a row, or another's,    *)
(* without one, or one the panel has taken over from the other.            *)
Slots ==
    /\ Managed \cap others = {}
    /\ others \subseteq doc
    /\ placed \subseteq Managed

IInv == /\ TInv
        /\ \A p \in Proc : PlanIsManaged(p) /\ DroppedIsGone(p)
        /\ Slots

-----------------------------------------------------------------------------
(* The document's budget *)

(* Some id that fits is the last of them: the ids a set of numbers ranks   *)
(* behind another are fewer, and fewer cannot go on for ever.              *)
LEMMA LastOne ==
  ASSUME NEW F \in SUBSET Id, F # {}
  PROVE  \E m \in F : \A i \in F : i <= m
<1> DEFINE After(i) == {j \in Id : j > i}
           T == {After(i) : i \in F}
<1>1. T \subseteq FiniteSubsetsOf(Id) /\ T # {}
  <2>1. \A i \in F : After(i) \in SUBSET Id /\ IsFiniteSet(After(i))
        BY IdAssumption, FS_Subset
  <2> QED BY <2>1 DEF FiniteSubsetsOf
<1>2. PICK t \in T : \A u \in T : ~(<<u, t>> \in StrictSubsetOrdering(Id))
  <2> HIDE DEF T
  <2> QED BY <1>1, FS_StrictSubsetOrderingWellFounded, WFMin
<1>3. PICK m \in F : t = After(m)
      OBVIOUS
<1>4. ASSUME NEW i \in F, i > m PROVE FALSE
  <2>1. i \in Nat /\ m \in Nat /\ i \in Id
        BY IdAssumption
  <2>2. ASSUME NEW j \in After(i) PROVE j \in After(m)
    <3>1. j \in Nat /\ j > i
          BY IdAssumption
    <3> QED BY <1>4, <2>1, <3>1
  <2>3. After(i) \subseteq After(m) /\ i \in After(m) /\ i \notin After(i)
    <3>1. i \in After(m)
          BY <1>4, <2>1
    <3>2. i \notin After(i)
          BY <2>1
    <3> HIDE DEF After
    <3> QED BY <2>2, <3>1, <3>2
  <2>4. <<After(i), After(m)>> \in StrictSubsetOrdering(Id)
        BY <2>3 DEF StrictSubsetOrdering
  <2> QED BY <1>2, <1>3, <2>4
<1> QED BY <1>4, IdAssumption

(* lists-sync.ts, fitting: what it returns fits beside what is kept, for   *)
(* every document, budget and set of adds.                                 *)
LEMMA FittingFits ==
  ASSUME NEW kept \in SUBSET Id, NEW adds \in SUBSET Id, Cardinality(kept) <= Budget
  PROVE  Cardinality(kept \cup Fitting(kept, adds)) <= Budget
<1> DEFINE F == Fitting(kept, adds)
           UpTo(i) == {j \in adds : j <= i}
<1>1. /\ IsFiniteSet(kept) /\ Cardinality(kept) \in Nat
      /\ F \in SUBSET Id /\ IsFiniteSet(F) /\ Cardinality(F) \in Nat
      BY IdAssumption, FS_Subset, FS_CardinalityType DEF Fitting
<1>2. CASE F = {}
  <2>1. kept \cup F = kept
        BY <1>2
  <2> QED BY <2>1
<1>3. CASE F # {}
  <2>1. PICK m \in F : \A i \in F : i <= m
        BY <1>1, <1>3, LastOne
  <2>2. F \subseteq UpTo(m)
        BY <2>1 DEF Fitting
  <2>3. IsFiniteSet(UpTo(m)) /\ Cardinality(UpTo(m)) \in Nat
        BY IdAssumption, FS_Subset, FS_CardinalityType
  <2>4. Cardinality(F) <= Cardinality(UpTo(m))
        BY <2>2, <2>3, FS_Subset
  <2>5. Cardinality(kept) + Cardinality(UpTo(m)) <= Budget
        BY <2>1 DEF Fitting
  <2>6. /\ Cardinality(kept \cup F) = Cardinality(kept) + Cardinality(F) - Cardinality(kept \cap F)
        /\ Cardinality(kept \cap F) \in Nat
    <3>1. IsFiniteSet(kept \cap F)
          BY <1>1, FS_Intersection
    <3> HIDE DEF F
    <3> QED BY <1>1, <3>1, FS_Union, FS_CardinalityType
  <2>7. Cardinality(kept \cup F) <= Budget
    <3> HIDE DEF F, UpTo
    <3> QED BY <1>1, <2>3, <2>4, <2>5, <2>6, BoundAssumption
  <2> QED BY <2>7
<1> QED BY <1>2, <1>3

-----------------------------------------------------------------------------
(* Types *)

(* What an action builds a run from. *)
LEMMA RunParts ==
  ASSUME TypeOK, NEW p \in Proc
  PROVE  /\ run[p] \in Runs /\ run[p].plan \in Plans
         /\ run[p].plan.adds \in SUBSET Id /\ run[p].plan.removes \in SUBSET Id
         /\ run[p].plan.confirms \in SUBSET Id /\ run[p].plan.deletes \in SUBSET Id
         /\ run[p].todo \in SUBSET Id /\ run[p].seen \in SUBSET Id
         /\ run[p].done \in SUBSET Id /\ run[p].failed \in SUBSET Id
         /\ run[p].rows \in [Id -> States] /\ run[p].want \in SUBSET Id
         /\ run[p].fresh \in BOOLEAN /\ run[p].again \in BOOLEAN
<1>1. run[p] \in Runs
      BY DEF TypeOK
<1>2. run[p].plan \in Plans
      BY <1>1 DEF Runs
<1> QED BY <1>1, <1>2 DEF Runs, Plans

LEMMA NoRunType == NoRun \in Runs
  BY DEF NoRun, NoPlan, Runs, Plans, States

LEMMA PlanType ==
  ASSUME NEW want \in SUBSET Id, NEW rows, NEW seen
  PROVE  PlanSync(want, rows, seen) \in Plans
  BY DEF PlanSync, Plans

(* A new run of one process, with nothing fresh in it. *)
LEMMA SetKeeps ==
  ASSUME TInv, NEW p \in Proc, NEW r \in Runs, Set(p, r), UNCHANGED doc,
         r.fresh => r.at = "put" /\ r.todo = doc
  PROVE  run' \in [Proc -> Runs] /\ FreshIsCurrent'
<1>1. run' \in [Proc -> Runs] /\ \A q \in Proc : run'[q] = IF q = p THEN r ELSE run[q]
      BY DEF Set, TInv, TypeOK
<1> QED BY <1>1 DEF FreshIsCurrent, TInv, At

LEMMA WrittenKeeps ==
  ASSUME TInv, NEW p \in Proc, NEW r \in Runs, NEW ids \in SUBSET Id, Cardinality(ids) <= Budget,
         Written(p, ids, r), ~r.fresh
  PROVE  /\ run' \in [Proc -> Runs] /\ FreshIsCurrent'
         /\ doc' \in SUBSET Id /\ Cardinality(doc') <= Budget /\ placed' \subseteq doc'
<1>1. /\ doc' = ids
      /\ \A q \in Proc : run'[q] = IF q = p THEN r
                                   ELSE [run[q] EXCEPT !.fresh = @ /\ ids = doc]
      /\ run' = [q \in Proc |-> IF q = p THEN r ELSE [run[q] EXCEPT !.fresh = @ /\ ids = doc]]
      /\ placed' = (placed \cap ids) \cup (ids \ doc)
      BY DEF Written
<1>2. ASSUME NEW q \in Proc PROVE [run[q] EXCEPT !.fresh = @ /\ ids = doc] \in Runs
      BY RunParts DEF TInv, Runs
<1>3. run' \in [Proc -> Runs]
      BY <1>1, <1>2
<1>4. ASSUME NEW q \in Proc, run'[q].fresh PROVE At(q, "put")' /\ run'[q].todo = doc'
  <2>1. q # p
        BY <1>1, <1>4
  <2>2. run'[q] = [run[q] EXCEPT !.fresh = @ /\ ids = doc] /\ run[q] \in Runs
        BY <1>1, <2>1, RunParts DEF TInv
  <2>3. run[q].fresh /\ ids = doc
        BY <1>4, <2>2 DEF Runs
  <2>4. run'[q].at = run[q].at /\ run'[q].todo = run[q].todo
        BY <2>2 DEF Runs
  <2> QED BY <1>1, <2>3, <2>4 DEF TInv, FreshIsCurrent, At
<1> QED BY <1>1, <1>3, <1>4 DEF FreshIsCurrent

LEMMA InitTInv == Init => TInv
<1> SUFFICES ASSUME Init PROVE TInv
    OBVIOUS
<1>1. run \in [Proc -> Runs] /\ \A p \in Proc : ~run[p].fresh
      BY NoRunType DEF Init, NoRun
<1>2. row \in [Id -> States] /\ edits \in 0 .. MaxEdits
      BY BoundAssumption DEF Init, States
<1>3. wanted \subseteq Id
      BY WantedAssumption DEF Init
<1> QED BY <1>1, <1>2, <1>3 DEF Init, TInv, TypeOK, FreshIsCurrent

(* Writes as an action makes them, with what they keep. *)
LEMMA PlannedKeeps ==
  ASSUME TInv, NEW p \in Proc, NEW want \in SUBSET Id, NEW rows, NEW seen \in SUBSET Id,
         Planned(p, want, rows, seen), UNCHANGED doc
  PROVE  run' \in [Proc -> Runs] /\ FreshIsCurrent'
<1> DEFINE r == [NoRun EXCEPT !.at = "claim", !.plan = PlanSync(want, rows, seen), !.seen = seen]
<1>1. r \in Runs /\ ~r.fresh
      BY NoRunType, PlanType DEF Runs, NoRun
<1>2. Set(p, r)
      BY DEF Planned
<1> HIDE DEF r
<1> QED BY <1>1, <1>2, SetKeeps

LEMMA OutcomeType ==
  ASSUME TypeOK, NEW p \in Proc, NEW done \in SUBSET Id, NEW failed \in SUBSET Id, NEW seen \in SUBSET Id
  PROVE  Outcome(p, done, failed, seen) \in Runs /\ ~Outcome(p, done, failed, seen).fresh
  BY RunParts, ZenonT(60) DEF Outcome, Runs

(* throughDocument: what it writes has room, by the text it read. *)
LEMMA NewTextFits ==
  ASSUME TInv, NEW p \in Proc, At(p, "put")
  PROVE  /\ NewText(p) \in SUBSET Id
         /\ Matches(p) => Cardinality(NewText(p)) <= Budget
<1> DEFINE kept == run[p].todo \ run[p].plan.removes
           adds == run[p].plan.adds \ kept
<1>1. kept \in SUBSET Id /\ adds \in SUBSET Id
      BY RunParts DEF TInv
<1>2. NewText(p) = kept \cup Fitting(kept, adds)
      BY DEF NewText
<1>3. NewText(p) \in SUBSET Id
      BY <1>1, <1>2 DEF Fitting
<1>4. ASSUME Matches(p) PROVE Cardinality(kept) <= Budget
  <2>1. run[p].todo = doc /\ Cardinality(doc) <= Budget /\ doc \in SUBSET Id
        BY <1>4 DEF TInv, FreshIsCurrent, TypeOK, Matches
  <2>2. IsFiniteSet(doc) /\ kept \in SUBSET doc
        BY <2>1, IdAssumption, FS_Subset
  <2>3. Cardinality(kept) <= Cardinality(doc)
        BY <2>2, FS_Subset
  <2>4. Cardinality(kept) \in Nat /\ Cardinality(doc) \in Nat
        BY <2>2, FS_Subset, FS_CardinalityType
  <2> HIDE DEF kept
  <2> QED BY <2>1, <2>3, <2>4, BoundAssumption
<1> HIDE DEF kept, adds
<1> QED BY <1>1, <1>2, <1>3, <1>4, FittingFits

LEMMA PlanningTypes ==
  ASSUME TInv, NEW p \in Proc, Refresh(p) \/ NotDue(p) \/ ReadLists(p) \/ Planning(p)
  PROVE  TInv'
<1>1. CASE Refresh(p)
  <2> DEFINE r == [NoRun EXCEPT !.at = "seen", !.seen = doc]
  <2>1. r \in Runs /\ ~r.fresh
        BY NoRunType DEF TInv, TypeOK, Runs, NoRun
  <2>2. Set(p, r)
        BY <1>1 DEF Refresh
  <2>3. run' \in [Proc -> Runs] /\ FreshIsCurrent'
    <3> HIDE DEF r
    <3> QED BY <1>1, <2>1, <2>2, SetKeeps DEF Refresh
  <2> QED BY <1>1, <2>3 DEF Refresh, TInv, TypeOK
<1>2. CASE Start(p)
  <2>1. run' \in [Proc -> Runs] /\ FreshIsCurrent'
    <3>1. CASE Set(p, NoRun)
          BY <1>2, <3>1, NoRunType, SetKeeps DEF Start, NoRun
    <3>2. CASE Planned(p, run[p].want, row, run[p].seen)
          BY <1>2, <3>2, RunParts, PlannedKeeps DEF Start, TInv, TypeOK
    <3> QED BY <1>2, <3>1, <3>2 DEF Start
  <2> QED BY <1>2, <2>1 DEF Start, TInv, TypeOK
<1>3. CASE StartFromCopy(p)
  <2>1. run' \in [Proc -> Runs] /\ FreshIsCurrent'
    <3>1. CASE Set(p, NoRun)
          BY <1>3, <3>1, NoRunType, SetKeeps DEF StartFromCopy, NoRun
    <3>2. CASE Set(p, [run[p] EXCEPT !.at = "look", !.rows = row])
      <4> DEFINE r == [run[p] EXCEPT !.at = "look", !.rows = row]
      <4>1. ~run[p].fresh
            BY <1>3 DEF StartFromCopy, TInv, FreshIsCurrent, At
      <4>2. r \in Runs /\ ~r.fresh
            BY <4>1, RunParts, ZenonT(60) DEF TInv, TypeOK, Runs
      <4> HIDE DEF r
      <4> QED BY <1>3, <3>2, <4>2, SetKeeps DEF StartFromCopy, r
    <3> QED BY <1>3, <3>1, <3>2 DEF StartFromCopy
  <2> QED BY <1>3, <2>1 DEF StartFromCopy, TInv, TypeOK
<1>4. CASE Look(p)
  <2>1. run' \in [Proc -> Runs] /\ FreshIsCurrent'
        BY <1>4, RunParts, PlannedKeeps DEF Look, TInv, TypeOK
  <2> QED BY <1>4, <2>1 DEF Look, TInv, TypeOK
<1>5. ASSUME NEW way \in Ways, Claim(p, way) PROVE TInv'
  <2> DEFINE all == run[p].plan.adds \cup run[p].plan.removes
  <2>1. PICK r : /\ Set(p, r)
                 /\ r \in {[run[p] EXCEPT !.at = "record"], [run[p] EXCEPT !.at = "read"],
                           [run[p] EXCEPT !.at = "each", !.todo = all],
                           [run[p] EXCEPT !.at = "record", !.failed = all]}
        BY <1>5 DEF Claim, Ways
  <2>2. ~run[p].fresh
        BY <1>5 DEF Claim, TInv, FreshIsCurrent, At
  <2>3. r \in Runs /\ ~r.fresh
    <3> DEFINE Fine(x) == x \in Runs /\ ~x.fresh
    <3>1. run[p] \in Runs /\ ~run[p].fresh /\ all \in SUBSET Id
          BY <2>2, RunParts DEF TInv
    <3>2. Fine([run[p] EXCEPT !.at = "record"]) /\ Fine([run[p] EXCEPT !.at = "read"])
          BY <3>1 DEF Runs
    <3>3. Fine([run[p] EXCEPT !.at = "each", !.todo = all])
          BY <3>1 DEF Runs
    <3>4. Fine([run[p] EXCEPT !.at = "record", !.failed = all])
          BY <3>1 DEF Runs
    <3> QED BY <2>1, <3>2, <3>3, <3>4
  <2>4. run' \in [Proc -> Runs] /\ FreshIsCurrent'
        BY <1>5, <2>1, <2>3, SetKeeps DEF Claim
  <2>5. row' \in [Id -> States]
        BY <1>5 DEF Claim, Claimed, TInv, TypeOK, States
  <2> QED BY <1>5, <2>4, <2>5 DEF Claim, TInv, TypeOK
<1>6. CASE NotDue(p)
  <2>1. run' \in [Proc -> Runs] /\ FreshIsCurrent'
        BY <1>6, NoRunType, SetKeeps DEF NotDue, NoRun
  <2> QED BY <1>6, <2>1 DEF NotDue, TInv, TypeOK
<1>7. CASE ReadLists(p)
  <2>1. PICK at \in {"given", "lists"} : Set(p, [run[p] EXCEPT !.at = at, !.want = wanted])
        BY <1>7 DEF ReadLists
  <2> DEFINE r == [run[p] EXCEPT !.at = at, !.want = wanted]
  <2>2. ~run[p].fresh
        BY <1>7 DEF ReadLists, TInv, FreshIsCurrent, At
  <2>3. r \in Runs /\ ~r.fresh
        BY <2>2, RunParts, ZenonT(60) DEF TInv, TypeOK, Runs
  <2>4. Set(p, r)
        BY <2>1
  <2>5. run' \in [Proc -> Runs] /\ FreshIsCurrent'
    <3> HIDE DEF r
    <3> QED BY <1>7, <2>3, <2>4, SetKeeps DEF ReadLists
  <2> QED BY <1>7, <2>5 DEF ReadLists, TInv, TypeOK
<1> QED BY <1>1, <1>2, <1>3, <1>4, <1>5, <1>6, <1>7 DEF Planning

LEMMA WritingTypes ==
  ASSUME TInv, NEW p \in Proc, Writing(p)
  PROVE  TInv'
<1> DEFINE Same == UNCHANGED <<wanted, row, copy, others, edits, calm>>
           Still == UNCHANGED <<doc, placed>>
<1>r. /\ run[p] \in Runs /\ run[p].seen \in SUBSET Id
      /\ run[p].plan.adds \in SUBSET Id /\ run[p].plan.removes \in SUBSET Id
      /\ run[p].todo \in SUBSET Id /\ run[p].done \in SUBSET Id /\ run[p].failed \in SUBSET Id
      BY RunParts DEF TInv
<1>set. ASSUME NEW r \in Runs, Set(p, r), r.fresh => r.at = "put" /\ r.todo = doc, Same, Still
        PROVE  TInv'
  <2>1. run' \in [Proc -> Runs] /\ FreshIsCurrent'
        BY <1>set, SetKeeps
  <2> QED BY <1>set, <2>1 DEF TInv, TypeOK
<1>write. ASSUME NEW r \in Runs, ~r.fresh, NEW ids \in SUBSET Id, Cardinality(ids) <= Budget,
                 Written(p, ids, r), Same
          PROVE  TInv'
  <2>1. /\ run' \in [Proc -> Runs] /\ FreshIsCurrent'
        /\ doc' \in SUBSET Id /\ Cardinality(doc') <= Budget /\ placed' \subseteq doc'
        BY <1>write, WrittenKeeps
  <2> QED BY <1>write, <2>1 DEF TInv, TypeOK
<1>outcome. ASSUME NEW done \in SUBSET Id, NEW failed \in SUBSET Id, NEW seen \in SUBSET Id
            PROVE  /\ Outcome(p, done, failed, seen) \in Runs
                   /\ ~Outcome(p, done, failed, seen).fresh
      BY OutcomeType DEF TInv
<1>stale. ~At(p, "put") => ~run[p].fresh
      BY DEF TInv, FreshIsCurrent
<1>1. CASE ReadDoc(p)
  <2>1. doc \in SUBSET Id
        BY DEF TInv, TypeOK
  <2> DEFINE r == [run[p] EXCEPT !.at = "put", !.todo = doc, !.fresh = TRUE]
  <2>2. r \in Runs /\ r.at = "put" /\ r.todo = doc
        BY <1>r, <2>1 DEF Runs
  <2>3. Set(p, r) /\ Same /\ Still
        BY <1>1 DEF ReadDoc
  <2> HIDE DEF r
  <2> QED BY <1>set, <2>2, <2>3
<1>2. CASE Put(p)
  <2> DEFINE r == AsPlanned(p, NewText(p))
  <2>1. NewText(p) \in SUBSET Id /\ (Matches(p) => Cardinality(NewText(p)) <= Budget)
        BY <1>2, NewTextFits DEF Put
  <2>2. r \in Runs /\ ~r.fresh
        BY <1>r, <1>outcome, <2>1 DEF AsPlanned
  <2>3. Same /\ (\/ Set(p, r) /\ Still
                 \/ Matches(p) /\ Written(p, NewText(p), r))
        BY <1>2 DEF Put
  <2> HIDE DEF r
  <2> QED BY <1>set, <1>write, <2>1, <2>2, <2>3
<1>3. CASE Conflict(p)
  <2>1. ~run[p].fresh /\ Same /\ Still
        BY <1>3 DEF Conflict, Matches
  <2>2. CASE Set(p, [run[p] EXCEPT !.at = "read", !.todo = {}, !.again = TRUE])
    <3>1. /\ [run[p] EXCEPT !.at = "read", !.todo = {}, !.again = TRUE] \in Runs
          /\ ~[run[p] EXCEPT !.at = "read", !.todo = {}, !.again = TRUE].fresh
          BY <1>r, <2>1 DEF Runs
    <3> QED BY <1>set, <2>1, <2>2, <3>1
  <2>3. CASE Set(p, Outcome(p, {}, run[p].plan.adds \cup run[p].plan.removes, run[p].seen))
        BY <1>r, <1>outcome, <1>set, <2>1, <2>3
  <2> QED BY <1>3, <2>2, <2>3 DEF Conflict
<1>4. CASE Refused(p)
  <2>1. /\ Same /\ Still
        /\ Set(p, Outcome(p, {}, run[p].plan.adds \cup run[p].plan.removes, run[p].seen))
        BY <1>4 DEF Refused
  <2> QED BY <1>r, <1>outcome, <1>set, <2>1
<1>5. CASE Unreachable(p)
  <2> DEFINE r == Outcome(p, {}, {}, run[p].seen)
  <2>1. r \in Runs /\ ~r.fresh
        BY <1>r, <1>outcome
  <2>2. Same /\ (\/ Set(p, r) /\ Still
                 \/ At(p, "put") /\ Matches(p) /\ Written(p, NewText(p), r))
        BY <1>5 DEF Unreachable
  <2> HIDE DEF r
  <2> QED BY <1>set, <1>write, <2>1, <2>2, NewTextFits
<1>each. ASSUME NEW i \in NextOne(p)
         PROVE  i \in Id /\ With(p, i, doc) \in SUBSET Id /\ With(p, i, run[p].seen) \in SUBSET Id
  <2>1. i \in Id /\ doc \in SUBSET Id
        BY <1>r DEF NextOne, TInv, TypeOK
  <2> QED BY <1>r, <2>1 DEF With
<1>6. CASE EditOne(p)
  <2>1. PICK i \in NextOne(p) :
           /\ Cardinality(With(p, i, doc)) <= Budget
           /\ Written(p, With(p, i, doc),
                      [run[p] EXCEPT !.todo = @ \ {i}, !.done = @ \cup {i}, !.seen = With(p, i, @)])
        BY <1>6 DEF EditOne
  <2> DEFINE r == [run[p] EXCEPT !.todo = @ \ {i}, !.done = @ \cup {i}, !.seen = With(p, i, @)]
  <2>2. ~run[p].fresh /\ Same
        BY <1>6, <1>stale DEF EditOne, At
  <2>3. r \in Runs /\ ~r.fresh
        BY <1>r, <1>each, <2>2 DEF Runs
  <2>4. Written(p, With(p, i, doc), r)
        BY <2>1
  <2> HIDE DEF r
  <2> QED BY <1>each, <1>write, <2>1, <2>2, <2>3, <2>4
<1>7. CASE RefuseOne(p)
  <2>1. PICK i \in NextOne(p) : Set(p, [run[p] EXCEPT !.todo = @ \ {i}, !.failed = @ \cup {i}])
        BY <1>7 DEF RefuseOne
  <2> DEFINE r == [run[p] EXCEPT !.todo = @ \ {i}, !.failed = @ \cup {i}]
  <2>2. ~run[p].fresh /\ Same /\ Still
        BY <1>7, <1>stale DEF RefuseOne, At
  <2>3. r \in Runs /\ ~r.fresh /\ Set(p, r)
        BY <1>r, <1>each, <2>1, <2>2 DEF Runs
  <2> HIDE DEF r
  <2> QED BY <1>set, <2>2, <2>3
<1>8. CASE LoseOne(p)
  <2> DEFINE r == [run[p] EXCEPT !.at = "record", !.todo = {}]
  <2>1. ~run[p].fresh /\ Same
        BY <1>8, <1>stale DEF LoseOne, At
  <2>2. r \in Runs /\ ~r.fresh
        BY <1>r, <2>1 DEF Runs
  <2>3. PICK i \in NextOne(p) :
           \/ Set(p, r) /\ Still
           \/ Cardinality(With(p, i, doc)) <= Budget /\ Written(p, With(p, i, doc), r)
        BY <1>8 DEF LoseOne
  <2> HIDE DEF r
  <2> QED BY <1>each, <1>set, <1>write, <2>1, <2>2, <2>3
<1>9. CASE AllDone(p)
  <2> DEFINE r == [run[p] EXCEPT !.at = "record"]
  <2>1. ~run[p].fresh /\ Same /\ Still /\ Set(p, r)
        BY <1>9, <1>stale DEF AllDone, At
  <2>2. r \in Runs /\ ~r.fresh
        BY <1>r, <2>1 DEF Runs
  <2> HIDE DEF r
  <2> QED BY <1>set, <2>1, <2>2
<1> QED BY <1>1, <1>2, <1>3, <1>4, <1>5, <1>6, <1>7, <1>8, <1>9 DEF Writing

LEMMA RecordingTypes ==
  ASSUME TInv, NEW p \in Proc, Recording(p) \/ Stop(p)
  PROVE  TInv'
<1>1. CASE Record(p)
  <2> DEFINE r == [NoRun EXCEPT !.at = "copy", !.seen = run[p].seen]
  <2>1. r \in Runs /\ ~r.fresh /\ Set(p, r)
        BY <1>1, NoRunType, RunParts DEF Record, TInv, Runs, NoRun
  <2>2. run' \in [Proc -> Runs] /\ FreshIsCurrent'
    <3> HIDE DEF r
    <3> QED BY <1>1, <2>1, SetKeeps DEF Record
  <2>3. row' \in [Id -> States]
    <3>1. ASSUME NEW i \in Id PROVE Recorded(p, i) \in States
          BY DEF Recorded, States, TInv, TypeOK
    <3> QED BY <1>1, <3>1 DEF Record
  <2> QED BY <1>1, <2>2, <2>3 DEF Record, TInv, TypeOK
<1>2. CASE WriteCopy(p)
  <2>1. run' \in [Proc -> Runs] /\ FreshIsCurrent'
        BY <1>2, NoRunType, SetKeeps DEF WriteCopy, NoRun
  <2>2. copy' \subseteq Id
        BY <1>2, RunParts DEF WriteCopy, TInv
  <2> QED BY <1>2, <2>1, <2>2 DEF WriteCopy, TInv, TypeOK
<1>3. CASE Stop(p)
  <2>1. run' \in [Proc -> Runs] /\ FreshIsCurrent'
        BY <1>3, NoRunType, SetKeeps DEF Stop, NoRun
  <2> QED BY <1>3, <2>1 DEF Stop, TInv, TypeOK
<1> QED BY <1>1, <1>2, <1>3 DEF Recording

LEMMA PeopleTypes ==
  ASSUME TInv,
         EditLists \/ Calm \/ \E i \in Id : HandAdd(i) \/ HandRemove(i) \/ Import(i) \/ WaitEnds(i)
  PROVE  TInv'
<1>edit. Edited => edits' \in 0 .. MaxEdits
      BY BoundAssumption DEF Edited, TInv, TypeOK
<1>outdate. Outdate => /\ run' \in [Proc -> Runs]
                       /\ \A q \in Proc : ~run'[q].fresh
  <2> SUFFICES ASSUME Outdate PROVE run' \in [Proc -> Runs] /\ \A q \in Proc : ~run'[q].fresh
      OBVIOUS
  <2>1. ASSUME NEW q \in Proc
        PROVE  [run[q] EXCEPT !.fresh = FALSE] \in Runs /\ ~[run[q] EXCEPT !.fresh = FALSE].fresh
        BY RunParts DEF TInv, Runs
  <2> QED BY <2>1 DEF Outdate
<1>1. CASE EditLists
      BY <1>1, <1>edit DEF EditLists, TInv, TypeOK, FreshIsCurrent, At
<1>2. CASE Calm
      BY <1>2 DEF Calm, TInv, TypeOK, FreshIsCurrent, At
<1>3. ASSUME NEW i \in Id, HandAdd(i) PROVE TInv'
  <2>1. IsFiniteSet(doc) /\ Cardinality(doc) \in Nat /\ doc \subseteq Id /\ Cardinality(doc) < Budget
        BY <1>3, IdAssumption, FS_Subset, FS_CardinalityType DEF HandAdd, TInv, TypeOK
  <2>2. Cardinality(doc \cup {i}) <= Budget
    <3>1. Cardinality(doc \cup {i}) = Cardinality(doc) + 1
          BY <1>3, <2>1, FS_AddElement DEF HandAdd
    <3> QED BY <2>1, <3>1, BoundAssumption
  <2>3. /\ doc' \subseteq Id /\ Cardinality(doc') <= Budget /\ others' \subseteq Id
        /\ copy' \subseteq Id /\ placed' \subseteq doc'
        BY <1>3, <2>1, <2>2 DEF HandAdd, TInv, TypeOK
  <2> QED BY <1>3, <1>edit, <1>outdate, <2>3 DEF HandAdd, TInv, TypeOK, FreshIsCurrent
<1>4. ASSUME NEW i \in Id, HandRemove(i) PROVE TInv'
  <2>1. IsFiniteSet(doc) /\ Cardinality(doc) \in Nat /\ doc \subseteq Id /\ Cardinality(doc) <= Budget
        BY IdAssumption, FS_Subset, FS_CardinalityType DEF TInv, TypeOK
  <2>2. Cardinality(doc \ {i}) <= Budget
    <3>1. Cardinality(doc \ {i}) <= Cardinality(doc) /\ Cardinality(doc \ {i}) \in Nat
          BY <2>1, FS_Subset, FS_CardinalityType
    <3> QED BY <2>1, <3>1, BoundAssumption
  <2>3. /\ doc' \subseteq Id /\ Cardinality(doc') <= Budget /\ others' \subseteq Id
        /\ copy' \subseteq Id /\ placed' \subseteq doc'
        BY <1>4, <2>1, <2>2 DEF HandRemove, TInv, TypeOK
  <2> QED BY <1>4, <1>edit, <1>outdate, <2>3 DEF HandRemove, TInv, TypeOK, FreshIsCurrent
<1>5. ASSUME NEW i \in Id, Import(i) PROVE TInv'
  <2>1. wanted' \subseteq Id /\ others' \subseteq Id /\ row' \in [Id -> States]
        BY <1>5 DEF Import, TInv, TypeOK, States
  <2> QED BY <1>5, <1>edit, <2>1 DEF Import, TInv, TypeOK, FreshIsCurrent, At
<1>6. ASSUME NEW i \in Id, WaitEnds(i) PROVE TInv'
  <2>1. row' \in [Id -> States]
        BY <1>6 DEF WaitEnds, TInv, TypeOK, States
  <2> QED BY <1>6, <2>1 DEF WaitEnds, TInv, TypeOK, FreshIsCurrent, At
<1> QED BY <1>1, <1>2, <1>3, <1>4, <1>5, <1>6

LEMMA TypeStep == TInv /\ [Next]_vars => TInv'
<1> SUFFICES ASSUME TInv, [Next]_vars PROVE TInv'
    OBVIOUS
<1>1. CASE UNCHANGED vars
      BY <1>1 DEF vars, TInv, TypeOK, FreshIsCurrent, At
<1> QED BY <1>1, PlanningTypes, WritingTypes, RecordingTypes, PeopleTypes DEF Next

(* lists-sync.ts: whoever syncs the server, however many processes and     *)
(* people at once, the document never gets more ids than its budget, and   *)
(* every variable keeps its type.                                          *)
THEOREM TypeCorrect == Spec => []TypeOK
<1>1. TInv => TypeOK
      BY DEF TInv
<1> QED BY InitTInv, TypeStep, <1>1, PTL DEF Spec

-----------------------------------------------------------------------------
(* One process: who a slot belongs to *)

Sound(p) == PlanIsManaged(p) /\ DroppedIsGone(p)

LEMMA InitIInv == Init => IInv
<1> SUFFICES ASSUME Init PROVE IInv
    OBVIOUS
<1>1. Managed = {} /\ placed = {} /\ others = doc
      BY DEF Init, Managed
<1>2. ASSUME NEW p \in Proc PROVE PlanIsManaged(p) /\ DroppedIsGone(p)
      BY <1>1 DEF Init, NoRun, NoPlan, PlanIsManaged, DroppedIsGone
<1> QED BY <1>1, <1>2, InitTInv DEF IInv, Slots

(* A run that is over, or only copies what it saw, touches nothing. *)
LEMMA OverIsSound ==
  ASSUME NEW p \in Proc, run'[p].at \in {"idle", "copy"}, run'[p].plan = NoPlan,
         run'[p].done = {}, run'[p].failed = {}, \A i \in Id : run'[p].rows[i] = "none"
  PROVE  Sound(p)'
  BY DEF Sound, PlanIsManaged, DroppedIsGone, NoPlan

(* What is planned by rows that are still the panel's, and a document the  *)
(* panel's slots are in, is sound.                                         *)
LEMMA PlannedIsSound ==
  ASSUME TypeOK, NEW p \in Proc, NEW want \in SUBSET Id, NEW rows, NEW seen, Planned(p, want, rows, seen),
         {i \in Id : rows[i] # "none"} \subseteq Managed, UNCHANGED row,
         placed \subseteq seen, UNCHANGED placed
  PROVE  Sound(p)'
<1> DEFINE plan == PlanSync(want, rows, seen)
<1>1. run'[p] = [NoRun EXCEPT !.at = "claim", !.plan = plan, !.seen = seen]
      BY DEF Planned, Set, TypeOK
<1>2. /\ run'[p].plan = plan /\ run'[p].done = {} /\ run'[p].failed = {} /\ run'[p].at = "claim"
      /\ \A i \in Id : run'[p].rows[i] = "none"
      BY <1>1 DEF NoRun
<1>3. Managed' = Managed
      BY DEF Managed
<1>4. /\ plan.removes \cup plan.confirms \cup plan.deletes \subseteq Managed
      /\ plan.adds \cap (plan.removes \cup plan.deletes) = {}
      /\ placed \cap plan.deletes = {}
  <2> DEFINE managed == {i \in Id : rows[i] # "none"}
  <2>1. /\ plan.adds \subseteq want \ seen
        /\ plan.removes \subseteq (managed \ want) \cap seen
        /\ plan.deletes = (managed \ want) \ seen
        BY DEF PlanSync
  <2>2. plan.confirms \subseteq managed
    <3>1. plan.confirms = {i \in want \cap seen : rows[i] \in {"failed", "waiting"}}
          BY DEF PlanSync
    <3> QED BY <3>1
  <2> HIDE DEF plan
  <2> QED BY <2>1, <2>2
<1> HIDE DEF plan
<1> QED BY <1>2, <1>3, <1>4 DEF Sound, PlanIsManaged, DroppedIsGone

(* The rows only grow, and nothing new is placed: a run that goes on       *)
(* unchanged stays sound.                                                  *)
LEMMA SameIsSound ==
  ASSUME NEW p \in Proc, Sound(p), Managed \subseteq Managed', placed' \subseteq placed,
         \/ run'[p] = run[p]
         \/ TypeOK /\ run'[p] = [run[p] EXCEPT !.fresh = FALSE]
  PROVE  Sound(p)'
<1>1. /\ run'[p].plan = run[p].plan /\ run'[p].rows = run[p].rows /\ run'[p].at = run[p].at
      /\ run'[p].done = run[p].done /\ run'[p].failed = run[p].failed
      /\ run'[p].todo = run[p].todo /\ run'[p].seen = run[p].seen
      BY RunParts DEF Runs
<1> QED BY <1>1 DEF Sound, PlanIsManaged, DroppedIsGone

LEMMA PlanningSlots ==
  ASSUME NEW p, Proc = {p}, IInv, Refresh(p) \/ NotDue(p) \/ ReadLists(p) \/ Planning(p)
  PROVE  Sound(p)' /\ Slots'
<1> USE DEF Managed
<1>p. p \in Proc /\ TypeOK /\ Sound(p) /\ Slots
      BY DEF IInv, TInv, Sound
<1>run. ASSUME NEW r, Set(p, r) PROVE run'[p] = r
      BY <1>p, <1>run DEF Set, TypeOK
<1>1. CASE Refresh(p)
  <2>1. run'[p] = [NoRun EXCEPT !.at = "seen", !.seen = doc]
        BY <1>1, <1>run DEF Refresh
  <2>2. /\ run'[p].plan = NoPlan /\ run'[p].done = {} /\ run'[p].failed = {}
        /\ \A i \in Id : run'[p].rows[i] = "none"
        /\ run'[p].at = "seen" /\ run'[p].seen = doc
        BY <2>1 DEF NoRun
  <2>3. placed' \subseteq doc
        BY <1>1, <1>p DEF Refresh, TypeOK
  <2>4. Sound(p)'
        BY <2>2, <2>3 DEF Sound, PlanIsManaged, DroppedIsGone, NoPlan
  <2> QED BY <1>1, <1>p, <2>4 DEF Refresh, Slots
<1>2. CASE Start(p)
  <2>1. Slots'
        BY <1>2, <1>p DEF Start, Slots
  <2>2. CASE Set(p, NoRun)
        BY <1>p, <1>run, <2>1, <2>2, OverIsSound DEF NoRun
  <2>3. CASE Planned(p, run[p].want, row, run[p].seen)
    <3>1. placed \subseteq run[p].seen /\ UNCHANGED <<row, placed>>
          BY <1>2, <1>p DEF Start, At, Sound, DroppedIsGone
    <3> QED BY <1>p, <2>1, <2>3, <3>1, RunParts, PlannedIsSound
  <2> QED BY <1>2, <2>2, <2>3 DEF Start
<1>going. ASSUME NEW r, run'[p] = r, r.plan = run[p].plan, r.done = run[p].done,
                 r.failed = run[p].failed, r.rows \in {run[p].rows, row},
                 \/ r.at \in {"lists", "look"}
                 \/ r.at = "given" /\ run[p].at = "seen" /\ r.seen = run[p].seen,
                 UNCHANGED <<row, placed, others, doc>>
          PROVE  Sound(p)' /\ Slots'
      BY <1>going, <1>p DEF Sound, PlanIsManaged, DroppedIsGone, Slots
<1>3. CASE StartFromCopy(p)
  <2>1. UNCHANGED <<row, placed, others, doc>>
        BY <1>3 DEF StartFromCopy
  <2>2. CASE Set(p, NoRun)
        BY <1>p, <1>run, <2>1, <2>2, OverIsSound DEF NoRun, Slots
  <2>3. CASE Set(p, [run[p] EXCEPT !.at = "look", !.rows = row])
    <3> DEFINE r == [run[p] EXCEPT !.at = "look", !.rows = row]
    <3>1. /\ r.plan = run[p].plan /\ r.done = run[p].done /\ r.failed = run[p].failed
          /\ r.rows = row /\ r.at = "look"
          BY <1>p, RunParts DEF Runs
    <3>2. run'[p] = r
          BY <1>run, <2>3
    <3> HIDE DEF r
    <3> QED BY <1>going, <2>1, <3>1, <3>2
  <2> QED BY <1>3, <2>2, <2>3 DEF StartFromCopy
<1>4. CASE Look(p)
  <2>1. /\ {i \in Id : run[p].rows[i] # "none"} \subseteq Managed
        /\ placed \subseteq doc
        BY <1>p DEF Sound, PlanIsManaged, TypeOK
  <2>2. Planned(p, run[p].want, run[p].rows, doc) /\ UNCHANGED <<row, placed, others, doc>>
        BY <1>4 DEF Look
  <2>3. Sound(p)'
        BY <1>p, <2>1, <2>2, RunParts, PlannedIsSound
  <2> QED BY <1>p, <2>2, <2>3 DEF Slots
<1>5. ASSUME NEW way \in Ways, Claim(p, way) PROVE Sound(p)' /\ Slots'
  <2> DEFINE adds == run[p].plan.adds
             removes == run[p].plan.removes
  <2>1. /\ run'[p].plan = run[p].plan /\ run'[p].rows = run[p].rows
        /\ run'[p].done = run[p].done
        /\ run'[p].failed \in {run[p].failed, adds \cup removes}
        /\ run'[p].at \in {"record", "read", "each"}
        /\ run'[p].at = "each" => run'[p].todo = adds \cup removes
    <3>1. PICK r : /\ Set(p, r)
                   /\ r \in {[run[p] EXCEPT !.at = "record"], [run[p] EXCEPT !.at = "read"],
                             [run[p] EXCEPT !.at = "each", !.todo = adds \cup removes],
                             [run[p] EXCEPT !.at = "record", !.failed = adds \cup removes]}
          BY <1>5 DEF Claim, Ways
    <3>2. run'[p] = r /\ run[p] \in Runs
          BY <1>p, <1>run, <3>1, RunParts
    <3>3. /\ r.plan = run[p].plan /\ r.rows = run[p].rows /\ r.done = run[p].done
          /\ r.failed \in {run[p].failed, adds \cup removes}
          /\ r.at \in {"record", "read", "each"}
          /\ r.at = "each" => r.todo = adds \cup removes
      <4>1. CASE r = [run[p] EXCEPT !.at = "record"]
            BY <3>2, <4>1 DEF Runs
      <4>2. CASE r = [run[p] EXCEPT !.at = "read"]
            BY <3>2, <4>2 DEF Runs
      <4>3. CASE r = [run[p] EXCEPT !.at = "each", !.todo = adds \cup removes]
            BY <3>2, <4>3 DEF Runs
      <4>4. CASE r = [run[p] EXCEPT !.at = "record", !.failed = adds \cup removes]
            BY <3>2, <4>4 DEF Runs
      <4> QED BY <3>1, <4>1, <4>2, <4>3, <4>4
    <3> QED BY <3>2, <3>3
  <2>2. /\ Managed' = Managed \cup adds /\ others' = others \ adds
        /\ UNCHANGED <<doc, placed>>
        BY <1>5, <1>p, RunParts DEF Claim, Claimed, TypeOK
  <2>3. /\ run[p].plan.removes \cup run[p].plan.confirms \cup run[p].plan.deletes \subseteq Managed
        /\ {i \in Id : run[p].rows[i] # "none"} \subseteq Managed
        /\ run[p].done \cup run[p].failed \subseteq adds \cup removes
        /\ adds \cap (removes \cup run[p].plan.deletes) = {}
        /\ placed \cap run[p].plan.deletes = {}
        /\ placed \cap run[p].done \cap removes = {}
        BY <1>p DEF Sound, PlanIsManaged, DroppedIsGone
  <2>4. PlanIsManaged(p)'
    <3> HIDE DEF Managed
    <3> QED BY <2>1, <2>2, <2>3 DEF PlanIsManaged
  <2>5. DroppedIsGone(p)'
        BY <2>1, <2>2, <2>3 DEF DroppedIsGone
  <2>6. Slots'
    <3> HIDE DEF Managed
    <3> QED BY <1>p, <2>2 DEF Slots
  <2> QED BY <2>4, <2>5, <2>6 DEF Sound
<1>6. CASE NotDue(p)
      BY <1>6, <1>p, <1>run, OverIsSound DEF NotDue, NoRun, Slots
<1>7. CASE ReadLists(p)
  <2>1. PICK at : /\ Set(p, [run[p] EXCEPT !.at = at, !.want = wanted])
                  /\ at = "lists" \/ (at = "given" /\ run[p].at = "seen")
        BY <1>7 DEF ReadLists, At
  <2> DEFINE r == [run[p] EXCEPT !.at = at, !.want = wanted]
  <2>2. /\ r.plan = run[p].plan /\ r.done = run[p].done /\ r.failed = run[p].failed
        /\ r.rows = run[p].rows /\ r.at = at /\ r.seen = run[p].seen
        BY <1>p, RunParts DEF Runs
  <2>3. run'[p] = r /\ UNCHANGED <<row, placed, others, doc>>
        BY <1>7, <1>run, <2>1 DEF ReadLists
  <2> HIDE DEF r
  <2> QED BY <1>going, <2>1, <2>2, <2>3
<1> QED BY <1>1, <1>2, <1>3, <1>4, <1>5, <1>6, <1>7 DEF Planning

(* A run that writes stays sound if it places no more than it claimed,     *)
(* leaves the others' slots, and counts as taken back what is gone.        *)
LEMMA StepIsSound ==
  ASSUME NEW p \in Proc, Sound(p), Slots, NEW r, run'[p] = r,
         run[p].at \in {"read", "put", "each", "record"},
         r.at \in {"read", "put", "each", "record"},
         r.plan = run[p].plan, r.rows = run[p].rows,
         r.at = "each" => r.todo \subseteq r.plan.adds \cup r.plan.removes,
         r.done \cup r.failed \subseteq r.plan.adds \cup r.plan.removes,
         r.at = "put" => placed' \subseteq r.todo,
         UNCHANGED <<row, others>>,
         placed' \subseteq placed \cup r.plan.adds,
         others \subseteq doc',
         placed \cap placed' \cap r.done \cap r.plan.removes = {}
  PROVE  Sound(p)' /\ Slots'
<1>1. Managed' = Managed
      BY DEF Managed
<1>2. /\ r.plan.removes \cup r.plan.confirms \cup r.plan.deletes \subseteq Managed
      /\ r.plan.adds \subseteq Managed
      /\ r.plan.adds \cap (r.plan.removes \cup r.plan.deletes) = {}
      /\ {i \in Id : r.rows[i] # "none"} \subseteq Managed
      /\ placed \cap r.plan.deletes = {}
      BY DEF Sound, PlanIsManaged, DroppedIsGone
<1>3. PlanIsManaged(p)'
      BY <1>1, <1>2 DEF PlanIsManaged
<1>4. DroppedIsGone(p)'
      BY <1>2 DEF DroppedIsGone
<1>5. Slots'
      BY <1>1, <1>2 DEF Slots
<1> QED BY <1>3, <1>4, <1>5 DEF Sound

(* throughDocument: the new text takes out what is planned, puts in what   *)
(* was claimed, and leaves the rest of the text that was read.             *)
LEMMA NewTextKeeps ==
  ASSUME NEW p \in Proc, run[p].plan.adds \cap run[p].plan.removes = {}
  PROVE  /\ run[p].todo \ run[p].plan.removes \subseteq NewText(p)
         /\ NewText(p) \subseteq run[p].todo \cup run[p].plan.adds
         /\ NewText(p) \cap run[p].plan.removes = {}
  BY DEF NewText, Fitting

LEMMA WritingSlots ==
  ASSUME NEW p, Proc = {p}, IInv, Writing(p)
  PROVE  Sound(p)' /\ Slots'
<1> DEFINE adds == run[p].plan.adds
           removes == run[p].plan.removes
           Same == UNCHANGED <<row, others>>
           Still == UNCHANGED <<doc, placed>>
<1>p. p \in Proc /\ TInv /\ TypeOK /\ Sound(p) /\ Slots
      BY DEF IInv, TInv, Sound
<1>r. run[p] \in Runs
      BY <1>p, RunParts
<1>run. ASSUME NEW r, Set(p, r) PROVE run'[p] = r
      BY <1>p, <1>run DEF Set, TypeOK
<1>written. ASSUME NEW r, NEW ids, Written(p, ids, r)
            PROVE  run'[p] = r /\ doc' = ids /\ placed' = (placed \cap ids) \cup (ids \ doc)
      BY <1>p, <1>written DEF Written
<1>plan. /\ adds \cap removes = {} /\ removes \subseteq Managed
         /\ run[p].done \cup run[p].failed \subseteq adds \cup removes
         /\ placed \cap run[p].done \cap removes = {}
         /\ others \cap removes = {}
         /\ placed \subseteq doc
      BY <1>p DEF Sound, PlanIsManaged, DroppedIsGone, Slots, TypeOK
<1>outcome. ASSUME NEW done, NEW failed, NEW seen
            PROVE  LET r == Outcome(p, done, failed, seen) IN
                   /\ r.at = "record" /\ r.plan = run[p].plan /\ r.rows = run[p].rows
                   /\ r.done = done /\ r.failed = failed
      BY <1>r DEF Outcome, Runs
<1>1. CASE ReadDoc(p)
  <2> DEFINE r == [run[p] EXCEPT !.at = "put", !.todo = doc, !.fresh = TRUE]
  <2>1. /\ r.at = "put" /\ r.plan = run[p].plan /\ r.rows = run[p].rows
        /\ r.done = run[p].done /\ r.failed = run[p].failed /\ r.todo = doc
        BY <1>r DEF Runs
  <2>2. run'[p] = r /\ run[p].at = "read" /\ Same /\ Still
        BY <1>1, <1>run DEF ReadDoc, At
  <2> HIDE DEF r
  <2> QED BY <1>p, <1>plan, <2>1, <2>2, StepIsSound DEF Slots
<1>2. CASE Put(p)
  <2> DEFINE text == NewText(p)
             r == AsPlanned(p, text)
  <2>1. /\ r.at = "record" /\ r.plan = run[p].plan /\ r.rows = run[p].rows
        /\ r.done = removes \cup (adds \cap text) /\ r.failed = adds \ text
        BY <1>outcome DEF AsPlanned
  <2>2. /\ run[p].todo \ removes \subseteq text /\ text \cap removes = {}
        /\ text \subseteq run[p].todo \cup adds
        BY <1>p, <1>plan, NewTextKeeps
  <2>3. run[p].at = "put" /\ Same /\ placed \subseteq run[p].todo
        BY <1>2, <1>p DEF Put, At, Sound, DroppedIsGone
  <2>4. CASE text = run[p].todo
    <3>1. run'[p] = r /\ Still
          BY <1>2, <1>run, <2>4 DEF Put
    <3> HIDE DEF r, text
    <3> QED BY <1>p, <1>plan, <2>1, <2>2, <2>3, <2>4, <3>1, StepIsSound DEF Slots
  <2>5. CASE text # run[p].todo
    <3>1. Matches(p) /\ Written(p, text, r)
          BY <1>2, <2>5 DEF Put
    <3>2. run[p].todo = doc
          BY <1>p, <3>1 DEF Matches, TInv, FreshIsCurrent
    <3>3. run'[p] = r /\ doc' = text /\ placed' = (placed \cap text) \cup (text \ doc)
          BY <1>written, <3>1
    <3>4. others \subseteq doc'
          BY <1>p, <1>plan, <2>2, <3>2, <3>3 DEF Slots
    <3> HIDE DEF r, text
    <3> QED BY <1>p, <1>plan, <2>1, <2>2, <2>3, <3>2, <3>3, <3>4, StepIsSound
  <2> QED BY <2>4, <2>5
<1>stay. ASSUME NEW r, run'[p] = r, run[p].at \in {"read", "put", "each"},
                r.at \in {"read", "each", "record"}, r.plan = run[p].plan, r.rows = run[p].rows,
                r.at = "each" => r.todo \subseteq adds \cup removes,
                r.done \in {run[p].done, {}}, r.failed \subseteq adds \cup removes,
                Same, Still
         PROVE  Sound(p)' /\ Slots'
      BY <1>stay, <1>p, <1>plan, StepIsSound DEF Slots
<1>3. CASE Conflict(p)
  <2>1. Same /\ Still /\ run[p].at = "put"
        BY <1>3 DEF Conflict, At
  <2>2. CASE Set(p, [run[p] EXCEPT !.at = "read", !.todo = {}, !.again = TRUE])
    <3> DEFINE r == [run[p] EXCEPT !.at = "read", !.todo = {}, !.again = TRUE]
    <3>1. /\ r.at = "read" /\ r.plan = run[p].plan /\ r.rows = run[p].rows
          /\ r.done = run[p].done /\ r.failed = run[p].failed
          BY <1>r DEF Runs
    <3>2. run'[p] = r
          BY <1>run, <2>2
    <3> HIDE DEF r
    <3> QED BY <1>plan, <1>stay, <2>1, <3>1, <3>2
  <2>3. CASE Set(p, Outcome(p, {}, adds \cup removes, run[p].seen))
        BY <1>outcome, <1>run, <1>stay, <2>1, <2>3
  <2> QED BY <1>3, <2>2, <2>3 DEF Conflict
<1>4. CASE Refused(p)
  <2>1. /\ Same /\ Still /\ run[p].at \in {"read", "put"}
        /\ Set(p, Outcome(p, {}, adds \cup removes, run[p].seen))
        BY <1>4 DEF Refused, At
  <2> QED BY <1>outcome, <1>run, <1>stay, <2>1
<1>5. CASE Unreachable(p)
  <2> DEFINE r == Outcome(p, {}, {}, run[p].seen)
  <2>1. Same /\ run[p].at \in {"read", "put"}
        BY <1>5 DEF Unreachable, At
  <2>2. CASE Set(p, r) /\ Still
        BY <1>outcome, <1>run, <1>stay, <2>1, <2>2
  <2>3. CASE At(p, "put") /\ Matches(p) /\ Written(p, NewText(p), r)
    <3>1. /\ r.at = "record" /\ r.plan = run[p].plan /\ r.rows = run[p].rows
          /\ r.done = {} /\ r.failed = {}
          BY <1>outcome
    <3>2. /\ run'[p] = r /\ doc' = NewText(p)
          /\ placed' = (placed \cap NewText(p)) \cup (NewText(p) \ doc)
          BY <1>written, <2>3
    <3>3. run[p].todo = doc
          BY <1>p, <2>3 DEF Matches, TInv, FreshIsCurrent
    <3>4. doc \ removes \subseteq NewText(p) /\ NewText(p) \subseteq doc \cup adds
          BY <1>p, <1>plan, <3>3, NewTextKeeps
    <3>5. others \subseteq doc' /\ placed' \subseteq placed \cup adds
          BY <1>p, <1>plan, <3>2, <3>4 DEF Slots
    <3> HIDE DEF r
    <3> QED BY <1>p, <2>1, <3>1, <3>2, <3>5, StepIsSound
  <2> QED BY <1>5, <2>2, <2>3 DEF Unreachable
<1>each. ASSUME At(p, "each"), NEW i \in NextOne(p)
         PROVE  /\ i \in run[p].todo /\ run[p].todo \subseteq adds \cup removes
                /\ doc \ With(p, i, doc) \subseteq removes
                /\ With(p, i, doc) \ doc \subseteq adds
                /\ i \in removes => i \notin With(p, i, doc)
  <2>1. i \in run[p].todo
        BY DEF NextOne
  <2>2. run[p].todo \subseteq adds \cup removes
        BY <1>p, <1>each DEF At, Sound, PlanIsManaged
  <2> QED BY <2>1, <2>2 DEF With
<1>edit. ASSUME At(p, "each"), NEW i \in NextOne(p), NEW r, Written(p, With(p, i, doc), r), Same,
                r.at \in {"each", "record"}, r.plan = run[p].plan, r.rows = run[p].rows,
                r.todo \subseteq run[p].todo, r.failed = run[p].failed,
                r.done \subseteq run[p].done \cup {i}
         PROVE  Sound(p)' /\ Slots'
  <2> DEFINE ids == With(p, i, doc)
  <2>1. run'[p] = r /\ doc' = ids /\ placed' = (placed \cap ids) \cup (ids \ doc)
        BY <1>edit, <1>written
  <2>2. /\ i \in run[p].todo /\ run[p].todo \subseteq adds \cup removes
        /\ doc \ ids \subseteq removes /\ ids \ doc \subseteq adds /\ (i \in removes => i \notin ids)
        BY <1>edit, <1>each
  <2>3. others \subseteq doc' /\ placed' \subseteq placed \cup adds
        BY <1>p, <1>plan, <2>1, <2>2 DEF Slots
  <2>4. placed \cap placed' \cap r.done \cap removes = {}
        BY <1>edit, <1>plan, <2>1, <2>2
  <2>5. /\ r.done \cup r.failed \subseteq adds \cup removes
        /\ r.todo \subseteq adds \cup removes
        BY <1>edit, <1>plan, <2>2
  <2> HIDE DEF ids
  <2> QED BY <1>p, <1>edit, <2>1, <2>3, <2>4, <2>5, StepIsSound DEF At
<1>6. CASE EditOne(p)
  <2>1. PICK i \in NextOne(p) :
           Written(p, With(p, i, doc),
                   [run[p] EXCEPT !.todo = @ \ {i}, !.done = @ \cup {i}, !.seen = With(p, i, @)])
        BY <1>6 DEF EditOne
  <2> DEFINE r == [run[p] EXCEPT !.todo = @ \ {i}, !.done = @ \cup {i}, !.seen = With(p, i, @)]
  <2>2. At(p, "each") /\ Same
        BY <1>6 DEF EditOne
  <2>3. /\ r.at = "each" /\ r.plan = run[p].plan /\ r.rows = run[p].rows
        /\ r.todo \subseteq run[p].todo /\ r.failed = run[p].failed
        /\ r.done = run[p].done \cup {i}
        BY <1>r, <2>2 DEF Runs, At
  <2>4. Written(p, With(p, i, doc), r)
        BY <2>1
  <2> HIDE DEF r
  <2> QED BY <1>edit, <2>2, <2>3, <2>4
<1>7. CASE RefuseOne(p)
  <2>1. PICK i \in NextOne(p) : Set(p, [run[p] EXCEPT !.todo = @ \ {i}, !.failed = @ \cup {i}])
        BY <1>7 DEF RefuseOne
  <2> DEFINE r == [run[p] EXCEPT !.todo = @ \ {i}, !.failed = @ \cup {i}]
  <2>2. At(p, "each") /\ Same /\ Still /\ run'[p] = r
        BY <1>7, <1>run, <2>1 DEF RefuseOne
  <2>3. /\ r.at = "each" /\ r.plan = run[p].plan /\ r.rows = run[p].rows
        /\ r.todo \subseteq run[p].todo /\ r.failed = run[p].failed \cup {i}
        /\ r.done = run[p].done
        BY <1>r, <2>2 DEF Runs, At
  <2>4. i \in adds \cup removes /\ run[p].todo \subseteq adds \cup removes
        BY <1>each, <2>2
  <2> HIDE DEF r
  <2> QED BY <1>plan, <1>stay, <2>2, <2>3, <2>4 DEF At
<1>8. CASE LoseOne(p)
  <2> DEFINE r == [run[p] EXCEPT !.at = "record", !.todo = {}]
  <2>1. At(p, "each") /\ Same
        BY <1>8 DEF LoseOne
  <2>2. /\ r.at = "record" /\ r.plan = run[p].plan /\ r.rows = run[p].rows
        /\ r.todo = {} /\ r.failed = run[p].failed /\ r.done = run[p].done
        BY <1>r DEF Runs
  <2>3. PICK i \in NextOne(p) : (Set(p, r) /\ Still) \/ Written(p, With(p, i, doc), r)
        BY <1>8 DEF LoseOne
  <2>4. CASE Set(p, r) /\ Still
    <3>1. run'[p] = r
          BY <1>run, <2>4
    <3> HIDE DEF r
    <3> QED BY <1>plan, <1>stay, <2>1, <2>2, <2>4, <3>1 DEF At
  <2>5. CASE Written(p, With(p, i, doc), r)
    <3> HIDE DEF r
    <3> QED BY <1>edit, <2>1, <2>2, <2>5
  <2> QED BY <2>3, <2>4, <2>5
<1>9. CASE AllDone(p)
  <2> DEFINE r == [run[p] EXCEPT !.at = "record"]
  <2>1. At(p, "each") /\ Same /\ Still /\ run'[p] = r
        BY <1>9, <1>run DEF AllDone
  <2>2. /\ r.at = "record" /\ r.plan = run[p].plan /\ r.rows = run[p].rows
        /\ r.failed = run[p].failed /\ r.done = run[p].done
        BY <1>r DEF Runs
  <2> HIDE DEF r
  <2> QED BY <1>plan, <1>stay, <2>1, <2>2 DEF At
<1> QED BY <1>1, <1>2, <1>3, <1>4, <1>5, <1>6, <1>7, <1>8, <1>9 DEF Writing

(* record: the rows it deletes are of slots that are gone, and those it    *)
(* writes were there since the claim.                                      *)
LEMMA RecordingSlots ==
  ASSUME NEW p, Proc = {p}, IInv, Recording(p) \/ Stop(p)
  PROVE  Sound(p)' /\ Slots'
<1>p. p \in Proc /\ TypeOK /\ Sound(p) /\ Slots
      BY DEF IInv, TInv, Sound
<1>1. CASE Record(p)
  <2> DEFINE r == run[p]
             dropped == (r.done \cap r.plan.removes) \cup r.plan.deletes
             written == r.failed \cup r.done \cup r.plan.confirms
  <2>1. run'[p] = [NoRun EXCEPT !.at = "copy", !.seen = run[p].seen]
        BY <1>1, <1>p DEF Record, Set, TypeOK
  <2>2. Sound(p)'
    <3>1. /\ run'[p].at = "copy" /\ run'[p].plan = NoPlan
          /\ run'[p].done = {} /\ run'[p].failed = {}
          /\ \A i \in Id : run'[p].rows[i] = "none"
          BY <2>1 DEF NoRun
    <3> QED BY <1>p, <3>1, OverIsSound
  <2>3. placed \cap dropped = {} /\ written \subseteq Managed
        BY <1>1, <1>p DEF Record, At, Sound, PlanIsManaged, DroppedIsGone
  <2>4. ASSUME NEW i \in Id
        PROVE  Recorded(p, i) # "none" <=> i \in (Managed \cup written) \ dropped
        BY DEF Recorded, Managed
  <2>5. row' = [i \in Id |-> Recorded(p, i)] /\ UNCHANGED <<doc, placed, others>>
        BY <1>1 DEF Record
  <2>6. Managed' = {i \in Id : Recorded(p, i) # "none"}
        BY <2>5 DEF Managed
  <2>7. Managed' = Managed \ dropped
    <3>1. Managed \subseteq Id
          BY DEF Managed
    <3> HIDE DEF dropped, written
    <3> QED BY <2>3, <2>4, <2>6, <3>1
  <2>8. Slots'
    <3> HIDE DEF dropped
    <3> QED BY <1>p, <2>3, <2>5, <2>7 DEF Slots
  <2> QED BY <2>2, <2>8
<1>2. CASE WriteCopy(p) \/ Stop(p)
  <2>1. run'[p] = NoRun /\ UNCHANGED <<row, doc, placed, others>>
        BY <1>2, <1>p DEF WriteCopy, Stop, Set, TypeOK
  <2>2. Sound(p)'
        BY <1>p, <2>1, OverIsSound DEF NoRun
  <2> QED BY <1>p, <2>1, <2>2 DEF Slots, Managed
<1> QED BY <1>1, <1>2 DEF Recording

LEMMA PeopleSlots ==
  ASSUME NEW p, Proc = {p}, IInv,
         EditLists \/ Calm \/ \E i \in Id : HandAdd(i) \/ HandRemove(i) \/ Import(i) \/ WaitEnds(i)
  PROVE  Sound(p)' /\ Slots'
<1>p. p \in Proc /\ TypeOK /\ Sound(p) /\ Slots
      BY DEF IInv, TInv, Sound
<1>outdate. Outdate => run'[p] = [run[p] EXCEPT !.fresh = FALSE]
      BY <1>p DEF Outdate
<1>1. CASE EditLists \/ Calm
  <2>1. run' = run /\ UNCHANGED <<row, doc, placed, others>>
        BY <1>1 DEF EditLists, Calm
  <2> QED BY <1>p, <2>1, SameIsSound DEF Slots, Managed
<1>2. ASSUME NEW i \in Id, HandAdd(i) PROVE Sound(p)' /\ Slots'
  <2>1. /\ UNCHANGED <<row, placed>> /\ Outdate /\ doc' = doc \cup {i}
        /\ others' = IF row[i] = "none" THEN others \cup {i} ELSE others
        BY <1>2 DEF HandAdd
  <2>2. Managed' = Managed /\ (i \in Managed <=> row[i] # "none")
        BY <2>1 DEF Managed
  <2>3. Sound(p)'
        BY <1>p, <1>outdate, <2>1, <2>2, SameIsSound
  <2> QED BY <1>p, <2>1, <2>2, <2>3 DEF Slots
<1>3. ASSUME NEW i \in Id, HandRemove(i) PROVE Sound(p)' /\ Slots'
  <2>1. /\ UNCHANGED row /\ Outdate /\ doc' = doc \ {i}
        /\ placed' = placed \ {i} /\ others' = others \ {i}
        BY <1>3 DEF HandRemove
  <2>2. Managed' = Managed
        BY <2>1 DEF Managed
  <2>3. Sound(p)'
        BY <1>p, <1>outdate, <2>1, <2>2, SameIsSound
  <2> QED BY <1>p, <2>1, <2>2, <2>3 DEF Slots
<1>4. ASSUME NEW i \in Id, Import(i) PROVE Sound(p)' /\ Slots'
  <2>1. /\ UNCHANGED <<doc, run, placed>> /\ others' = others \ {i}
        /\ row' = [row EXCEPT ![i] = "applied"]
        BY <1>4 DEF Import
  <2>2. Managed' = Managed \cup {i}
        BY <1>p, <2>1 DEF Managed, TypeOK
  <2>3. Sound(p)'
        BY <1>p, <2>1, <2>2, SameIsSound
  <2> QED BY <1>p, <2>1, <2>2, <2>3 DEF Slots
<1>5. ASSUME NEW i \in Id, WaitEnds(i) PROVE Sound(p)' /\ Slots'
  <2>1. /\ UNCHANGED <<doc, run, placed, others>>
        /\ row[i] = "waiting" /\ row' = [row EXCEPT ![i] = "failed"]
        BY <1>5 DEF WaitEnds
  <2>2. Managed' = Managed
        BY <1>p, <2>1 DEF Managed, TypeOK
  <2>3. Sound(p)'
        BY <1>p, <2>1, <2>2, SameIsSound
  <2> QED BY <1>p, <2>1, <2>2, <2>3 DEF Slots
<1> QED BY <1>1, <1>2, <1>3, <1>4, <1>5

LEMMA SlotsStep ==
  ASSUME NEW p, Proc = {p}, IInv, [Next]_vars
  PROVE  IInv'
<1>1. TInv'
      BY TypeStep DEF IInv
<1>2. Sound(p)' /\ Slots'
  <2>1. CASE UNCHANGED vars
    <3>1. p \in Proc /\ Sound(p) /\ Slots
          BY DEF IInv, Sound
    <3> QED BY <2>1, <3>1, SameIsSound DEF vars, Slots, Managed
  <2>2. CASE Next
        BY <2>2, PlanningSlots, WritingSlots, RecordingSlots, PeopleSlots DEF Next
  <2> QED BY <2>1, <2>2
<1> QED BY <1>1, <1>2 DEF IInv, Sound

(* The inductive invariant of a server one process syncs.                  *)
THEOREM Invariance ==
  ASSUME NEW p, Proc = {p}
  PROVE  Spec => []IInv
  BY InitIInv, SlotsStep, PTL DEF Spec

(* lists-sync.ts, claim: with one process, a slot the panel placed always  *)
(* has its row, whatever failed and whoever edited: no crash leaves it     *)
(* looking like somebody else's, which nothing would ever remove.          *)
THEOREM PlacedStaysManaged ==
  ASSUME NEW p, Proc = {p}
  PROVE  Spec => []PlacedIsManaged
<1>1. IInv => PlacedIsManaged
      BY DEF IInv, Slots, PlacedIsManaged
<1> QED BY <1>1, Invariance, PTL

(* lists-sync.ts, throughDocument and oneByOne: with one process, a slot   *)
(* somebody else put on the server, and the panel never claimed or         *)
(* imported, survives every write of the sync.                             *)
THEOREM OthersAreKept ==
  ASSUME NEW p, Proc = {p}
  PROVE  Spec => []OthersStay
<1>1. IInv => OthersStay
      BY DEF IInv, Slots, OthersStay
<1> QED BY <1>1, Invariance, PTL
=============================================================================
