--------------------------- MODULE PresenceProofs ---------------------------
(***************************************************************************)
(* Sessions and the memory of them, for any number of processes, players,  *)
(* rows and periods.                                                       *)
(***************************************************************************)
EXTENDS Presence, TLAPS

Owned == lease.period # NoPeriod
Same(S) == \A i, j \in S : i = j

(* A process knows of no period to come, and of the one on only if it has  *)
(* it; its beat and its looks know it from the process.                    *)
Periodic ==
    /\ lease.holder \in Proc => Owned
    /\ \A p \in Proc :
         /\ since[p] <= lease.period /\ epoch[p] <= lease.period /\ look[p].period <= lease.period
         /\ Owned /\ since[p] = lease.period => lease.holder = p
         /\ Owned /\ epoch[p] = lease.period => since[p] = lease.period
         /\ Owned /\ look[p].period = lease.period => since[p] = lease.period

(* A look of the period on is about to be written. *)
Current(p) == Owned /\ look[p].at = "due" /\ look[p].period = lease.period

(* What it will write is still so, unless it went by an old memory:        *)
(* whoever joins has no session, whoever leaves has that one.              *)
DueIsTrue ==
    ~stray => \A p \in Proc :
        Current(p) /\ ~look[p].old =>
            /\ \A x \in look[p].joined : OpenOf(x) = {} /\ look[p].left[x] = NoSession
            /\ \A x \in Player : look[p].left[x] # NoSession => OpenOf(x) = {look[p].left[x]}

(* An old memory does not outlive the beat. *)
OldIsForgotten ==
    \A p \in Proc : Current(p) /\ look[p].old /\ epoch[p] = lease.period => ~mem[p].loaded

IdleLook == \A p \in Proc : look[p].at = "idle" => look[p] = NoLook

IInv == /\ TypeOK /\ OneOpenUnlessStray /\ MemoryIsTheTable
        /\ Periodic /\ DueIsTrue /\ OldIsForgotten /\ IdleLook

-----------------------------------------------------------------------------
(* Types and rows *)

LEMMA Constructed ==
  /\ NoLook \in Looks /\ NoLook.at = "idle" /\ NoLook.period = NoPeriod
  /\ NewPresence \in [loaded : BOOLEAN, open : [Player -> Ids]] /\ ~NewPresence.loaded
  /\ None \in [Player -> Ids]
  BY DEF NoLook, Looks, NewPresence, None, Ids, Periods

LEMMA Parts ==
  ASSUME TypeOK, NEW p \in Proc
  PROVE  /\ mem[p] \in [loaded : BOOLEAN, open : [Player -> Ids]]
         /\ mem[p].open \in [Player -> Ids] /\ mem[p].loaded \in BOOLEAN
         /\ look[p] \in Looks /\ look[p].period \in Periods
         /\ look[p].joined \subseteq Player /\ look[p].left \in [Player -> Ids]
         /\ look[p].old \in BOOLEAN
         /\ since[p] \in Periods /\ epoch[p] \in Periods
         /\ lease \in [holder : Proc \cup {NoProc}, period : Periods]
         /\ {since[p], epoch[p], look[p].period, lease.period} \subseteq Nat
<1>1. Periods \subseteq Nat
      BY PeriodAssumption DEF Periods, NoPeriod
<1> QED BY <1>1 DEF TypeOK, Looks

LEMMA OneOf ==
  ASSUME TypeOK
  PROVE  OneOpenSession <=> \A x \in Player : Same(OpenOf(x))
<1>1. ASSUME OneOpenSession, NEW x \in Player, NEW i \in OpenOf(x), NEW j \in OpenOf(x)
      PROVE  i = j
      BY <1>1, NamesAssumption DEF OneOpenSession, OpenOf
<1>2. ASSUME \A x \in Player : Same(OpenOf(x)),
             NEW i \in Session, NEW j \in Session, row[i] = row[j], row[i] # Nobody
      PROVE  i = j
  <2>1. row[i] \in Player /\ i \in OpenOf(row[i]) /\ j \in OpenOf(row[i])
        BY <1>2 DEF TypeOK, OpenOf
  <2> QED BY <1>2, <2>1 DEF Same
<1> QED BY <1>1, <1>2 DEF OneOpenSession, Same

LEMMA MemoriesTyped ==
  ASSUME IInv, NEW p \in Proc, NEW m \in Memories(p)
  PROVE  m \in [loaded : BOOLEAN, open : [Player -> Ids]] /\ m.loaded
<1>1. CASE mem[p].loaded
      BY <1>1, Parts DEF Memories, IInv
<1>2. CASE ~mem[p].loaded
  <2>1. PICK f \in [Player -> Ids] : m = [loaded |-> TRUE, open |-> f]
        BY <1>2 DEF Memories
  <2> QED BY <2>1
<1> QED BY <1>1, <1>2, Parts DEF IInv

(* What the memory of a look is: the table, if it is the owner's.          *)
LEMMA MemoriesMirror ==
  ASSUME IInv, ~stray, NEW p \in Proc, NEW m \in Memories(p),
         ~mem[p].loaded \/ (lease.holder = p /\ epoch[p] = lease.period)
  PROVE  \A x \in Player : OpenOf(x) = {m.open[x]} \ {NoSession}
<1>1. CASE mem[p].loaded
  <2>1. m = mem[p]
        BY <1>1 DEF Memories
  <2> QED BY <1>1, <2>1 DEF IInv, MemoryIsTheTable
<1>2. CASE ~mem[p].loaded
  <2>1. PICK f \in [Player -> Ids] :
          /\ m = [loaded |-> TRUE, open |-> f]
          /\ \A x \in Player :
                IF OpenOf(x) = {} THEN f[x] = NoSession ELSE f[x] \in OpenOf(x)
        BY <1>2 DEF Memories
  <2>2. ASSUME NEW x \in Player PROVE OpenOf(x) = {f[x]} \ {NoSession}
    <3>1. CASE OpenOf(x) = {}
          BY <2>1, <3>1
    <3>2. CASE OpenOf(x) # {}
      <4>1. f[x] \in OpenOf(x) /\ Same(OpenOf(x))
            BY <2>1, <3>2, OneOf DEF IInv, OneOpenUnlessStray
      <4>2. f[x] # NoSession
            BY <4>1, NamesAssumption DEF OpenOf
      <4> QED BY <4>1, <4>2 DEF Same
    <3> QED BY <3>1, <3>2
  <2> QED BY <2>1, <2>2
<1> QED BY <1>1, <1>2, Parts DEF IInv

(* Rows have owners whatever is opened and closed, and closing opens none. *)
LEMMA RowsTyped ==
  ASSUME TypeOK, NEW left, NEW new, DOMAIN new \subseteq Player, row' = RowAfter(left, new)
  PROVE  /\ row' \in [Session -> Player \cup {Nobody}]
         /\ DOMAIN new = {} => \A i \in Session : row'[i] \in {row[i], Nobody}
<1>1. ASSUME NEW i \in Session PROVE row'[i] \in Player \cup {Nobody}
      BY DEF RowAfter, TypeOK
<1>2. DOMAIN row' = Session /\ row' = [i \in Session |-> row'[i]]
      BY DEF RowAfter
<1>3. ASSUME DOMAIN new = {}, NEW i \in Session PROVE row'[i] \in {row[i], Nobody}
      BY <1>3 DEF RowAfter
<1> QED BY <1>1, <1>2, <1>3

LEMMA ClosedKeepsOne ==
  ASSUME OneOpenUnlessStray, \A i \in Session : row'[i] \in {row[i], Nobody}, stray' = stray
  PROVE  OneOpenUnlessStray'
  BY DEF OneOpenUnlessStray, OneOpenSession

(* Opening and closing sessions that are to be opened and closed leaves    *)
(* every player with the one that was meant.                               *)
LEMMA RowsSaved ==
  ASSUME TypeOK, NEW left \in [Player -> Ids], NEW new,
         DOMAIN new \subseteq Player,
         \A x \in DOMAIN new : new[x] \in Session /\ row[new[x]] = Nobody /\ left[x] = NoSession
                               /\ OpenOf(x) = {},
         \A x, y \in DOMAIN new : new[x] = new[y] => x = y,
         \A x \in Player : left[x] # NoSession => OpenOf(x) = {left[x]},
         row' = RowAfter(left, new)
  PROVE  /\ row' \in [Session -> Player \cup {Nobody}]
         /\ \A x \in Player :
              OpenOf(x)' = IF x \in DOMAIN new THEN {new[x]}
                           ELSE IF left[x] # NoSession THEN {} ELSE OpenOf(x)
<1>1. ASSUME NEW i \in Session
      PROVE  /\ \A x \in DOMAIN new : new[x] = i => row'[i] = x
             /\ (\A x \in DOMAIN new : new[x] # i) =>
                  row'[i] = IF \E x \in Player : left[x] = i THEN Nobody ELSE row[i]
      BY DEF RowAfter
<1>2. row' \in [Session -> Player \cup {Nobody}]
  <2>1. \A i \in Session : row'[i] \in Player \cup {Nobody}
        BY <1>1 DEF TypeOK
  <2> QED BY <2>1 DEF RowAfter
<1>3. ASSUME NEW x \in DOMAIN new PROVE OpenOf(x)' = {new[x]}
  <2>1. ASSUME NEW i \in Session, row'[i] = x PROVE i = new[x]
    <3>1. CASE \E y \in DOMAIN new : new[y] = i
          BY <1>1, <2>1, <3>1
    <3>2. CASE \A y \in DOMAIN new : new[y] # i
      <4>1. row[i] = x
            BY <1>1, <2>1, <3>2, NamesAssumption
      <4> QED BY <4>1 DEF OpenOf
    <3> QED BY <3>1, <3>2
  <2>2. row'[new[x]] = x /\ new[x] \in Session
        BY <1>1
  <2> QED BY <2>1, <2>2 DEF OpenOf
<1>4. ASSUME NEW x \in Player \ DOMAIN new, NEW i \in Session
      PROVE  row'[i] = x <=> row[i] = x /\ left[x] = NoSession
  <2>1. CASE \E y \in DOMAIN new : new[y] = i
        BY <1>1, <2>1, NamesAssumption
  <2>2. CASE (\A y \in DOMAIN new : new[y] # i) /\ \E y \in Player : left[y] = i
    <3>1. PICK y \in Player : left[y] = i
          BY <2>2
    <3>2. row[i] = y /\ i # NoSession
          BY <3>1, NamesAssumption DEF OpenOf
    <3>3. row'[i] = Nobody
          BY <1>1, <2>2
    <3> QED BY <3>1, <3>2, <3>3, NamesAssumption
  <2>3. CASE (\A y \in DOMAIN new : new[y] # i) /\ ~\E y \in Player : left[y] = i
    <3>1. row'[i] = row[i]
          BY <1>1, <2>3
    <3>2. row[i] = x => left[x] = NoSession
      <4> SUFFICES ASSUME row[i] = x, left[x] # NoSession PROVE FALSE
          OBVIOUS
      <4>1. OpenOf(x) = {left[x]} /\ i \in OpenOf(x)
            BY DEF OpenOf
      <4> QED BY <4>1, <2>3
    <3> QED BY <3>1, <3>2
  <2> QED BY <2>1, <2>2, <2>3
<1>5. ASSUME NEW x \in Player \ DOMAIN new
      PROVE  OpenOf(x)' = IF left[x] # NoSession THEN {} ELSE OpenOf(x)
      BY <1>4 DEF OpenOf
<1> QED BY <1>2, <1>3, <1>5

-----------------------------------------------------------------------------
(* The lease *)

LEMMA HandOverStep ==
  ASSUME IInv, NEW p \in Proc, HandOver(p)
  PROVE  IInv'
<1> DEFINE t == lease.period + 1
<1>1. t \in Period /\ lease' = [holder |-> p, period |-> t]
      BY DEF HandOver
<1>2. UNCHANGED <<since, epoch, mem, failures, look, row, online, stray>>
      BY DEF HandOver
<1>3. \A q \in Proc : /\ since[q] # t /\ epoch[q] # t /\ look[q].period # t
                      /\ since[q] <= t /\ epoch[q] <= t /\ look[q].period <= t
      BY Parts DEF IInv, Periodic
<1>4. TypeOK'
      BY <1>1, <1>2 DEF IInv, TypeOK, Periods
<1>5. lease'.period = t /\ t # NoPeriod
      BY <1>1, PeriodAssumption DEF NoPeriod
<1> HIDE DEF t
<1>6. Periodic'
      BY <1>1, <1>2, <1>3, <1>5, NamesAssumption DEF Periodic, Owned
<1>7. MemoryIsTheTable' /\ DueIsTrue' /\ OldIsForgotten'
      BY <1>2, <1>3, <1>5 DEF MemoryIsTheTable, DueIsTrue, OldIsForgotten, Current
<1>8. OneOpenUnlessStray' /\ IdleLook'
      BY <1>2 DEF IInv, OneOpenUnlessStray, OneOpenSession, IdleLook
<1> QED BY <1>4, <1>6, <1>7, <1>8 DEF IInv

LEMMA LearnStep ==
  ASSUME IInv, NEW p \in Proc, Learn(p)
  PROVE  IInv'
<1>1. /\ since' = [since EXCEPT ![p] = lease.period] /\ lease.holder = p
      /\ UNCHANGED <<lease, epoch, mem, failures, look, row, online, stray>>
      BY DEF Learn
<1>2. TypeOK'
      BY <1>1, Parts DEF IInv, TypeOK
<1>3. lease.period <= lease.period
      BY Parts DEF IInv
<1>4. Periodic'
      BY <1>1, <1>3 DEF IInv, TypeOK, Periodic, Owned
<1>5. /\ OneOpenUnlessStray' /\ IdleLook' /\ MemoryIsTheTable' /\ DueIsTrue' /\ OldIsForgotten'
      BY <1>1 DEF IInv, OneOpenUnlessStray, OneOpenSession, IdleLook, MemoryIsTheTable, DueIsTrue,
                  OldIsForgotten, Current, OpenOf, Owned
<1> QED BY <1>2, <1>4, <1>5 DEF IInv

LEMMA BeatStep ==
  ASSUME IInv, NEW p \in Proc, Beat(p)
  PROVE  IInv'
<1>1. /\ epoch' = [epoch EXCEPT ![p] = since[p]]
      /\ mem' = [mem EXCEPT ![p] = NewPresence]
      /\ UNCHANGED <<lease, since, failures, look, row, online, stray>>
      BY DEF Beat
<1>2. TypeOK'
      BY <1>1, Constructed, Parts DEF IInv, TypeOK
<1>3. Periodic'
      BY <1>1 DEF IInv, TypeOK, Periodic, Owned
<1>4. ~mem'[p].loaded /\ \A q \in Proc \ {p} : mem'[q] = mem[q] /\ epoch'[q] = epoch[q]
      BY <1>1, Constructed DEF IInv, TypeOK
<1>5. MemoryIsTheTable'
      BY <1>1, <1>4 DEF IInv, MemoryIsTheTable, OpenOf
<1>6. DueIsTrue'
      BY <1>1 DEF IInv, DueIsTrue, Current, Owned, OpenOf
<1>7. OldIsForgotten'
      BY <1>1, <1>4 DEF IInv, OldIsForgotten, Current, Owned
<1>8. OneOpenUnlessStray' /\ IdleLook'
      BY <1>1 DEF IInv, OneOpenUnlessStray, OneOpenSession, IdleLook
<1> QED BY <1>2, <1>3, <1>5, <1>6, <1>7, <1>8 DEF IInv

LEMMA RestartStep ==
  ASSUME IInv, NEW p \in Proc, Restart(p)
  PROVE  IInv'
<1>1. /\ lease'.period = lease.period
      /\ lease'.holder = IF lease.holder = p THEN NoProc ELSE lease.holder
      /\ lease' \in [holder : Proc \cup {NoProc}, period : Periods]
      BY Parts DEF Restart, IInv
<1>2. /\ since' = [since EXCEPT ![p] = NoPeriod] /\ epoch' = [epoch EXCEPT ![p] = NoPeriod]
      /\ mem' = [mem EXCEPT ![p] = NewPresence] /\ failures' = [failures EXCEPT ![p] = 0]
      /\ look' = [look EXCEPT ![p] = NoLook] /\ UNCHANGED <<row, online, stray>>
      BY DEF Restart
<1>3. 0 \in 0 .. OFFLINE
      BY OfflineAssumption
<1>4. TypeOK'
      BY <1>1, <1>2, <1>3, Constructed DEF IInv, TypeOK, Periods
<1>5. /\ since'[p] = NoPeriod /\ epoch'[p] = NoPeriod /\ look'[p].period = NoPeriod
      /\ look'[p].at = "idle" /\ ~mem'[p].loaded
      /\ \A q \in Proc \ {p} : /\ since'[q] = since[q] /\ epoch'[q] = epoch[q]
                               /\ look'[q] = look[q] /\ mem'[q] = mem[q]
      BY <1>2, Constructed DEF IInv, TypeOK
<1>6. NoPeriod <= lease.period
      BY Parts DEF IInv, NoPeriod
<1>7. Periodic'
      BY <1>1, <1>5, <1>6, NamesAssumption DEF IInv, Periodic, Owned
<1>8. MemoryIsTheTable'
      BY <1>1, <1>2, <1>5, NamesAssumption DEF IInv, MemoryIsTheTable, OpenOf
<1>9. DueIsTrue' /\ OldIsForgotten'
      BY <1>1, <1>2, <1>5 DEF IInv, DueIsTrue, OldIsForgotten, Current, Owned, OpenOf
<1>10. OneOpenUnlessStray' /\ IdleLook'
      BY <1>2 DEF IInv, TypeOK, OneOpenUnlessStray, OneOpenSession, IdleLook
<1> QED BY <1>4, <1>7, <1>8, <1>9, <1>10 DEF IInv

-----------------------------------------------------------------------------
(* A look, up to what it will write *)

LEMMA StartStep ==
  ASSUME IInv, NEW p \in Proc, Start(p)
  PROVE  IInv'
<1>1. /\ look' = [look EXCEPT ![p] = [NoLook EXCEPT !.at = "started", !.period = since[p]]]
      /\ UNCHANGED <<lease, since, epoch, mem, failures, row, online, stray>>
      BY DEF Start
<1>2. look'[p].at = "started" /\ look'[p].period = since[p] /\ look'[p] \in Looks
      BY <1>1, Parts, Constructed DEF IInv, TypeOK, NoLook, Looks
<1>3. \A q \in Proc \ {p} : look'[q] = look[q]
      BY <1>1 DEF IInv, TypeOK
<1>4. TypeOK'
      BY <1>1, <1>2, <1>3 DEF IInv, TypeOK
<1>5. Periodic'
      BY <1>1, <1>2, <1>3 DEF IInv, Periodic, Owned
<1>6. OneOpenUnlessStray' /\ MemoryIsTheTable'
      BY <1>1 DEF IInv, OneOpenUnlessStray, OneOpenSession, MemoryIsTheTable, OpenOf
<1>7. DueIsTrue' /\ OldIsForgotten' /\ IdleLook'
      BY <1>1, <1>2, <1>3 DEF IInv, DueIsTrue, OldIsForgotten, Current, IdleLook, OpenOf, Owned
<1> QED BY <1>4, <1>5, <1>6, <1>7 DEF IInv

LEMMA ListStep ==
  ASSUME IInv, NEW p \in Proc, List(p)
  PROVE  IInv'
<1>1. PICK over \in SUBSET Player : Judge(p, over)
      BY DEF List
<1>2. PICK m \in Memories(p) :
        /\ over \subseteq Has(m.open) \ online
        /\ mem' = [mem EXCEPT ![p] = m]
        /\ look' = [look EXCEPT ![p] =
              [at |-> "due", period |-> @.period, old |-> FromOld(p),
               joined |-> online \ Has(m.open),
               left |-> [x \in Player |-> IF x \in over THEN m.open[x] ELSE NoSession]]]
      BY <1>1 DEF Judge
<1>3. /\ UNCHANGED <<lease, since, epoch, row, online, stray>>
      /\ failures' = [failures EXCEPT ![p] = 0]
      BY <1>1 DEF Judge
<1> DEFINE left == [x \in Player |-> IF x \in over THEN m.open[x] ELSE NoSession]
           joined == online \ Has(m.open)
           old == FromOld(p)
<1>4. m \in [loaded : BOOLEAN, open : [Player -> Ids]] /\ m.loaded
      BY MemoriesTyped
<1>5. left \in [Player -> Ids] /\ joined \subseteq Player /\ old \in BOOLEAN
  <2>1. old \in BOOLEAN
        BY Parts DEF FromOld, IInv
  <2> QED BY <1>4, <2>1 DEF Ids, IInv, TypeOK
<1>6. /\ look'[p] = [at |-> "due", period |-> look[p].period, old |-> old,
                     joined |-> joined, left |-> left]
      /\ look'[p] \in Looks
      /\ \A q \in Proc \ {p} : look'[q] = look[q]
  <2> HIDE DEF left, joined, old
  <2>1. look' = [look EXCEPT ![p] = [at |-> "due", period |-> look[p].period, old |-> old,
                                     joined |-> joined, left |-> left]]
        BY <1>2 DEF left, joined, old
  <2>2. [at |-> "due", period |-> look[p].period, old |-> old, joined |-> joined, left |-> left]
          \in Looks
        BY <1>5, Parts DEF IInv, Looks
  <2> QED BY <2>1, <2>2 DEF IInv, TypeOK
<1>7. TypeOK'
  <2>1. mem' \in [Proc -> [loaded : BOOLEAN, open : [Player -> Ids]]]
        BY <1>2, <1>4 DEF IInv, TypeOK
  <2>2. look' \in [Proc -> Looks]
        BY <1>2, <1>6 DEF IInv, TypeOK
  <2>3. failures' \in [Proc -> 0 .. OFFLINE]
        BY <1>3, OfflineAssumption DEF IInv, TypeOK
  <2> QED BY <1>3, <2>1, <2>2, <2>3 DEF IInv, TypeOK
<1>8. Periodic'
  <2>1. \A q \in Proc : look'[q].period = look[q].period
        BY <1>6
  <2> QED BY <1>3, <2>1 DEF IInv, Periodic, Owned
<1>9. ASSUME ~stray, ~mem[p].loaded \/ (lease.holder = p /\ epoch[p] = lease.period)
      PROVE  \A x \in Player : OpenOf(x) = {m.open[x]} \ {NoSession}
      BY <1>9, MemoriesMirror
<1>10. mem'[p] = m /\ \A q \in Proc \ {p} : mem'[q] = mem[q]
       BY <1>2 DEF IInv, TypeOK
<1>11. MemoryIsTheTable'
       BY <1>3, <1>9, <1>10 DEF IInv, MemoryIsTheTable, OpenOf
<1>12. DueIsTrue'
  <2> SUFFICES ASSUME ~stray, NEW q \in Proc, Current(q)', ~look'[q].old
               PROVE  /\ \A x \in look'[q].joined : OpenOf(x) = {} /\ look'[q].left[x] = NoSession
                      /\ \A x \in Player : look'[q].left[x] # NoSession =>
                            OpenOf(x) = {look'[q].left[x]}
      BY <1>3 DEF DueIsTrue, OpenOf
  <2>1. CASE q # p
        BY <1>3, <1>6, <2>1 DEF IInv, DueIsTrue, Current, Owned
  <2>2. CASE q = p
    <3>1. look[p].period = lease.period /\ Owned
          BY <1>3, <1>6, <2>2 DEF Current, Owned
    <3>2. lease.holder = p
          BY <3>1 DEF IInv, Periodic
    <3>3. ~old
          BY <1>6, <2>2
    <3>4. \A x \in Player : OpenOf(x) = {m.open[x]} \ {NoSession}
          BY <1>9, <3>1, <3>2, <3>3 DEF FromOld
    <3>5. \A x \in joined : OpenOf(x) = {} /\ left[x] = NoSession
          BY <1>2, <1>5, <3>4 DEF Has
    <3>6. \A x \in Player : left[x] # NoSession => OpenOf(x) = {left[x]}
          BY <3>4
    <3> QED BY <1>6, <2>2, <3>5, <3>6
  <2> QED BY <2>1, <2>2
<1>13. OldIsForgotten'
  <2> SUFFICES ASSUME NEW q \in Proc, Current(q)', look'[q].old, epoch[q] = lease.period
               PROVE  ~mem'[q].loaded
      BY <1>3 DEF OldIsForgotten
  <2>1. CASE q # p
        BY <1>3, <1>6, <1>10, <2>1 DEF IInv, OldIsForgotten, Current, Owned
  <2>2. CASE q = p
    <3>1. look[p].period = lease.period
          BY <1>3, <1>6, <2>2 DEF Current
    <3>2. old
          BY <1>6, <2>2
    <3> QED BY <2>2, <3>1, <3>2 DEF FromOld
  <2> QED BY <2>1, <2>2
<1>14. OneOpenUnlessStray' /\ IdleLook'
       BY <1>3, <1>6 DEF IInv, OneOpenUnlessStray, OneOpenSession, IdleLook
<1> QED BY <1>7, <1>8, <1>11, <1>12, <1>13, <1>14 DEF IInv

LEMMA UnreachableStep ==
  ASSUME IInv, NEW p \in Proc, Unreachable(p)
  PROVE  IInv'
<1>1. /\ UNCHANGED <<lease, since, epoch, row, online, stray>>
      /\ failures' = [failures EXCEPT ![p] = IF @ < OFFLINE THEN @ + 1 ELSE @]
      BY DEF Unreachable
<1>2. look' = [look EXCEPT ![p].at = "failed"] \/ look' = [look EXCEPT ![p] = NoLook]
      BY DEF Unreachable
<1>3. mem' = mem \/ mem' = [mem EXCEPT ![p] = NewPresence]
      BY DEF Unreachable
<1>4. /\ look'[p] \in Looks /\ look'[p].at # "due"
      /\ look'[p].period \in {look[p].period, NoPeriod}
      /\ look'[p].at = "idle" => look'[p] = NoLook
      /\ \A q \in Proc \ {p} : look'[q] = look[q]
  <2>1. CASE look' = [look EXCEPT ![p].at = "failed"]
    <3>1. look'[p] = [look[p] EXCEPT !.at = "failed"]
          BY <2>1 DEF IInv, TypeOK
    <3>2. look[p] \in Looks
          BY Parts DEF IInv
    <3>3. look'[p] \in Looks /\ look'[p].at = "failed" /\ look'[p].period = look[p].period
          BY <3>1, <3>2 DEF Looks
    <3>4. \A q \in Proc \ {p} : look'[q] = look[q]
          BY <2>1 DEF IInv, TypeOK
    <3> QED BY <3>3, <3>4
  <2>2. CASE look' = [look EXCEPT ![p] = NoLook]
        BY <2>2, Constructed DEF IInv, TypeOK
  <2> QED BY <1>2, <2>1, <2>2
<1>5. /\ mem' \in [Proc -> [loaded : BOOLEAN, open : [Player -> Ids]]]
      /\ mem'[p] = mem[p] \/ ~mem'[p].loaded
      /\ \A q \in Proc \ {p} : mem'[q] = mem[q]
  <2>1. CASE mem' = mem
        BY <2>1 DEF IInv, TypeOK
  <2>2. CASE mem' = [mem EXCEPT ![p] = NewPresence]
        BY <2>2, Constructed DEF IInv, TypeOK
  <2> QED BY <1>3, <2>1, <2>2
<1>6. TypeOK'
  <2>1. failures' \in [Proc -> 0 .. OFFLINE]
        BY <1>1, OfflineAssumption DEF IInv, TypeOK
  <2>2. look' \in [Proc -> Looks]
        BY <1>2, <1>4 DEF IInv, TypeOK
  <2> QED BY <1>1, <1>5, <2>1, <2>2 DEF IInv, TypeOK
<1>7. Periodic'
  <2>1. NoPeriod <= lease.period /\ \A q \in Proc : look'[q].period \in {look[q].period, NoPeriod}
        BY <1>4, Parts DEF IInv, NoPeriod
  <2> QED BY <1>1, <2>1 DEF IInv, Periodic, Owned
<1>8. MemoryIsTheTable'
      BY <1>1, <1>5 DEF IInv, MemoryIsTheTable, OpenOf
<1>9. DueIsTrue' /\ OldIsForgotten' /\ IdleLook' /\ OneOpenUnlessStray'
  <2>1. \A q \in Proc : Current(q)' => q # p /\ Current(q)
        BY <1>1, <1>4 DEF Current, Owned
  <2>2. DueIsTrue'
        BY <1>1, <1>4, <2>1 DEF IInv, DueIsTrue, OpenOf
  <2>3. OldIsForgotten'
        BY <1>1, <1>4, <1>5, <2>1 DEF IInv, OldIsForgotten
  <2>4. IdleLook' /\ OneOpenUnlessStray'
        BY <1>1, <1>4 DEF IInv, IdleLook, OneOpenUnlessStray, OneOpenSession
  <2> QED BY <2>2, <2>3, <2>4
<1> QED BY <1>6, <1>7, <1>8, <1>9 DEF IInv

-----------------------------------------------------------------------------
(* What it writes *)

(* A look that ends leaves the rest as it was.                             *)
LEMMA LookEnds ==
  ASSUME IInv, NEW p \in Proc, look' = [look EXCEPT ![p] = NoLook], UNCHANGED <<lease, since, epoch>>
  PROVE  /\ look' \in [Proc -> Looks] /\ look'[p] = NoLook
         /\ \A q \in Proc \ {p} : look'[q] = look[q]
         /\ \A q \in Proc : Current(q)' => q # p /\ Current(q)
         /\ IdleLook' /\ Periodic'
<1>1. /\ look' \in [Proc -> Looks] /\ look'[p] = NoLook
      /\ \A q \in Proc \ {p} : look'[q] = look[q]
      BY Constructed DEF IInv, TypeOK
<1>2. IdleLook'
      BY <1>1 DEF IInv, IdleLook
<1>3. Periodic'
  <2>1. NoPeriod <= lease.period /\ \A q \in Proc : look'[q].period \in {look[q].period, NoPeriod}
        BY <1>1, Constructed, Parts DEF IInv, NoPeriod
  <2> QED BY <2>1 DEF IInv, Periodic, Owned
<1>4. \A q \in Proc : Current(q)' => q # p /\ Current(q)
      BY <1>1, Constructed DEF Current, Owned
<1> QED BY <1>1, <1>2, <1>3, <1>4

(* One that writes nothing and keeps its memory or throws it away.         *)
LEMMA QuietEnd ==
  ASSUME IInv, NEW p \in Proc, look' = [look EXCEPT ![p] = NoLook],
         UNCHANGED <<lease, since, epoch, failures, row, online, stray>>,
         mem' \in [Proc -> [loaded : BOOLEAN, open : [Player -> Ids]]],
         mem'[p] = mem[p] \/ ~mem'[p].loaded,
         \A q \in Proc \ {p} : mem'[q] = mem[q]
  PROVE  IInv'
<1>1. \A x \in Player : OpenOf(x)' = OpenOf(x)
      BY DEF OpenOf
<1>2. ASSUME ~stray, NEW q \in Proc, lease.holder = q, epoch[q] = lease.period, mem'[q].loaded
      PROVE  \A x \in Player : OpenOf(x)' = {mem'[q].open[x]} \ {NoSession}
  <2>1. mem'[q] = mem[q]
        BY <1>2
  <2> QED BY <1>1, <1>2, <2>1 DEF IInv, MemoryIsTheTable
<1>3. MemoryIsTheTable'
      BY <1>2 DEF MemoryIsTheTable
<1>4. \A q \in Proc : Current(q)' => q # p /\ Current(q) /\ look'[q] = look[q] /\ mem'[q] = mem[q]
      BY LookEnds
<1>5. DueIsTrue'
  <2>1. \A q \in Proc : look[q].joined \subseteq Player
        BY Parts DEF IInv
  <2> QED BY <1>1, <1>4, <2>1 DEF IInv, DueIsTrue
<1>6. OldIsForgotten'
      BY <1>4 DEF IInv, OldIsForgotten
<1>7. TypeOK'
      BY LookEnds DEF IInv, TypeOK
<1>8. OneOpenUnlessStray'
      BY DEF IInv, OneOpenUnlessStray, OneOpenSession
<1> QED BY <1>3, <1>5, <1>6, <1>7, <1>8, LookEnds DEF IInv

(* The look of the period on is the only one that may write.               *)
LEMMA TheOwner ==
  ASSUME IInv, NEW p \in Proc, MayWrite(p)
  PROVE  /\ Owned /\ lease.holder = p /\ since[p] = lease.period /\ look[p].period = lease.period
         /\ \A q \in Proc \ {p} : since[q] # lease.period /\ epoch[q] # lease.period
                                  /\ look[q].period # lease.period
  BY DEF IInv, MayWrite, Periodic

(* A transaction of its own; where the beat has forgotten, what it leaves  *)
(* in memory is the table, or nothing.                                     *)
LEMMA WriteStep ==
  ASSUME IInv, NEW p \in Proc, MayWrite(p),
         UNCHANGED <<lease, since, epoch, failures, online>>,
         look' = [look EXCEPT ![p] = NoLook],
         stray' \in BOOLEAN,
         row' \in [Session -> Player \cup {Nobody}],
         OneOpenUnlessStray',
         NEW m \in [loaded : BOOLEAN, open : [Player -> Ids]],
         mem' = [mem EXCEPT ![p] = m],
         m.loaded /\ ~stray' /\ epoch[p] = lease.period
            => \A x \in Player : OpenOf(x)' = {m.open[x]} \ {NoSession}
  PROVE  IInv'
<1>1. TypeOK'
      BY LookEnds DEF IInv, TypeOK
<1>2. MemoryIsTheTable'
  <2> SUFFICES ASSUME ~stray', NEW q \in Proc, lease.holder = q, epoch[q] = lease.period,
                      mem'[q].loaded
               PROVE  \A x \in Player : OpenOf(x)' = {mem'[q].open[x]} \ {NoSession}
      BY DEF MemoryIsTheTable
  <2>1. q = p
        BY TheOwner
  <2>2. mem'[q] = m
        BY <2>1 DEF IInv, TypeOK
  <2> QED BY <2>1, <2>2
<1>3. \A q \in Proc : ~Current(q)'
  <2>1. \A q \in Proc \ {p} : ~Current(q)
        BY TheOwner DEF Current
  <2> QED BY <2>1, LookEnds
<1>4. DueIsTrue' /\ OldIsForgotten'
      BY <1>3 DEF DueIsTrue, OldIsForgotten
<1> QED BY <1>1, <1>2, <1>4, LookEnds DEF IInv

(* What a look has due: new rows' ids are free and its own.                *)
LEMMA NewRows ==
  ASSUME NEW joined, NEW new \in NewIds(joined)
  PROVE  /\ DOMAIN new = joined
         /\ \A x \in joined : new[x] \in Session /\ new[x] \notin UsedIds /\ row[new[x]] = Nobody
         /\ \A x, y \in joined : new[x] = new[y] => x = y
  BY DEF NewIds, UsedIds

LEMMA KeptTyped ==
  ASSUME IInv, NEW p \in Proc, NEW new \in NewIds(look[p].joined)
  PROVE  Kept(p, look[p].left, new) \in [loaded : BOOLEAN, open : [Player -> Ids]]
<1>1. OpenAfter(mem[p].open, look[p].left, new) \in [Player -> Ids]
  <2>1. \A x \in Player : (IF x \in DOMAIN new THEN new[x]
             ELSE IF look[p].left[x] # NoSession THEN NoSession ELSE mem[p].open[x]) \in Ids
        BY NewRows, Parts DEF Ids, IInv
  <2> QED BY <2>1 DEF OpenAfter
<1> QED BY <1>1, Constructed DEF Kept

(* What a true look leaves in the table, and in a memory that was true.    *)
LEMMA SavedRows ==
  ASSUME IInv, ~stray, NEW p \in Proc, Current(p), ~look[p].old,
         NEW new \in NewIds(look[p].joined),
         row' = RowAfter(look[p].left, new)
  PROVE  /\ \A x \in Player : Same(OpenOf(x)')
         /\ mem[p].loaded /\ (\A x \in Player : OpenOf(x) = {mem[p].open[x]} \ {NoSession})
              => \A x \in Player :
                   OpenOf(x)' = {Kept(p, look[p].left, new).open[x]} \ {NoSession}
<1> DEFINE left == look[p].left
           joined == look[p].joined
           kept == Kept(p, left, new)
<1>1. left \in [Player -> Ids] /\ joined \subseteq Player
      BY Parts DEF IInv
<1>2. /\ \A x \in joined : OpenOf(x) = {} /\ left[x] = NoSession
      /\ \A x \in Player : left[x] # NoSession => OpenOf(x) = {left[x]}
      BY DEF IInv, DueIsTrue
<1>3. /\ DOMAIN new = joined /\ \A x \in joined : new[x] \in Session /\ row[new[x]] = Nobody
      /\ \A x, y \in joined : new[x] = new[y] => x = y
      BY NewRows
<1>4. \A x \in Player : OpenOf(x)' = IF x \in joined THEN {new[x]}
                                     ELSE IF left[x] # NoSession THEN {} ELSE OpenOf(x)
  <2> HIDE DEF left, joined
  <2>1. row' = RowAfter(left, new)
        BY DEF left
  <2> QED BY <1>1, <1>2, <1>3, <2>1, RowsSaved DEF IInv
<1>5. ASSUME NEW x \in Player PROVE Same(OpenOf(x)')
  <2>1. Same(OpenOf(x))
        BY OneOf DEF IInv, OneOpenUnlessStray
  <2> QED BY <1>4, <2>1 DEF Same
<1>6. ASSUME mem[p].loaded, \A x \in Player : OpenOf(x) = {mem[p].open[x]} \ {NoSession},
             NEW x \in Player
      PROVE  OpenOf(x)' = {kept.open[x]} \ {NoSession}
  <2>1. kept = [loaded |-> TRUE,
                open |-> [y \in Player |-> IF y \in joined THEN new[y]
                            ELSE IF left[y] # NoSession THEN NoSession ELSE mem[p].open[y]]]
        BY <1>3, <1>6 DEF Kept, OpenAfter
  <2>2. x \in joined => new[x] # NoSession
        BY <1>3, NamesAssumption
  <2>3. kept.open[x] = IF x \in joined THEN new[x]
                       ELSE IF left[x] # NoSession THEN NoSession ELSE mem[p].open[x]
        BY <2>1
  <2> HIDE DEF left, joined, kept
  <2> QED BY <1>4, <1>6, <2>2, <2>3
<1> QED BY <1>5, <1>6

(* A look's transaction leaves one session open per player, or the past    *)
(* stray.                                                                  *)
LEMMA LookKeepsOne ==
  ASSUME IInv, NEW p \in Proc, Current(p), NEW new \in NewIds(look[p].joined),
         row' = RowAfter(look[p].left, new), stray' = (stray \/ Strays(p))
  PROVE  /\ row' \in [Session -> Player \cup {Nobody}] /\ stray' \in BOOLEAN
         /\ OneOpenUnlessStray'
<1>1. DOMAIN new = look[p].joined /\ look[p].joined \subseteq Player
      BY NewRows, Parts DEF IInv
<1>2. /\ row' \in [Session -> Player \cup {Nobody}]
      /\ DOMAIN new = {} => \A i \in Session : row'[i] \in {row[i], Nobody}
      BY <1>1, RowsTyped DEF IInv
<1>3. stray' \in BOOLEAN
      BY DEF IInv, TypeOK
<1>4. CASE look[p].joined = {}
  <2>1. stray' = stray
        BY <1>4 DEF Strays, IInv, TypeOK
  <2> QED BY <1>1, <1>2, <1>3, <1>4, <2>1, ClosedKeepsOne DEF IInv
<1>5. CASE stray \/ (look[p].old /\ look[p].joined # {})
      BY <1>2, <1>3, <1>5 DEF Strays, OneOpenUnlessStray
<1>6. CASE ~stray /\ ~look[p].old
  <2>1. \A x \in Player : Same(OpenOf(x)')
        BY <1>6, SavedRows
  <2>2. ASSUME NEW i \in Session, NEW j \in Session, row'[i] = row'[j], row'[i] # Nobody
        PROVE  i = j
    <3>1. row'[i] \in Player /\ i \in {k \in Session : row'[k] = row'[i]}
            /\ j \in {k \in Session : row'[k] = row'[i]}
          BY <1>2, <2>2
    <3> QED BY <2>1, <3>1 DEF Same, OpenOf
  <2>3. OneOpenUnlessStray'
        BY <2>2 DEF OneOpenUnlessStray, OneOpenSession
  <2> QED BY <1>2, <1>3, <2>3
<1> QED BY <1>4, <1>5, <1>6

LEMMA SaveStep ==
  ASSUME IInv, NEW p \in Proc, Save(p)
  PROVE  IInv'
<1> DEFINE new == CHOOSE f \in NewIds(look[p].joined) : TRUE
           kept == Kept(p, look[p].left, new)
<1>1. /\ new \in NewIds(look[p].joined) /\ row' = RowAfter(look[p].left, new)
      /\ mem' = [mem EXCEPT ![p] = kept]
      /\ look' = [look EXCEPT ![p] = NoLook]
      /\ stray' = (stray \/ Strays(p))
      /\ UNCHANGED <<lease, since, epoch, failures, online>> /\ look[p].at = "due"
      BY DEF Save
<1>2. CASE MayWrite(p)
  <2> HIDE DEF new
  <2>1. Current(p)
        BY <1>1, <1>2, TheOwner DEF Current
  <2>2. /\ row' \in [Session -> Player \cup {Nobody}] /\ stray' \in BOOLEAN
        /\ OneOpenUnlessStray'
        BY <1>1, <2>1, LookKeepsOne
  <2>3. kept \in [loaded : BOOLEAN, open : [Player -> Ids]]
        BY <1>1, KeptTyped
  <2>4. ASSUME kept.loaded, ~stray', epoch[p] = lease.period
        PROVE  \A x \in Player : OpenOf(x)' = {kept.open[x]} \ {NoSession}
    <3>1. mem[p].loaded
          BY <2>4, Constructed DEF Kept
    <3>2. ~look[p].old
          BY <2>1, <2>4, <3>1 DEF IInv, OldIsForgotten
    <3>3. ~stray
          BY <1>1, <2>4 DEF IInv, TypeOK
    <3>4. \A x \in Player : OpenOf(x) = {mem[p].open[x]} \ {NoSession}
          BY <1>2, <2>4, <3>1, <3>3, TheOwner DEF IInv, MemoryIsTheTable
    <3> QED BY <1>1, <2>1, <3>1, <3>2, <3>3, <3>4, SavedRows
  <2> HIDE DEF kept
  <2> QED BY <1>1, <1>2, <2>2, <2>3, <2>4, WriteStep
<1>3. CASE look[p].joined = {} /\ Has(look[p].left) = {}
  <2>1. \A x \in Player : look[p].left[x] = NoSession
        BY <1>3 DEF Has
  <2>2. DOMAIN new = {}
        BY <1>1, <1>3 DEF NewIds
  <2>3. row' = row
    <3>1. row' = [i \in Session |-> row[i]]
          BY <1>1, <2>1, <2>2, NamesAssumption DEF RowAfter
    <3> QED BY <3>1 DEF IInv, TypeOK
  <2>4. kept = mem[p] \/ kept = NewPresence
    <3>1. OpenAfter(mem[p].open, look[p].left, new) = mem[p].open
          BY <2>1, <2>2, Parts DEF OpenAfter, IInv
    <3> QED BY <3>1, Parts DEF Kept, IInv
  <2>5. /\ mem' \in [Proc -> [loaded : BOOLEAN, open : [Player -> Ids]]]
        /\ mem'[p] = mem[p] \/ ~mem'[p].loaded
        /\ \A q \in Proc \ {p} : mem'[q] = mem[q]
    <3> HIDE DEF kept
    <3> QED BY <1>1, <2>4, Constructed, Parts DEF IInv, TypeOK
  <2>6. stray' = stray
        BY <1>1, <1>3 DEF Strays, IInv, TypeOK
  <2> QED BY <1>1, <2>3, <2>5, <2>6, QuietEnd
<1> QED BY <1>2, <1>3 DEF Save

LEMMA SaveUnheardStep ==
  ASSUME IInv, NEW p \in Proc, SaveUnheard(p)
  PROVE  IInv'
<1> DEFINE new == CHOOSE f \in NewIds(look[p].joined) : TRUE
<1>1. /\ new \in NewIds(look[p].joined) /\ row' = RowAfter(look[p].left, new)
      /\ mem' = [mem EXCEPT ![p] = NewPresence]
      /\ look' = [look EXCEPT ![p] = NoLook]
      /\ stray' = (stray \/ Strays(p))
      /\ UNCHANGED <<lease, since, epoch, failures, online>> /\ look[p].at = "due" /\ MayWrite(p)
      BY DEF SaveUnheard, Forgotten
<1> HIDE DEF new
<1>2. Current(p)
      BY <1>1, TheOwner DEF Current
<1>3. /\ row' \in [Session -> Player \cup {Nobody}] /\ stray' \in BOOLEAN
      /\ OneOpenUnlessStray'
      BY <1>1, <1>2, LookKeepsOne
<1> QED BY <1>1, <1>3, Constructed, WriteStep

LEMMA CloseAllStep ==
  ASSUME IInv, NEW p \in Proc, CloseAll(p)
  PROVE  IInv'
<1> DEFINE n == [loaded |-> TRUE, open |-> None]
<1>1. PICK m \in Memories(p) : row' = RowAfter(m.open, <<>>)
      BY DEF CloseAll
<1>2. /\ MayWrite(p) /\ look' = [look EXCEPT ![p] = NoLook]
      /\ mem' = [mem EXCEPT ![p] = n]
      /\ UNCHANGED <<lease, since, epoch, failures, online, stray>>
      BY DEF CloseAll
<1>3. DOMAIN <<>> = {}
      OBVIOUS
<1>4. /\ row' \in [Session -> Player \cup {Nobody}]
      /\ OneOpenUnlessStray'
      BY <1>1, <1>2, <1>3, RowsTyped, ClosedKeepsOne DEF IInv
<1>5. ASSUME ~stray, epoch[p] = lease.period
      PROVE  \A x \in Player : OpenOf(x)' = {}
  <2>1. \A x \in Player : OpenOf(x) = {m.open[x]} \ {NoSession}
        BY <1>2, <1>5, MemoriesMirror, TheOwner
  <2>2. m.open \in [Player -> Ids]
        BY MemoriesTyped
  <2>3. \A x \in Player : OpenOf(x)' = IF m.open[x] # NoSession THEN {} ELSE OpenOf(x)
        BY <1>1, <1>3, <2>1, <2>2, RowsSaved DEF IInv
  <2> QED BY <2>1, <2>3
<1>6. n \in [loaded : BOOLEAN, open : [Player -> Ids]] /\ \A x \in Player : n.open[x] = NoSession
      BY Constructed DEF None
<1>7. ~stray' /\ epoch[p] = lease.period => \A x \in Player : OpenOf(x)' = {n.open[x]} \ {NoSession}
      BY <1>2, <1>5, <1>6
<1>8. stray' \in BOOLEAN
      BY <1>2 DEF IInv, TypeOK
<1> HIDE DEF n
<1> QED BY <1>2, <1>4, <1>6, <1>7, <1>8, WriteStep

LEMMA DropStep ==
  ASSUME IInv, NEW p \in Proc, Drop(p)
  PROVE  IInv'
<1>1. /\ mem' = [mem EXCEPT ![p] = NewPresence] /\ look' = [look EXCEPT ![p] = NoLook]
      /\ UNCHANGED <<lease, since, epoch, failures, row, online, stray>>
      BY DEF Drop, Forgotten
<1>2. /\ mem' \in [Proc -> [loaded : BOOLEAN, open : [Player -> Ids]]] /\ ~mem'[p].loaded
      /\ \A q \in Proc \ {p} : mem'[q] = mem[q]
      BY <1>1, Constructed DEF IInv, TypeOK
<1> QED BY <1>1, <1>2, QuietEnd

-----------------------------------------------------------------------------
(* Theorems *)

LEMMA InitIInv == Init => IInv
<1> SUFFICES ASSUME Init PROVE IInv
    OBVIOUS
<1>1. TypeOK
  <2>1. 0 \in 0 .. OFFLINE
        BY OfflineAssumption
  <2> QED BY <2>1, Constructed DEF Init, TypeOK, Periods
<1>2. OneOpenUnlessStray /\ MemoryIsTheTable /\ IdleLook
      BY Constructed DEF Init, OneOpenUnlessStray, OneOpenSession, MemoryIsTheTable, IdleLook
<1>3. Periodic /\ DueIsTrue /\ OldIsForgotten
      BY Constructed, NamesAssumption
         DEF Init, Periodic, DueIsTrue, OldIsForgotten, Current, Owned, NoPeriod
<1> QED BY <1>1, <1>2, <1>3 DEF IInv

LEMMA NextIInv == IInv /\ [Next]_vars => IInv'
<1> SUFFICES ASSUME IInv, [Next]_vars PROVE IInv'
    OBVIOUS
<1>1. ASSUME NEW x \in Player, Come(x) \/ Go(x) PROVE IInv'
      BY <1>1 DEF Come, Go, IInv, TypeOK, OneOpenUnlessStray, OneOpenSession, MemoryIsTheTable,
                  Periodic, DueIsTrue, OldIsForgotten, Current, IdleLook, OpenOf, Owned
<1>2. CASE UNCHANGED vars
      BY <1>2 DEF vars, IInv, TypeOK, OneOpenUnlessStray, OneOpenSession, MemoryIsTheTable,
                  Periodic, DueIsTrue, OldIsForgotten, Current, IdleLook, OpenOf, Owned
<1>3. ASSUME NEW p \in Proc, Look(p) PROVE IInv'
      BY <1>3, StartStep, ListStep, UnreachableStep, SaveStep, SaveUnheardStep, CloseAllStep, DropStep
         DEF Look
<1> QED BY <1>1, <1>2, <1>3, HandOverStep, LearnStep, BeatStep, RestartStep DEF Next

LEMMA Inductive == Spec => []IInv
  BY InitIInv, NextIInv, PTL DEF Spec

(* Whoever looks and writes, types hold: sessions belong to players, and a *)
(* memory to the process it is of.                                         *)
THEOREM TypeCorrect == Spec => []TypeOK
<1>1. IInv => TypeOK
      BY DEF IInv
<1> QED BY Inductive, <1>1, PTL

(* sessions.ts: a player has one open session at most, however often the   *)
(* lease changes hands, looks outlive it or begin before the beat, writes  *)
(* fail, their answers are lost or processes die, unless a look of a new   *)
(* period opened one from what the beat had still to forget.               *)
THEOREM SessionsDoNotOverlap == Spec => []OneOpenUnlessStray
<1>1. IInv => OneOpenUnlessStray
      BY DEF IInv
<1> QED BY Inductive, <1>1, PTL

(* With the same exception, what the holder remembers once its beat has    *)
(* forgotten is the table.                                                 *)
THEOREM MemoryHolds == Spec => []MemoryIsTheTable
<1>1. IInv => MemoryIsTheTable
      BY DEF IInv
<1> QED BY Inductive, <1>1, PTL
=============================================================================
