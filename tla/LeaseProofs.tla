---------------------------- MODULE LeaseProofs ----------------------------
(***************************************************************************)
(* What the worker lease guarantees for any number of processes, renewals  *)
(* on their way, transactions and clock skews.                             *)
(***************************************************************************)
EXTENDS Lease, TLAPS

(* The inductive invariant is small: the row lock does the rest.  No step  *)
(* that moves the lease can happen while a transaction is past its check.  *)
IInv == TypeOK /\ WritersOwnTheRow

USE DEF Periods

(* It holds of a fresh database and processes that just started. *)
LEMMA InitIInv == Init => IInv
  BY ProcAssumption, PeriodAssumption, ClockAssumption, LockAssumption
  DEF Init, IInv, TypeOK, WritersOwnTheRow, Free, Idle, Nobody, Beliefs, Renewals, Works,
      FreshRow, RowOf

(* What the updates the actions make give back. *)
LEMMA RenewalUpdate ==
  ASSUME TypeOK, NEW p \in Proc, NEW i \in Slot, NEW r \in Renewals
  PROVE  [renewal EXCEPT ![p][i] = r] \in [Proc -> [Slot -> Renewals]]
<1> renewal \in [Proc -> [Slot -> Renewals]]
    BY DEF TypeOK
<1>1. [renewal[p] EXCEPT ![i] = r] \in [Slot -> Renewals]
    OBVIOUS
<1>2. [renewal EXCEPT ![p][i] = r] = [renewal EXCEPT ![p] = [renewal[p] EXCEPT ![i] = r]]
    OBVIOUS
<1> QED BY <1>1, <1>2

(* A transaction that moves on only moves on: the rest of its record stays. *)
LEMMA WorkUpdate ==
  ASSUME TypeOK, NEW w \in Work,
         NEW at \in {"idle", "read", "begun", "locked", "checked", "written", "dropped"}
  PROVE  /\ [work EXCEPT ![w] = [@ EXCEPT !.at = at]] \in [Work -> Works]
         /\ [work EXCEPT ![w].at = at] = [work EXCEPT ![w] = [@ EXCEPT !.at = at]]
  BY DEF TypeOK, Works

(* Every variable keeps its type under every action. *)
LEMMA TypeStep == TypeOK /\ [Next]_vars => TypeOK'
<1> SUFFICES ASSUME TypeOK, [Next]_vars PROVE TypeOK'
    OBVIOUS
<1> USE ProcAssumption, PeriodAssumption, ClockAssumption, LockAssumption
<1>free. Free \in Renewals
      BY DEF Free, Renewals
<1>1. ASSUME NEW p \in Proc, NEW i \in Slot, Ask(p, i) PROVE TypeOK'
  <2>1. [at |-> "asked", until |-> LEASE + Skew[p], won |-> FALSE, period |-> NoPeriod] \in Renewals
        BY DEF Renewals
  <2>2. renewal' \in [Proc -> [Slot -> Renewals]]
        BY <1>1, <2>1, RenewalUpdate DEF Ask
  <2> QED BY <1>1, <2>2 DEF Ask, TypeOK
<1>answered. ASSUME NEW p \in Proc, NEW i \in Slot, NEW won \in BOOLEAN, NEW period \in Periods,
                    Answered(p, i, won, period)
             PROVE  renewal' \in [Proc -> [Slot -> Renewals]]
  <2>1. [at |-> "answered", until |-> 0, won |-> won, period |-> period] \in Renewals
        BY DEF Renewals
  <2> QED BY <1>answered, <1>free, <2>1, RenewalUpdate DEF Answered
<1>row. row \in [token : Proc \cup {NoProc}, left : Int, acquiredAt : Periods]
      BY DEF TypeOK
<1>until. ASSUME NEW p \in Proc, NEW i \in Slot PROVE renewal[p][i] \in Renewals
      BY <1>until DEF TypeOK
<1>2. ASSUME NEW p \in Proc, NEW i \in Slot, Renew(p, i) PROVE TypeOK'
  <2>1. renewal' \in [Proc -> [Slot -> Renewals]]
        BY <1>2, <1>answered, <1>row DEF Renew
  <2>2. row' \in [token : Proc \cup {NoProc}, left : Int, acquiredAt : Periods]
        BY <1>2, <1>row, <1>until DEF Renew, Renewals
  <2> QED BY <1>2, <2>1, <2>2 DEF Renew, TypeOK
<1>3. ASSUME NEW p \in Proc, NEW i \in Slot, Take(p, i) PROVE TypeOK'
  <2>1. PICK now \in NewPeriods :
           /\ row' = [token |-> p, left |-> renewal[p][i].until, acquiredAt |-> now]
           /\ Answered(p, i, TRUE, now)
        BY <1>3 DEF Take
  <2>2. now \in Periods
        BY DEF NewPeriods
  <2>3. renewal' \in [Proc -> [Slot -> Renewals]]
        BY <2>1, <2>2, <1>answered
  <2>4. row' \in [token : Proc \cup {NoProc}, left : Int, acquiredAt : Periods]
        BY <2>1, <2>2, <1>until DEF Renewals
  <2> QED BY <1>3, <2>3, <2>4 DEF Take, TypeOK
<1>4. ASSUME NEW p \in Proc, NEW i \in Slot, Refuse(p, i) PROVE TypeOK'
  <2>1. renewal' \in [Proc -> [Slot -> Renewals]]
        BY <1>4, <1>answered DEF Refuse
  <2> QED BY <1>4, <2>1 DEF Refuse, TypeOK
<1>5. ASSUME NEW p \in Proc, NEW i \in Slot, Learn(p, i) PROVE TypeOK'
  <2>1. renewal' \in [Proc -> [Slot -> Renewals]]
        BY <1>5, <1>free, RenewalUpdate DEF Learn
  <2>2. me[p] \in Beliefs /\ renewal[p][i].period \in Periods
        BY <1>until DEF TypeOK, Renewals
  <2>3. /\ [owner |-> TRUE, since |-> renewal[p][i].period, age |-> 0] \in Beliefs
        /\ NotOwner(me[p]) \in Beliefs
        BY <2>2 DEF Beliefs, NotOwner
  <2>4. me' \in [Proc -> Beliefs]
        BY <1>5, <2>3 DEF Learn, TypeOK
  <2> QED BY <1>5, <2>1, <2>4 DEF Learn, TypeOK
<1>6. ASSUME NEW p \in Proc, NEW i \in Slot, Fail(p, i) PROVE TypeOK'
  <2>1. renewal' \in [Proc -> [Slot -> Renewals]]
        BY <1>6, <1>free, RenewalUpdate DEF Fail
  <2> QED BY <1>6, <2>1 DEF Fail, TypeOK
<1>lost. ASSUME NEW p \in Proc PROVE [me EXCEPT ![p] = NotOwner(@)] \in [Proc -> Beliefs]
  <2>1. me[p] \in Beliefs
        BY DEF TypeOK
  <2>2. NotOwner(me[p]) \in Beliefs
        BY <2>1 DEF Beliefs, NotOwner
  <2> QED BY <2>2 DEF TypeOK
<1>7. ASSUME NEW p \in Proc, Shutdown(p) PROVE TypeOK'
  <2>1. CASE Stop(p)
        BY <2>1, <1>lost DEF Stop, TypeOK
  <2>2. CASE Release(p)
    <3>1. row' \in [token : Proc \cup {NoProc}, left : Int, acquiredAt : Periods]
          BY <2>2, <1>row DEF Release
    <3> QED BY <2>2, <3>1 DEF Release, TypeOK
  <2>3. CASE ReleaseFails(p)
        BY <2>3 DEF ReleaseFails, TypeOK
  <2> QED BY <1>7, <2>1, <2>2, <2>3 DEF Shutdown
<1>8. ASSUME NEW p \in Proc, Crash(p) PROVE TypeOK'
  <2>1. Nobody \in Beliefs
        BY DEF Nobody, Beliefs
  <2>2. [i \in Slot |-> IF renewal[p][i].at = "asked" THEN renewal[p][i] ELSE Free]
          \in [Slot -> Renewals]
        BY <1>free, <1>until
  <2>3. renewal' \in [Proc -> [Slot -> Renewals]]
        BY <1>8, <2>2 DEF Crash, TypeOK
  <2>4. work' \in [Work -> Works]
    <3>1. \A w \in Work : /\ work[w] \in Works
                          /\ [work[w] EXCEPT !.at = "dropped"] \in Works
          BY DEF TypeOK, Works
    <3> QED BY <1>8, <3>1 DEF Crash
  <2> QED BY <1>8, <2>1, <2>3, <2>4 DEF Crash, TypeOK
<1>9. ASSUME NEW w \in Work, Transaction(w) PROVE TypeOK'
  <2>1. CASE Read(w)
    <3>1. me[ProcOf[w]].since \in Periods
          BY DEF TypeOK, Beliefs
    <3>2. work' \in [Work -> Works]
          BY <2>1, <3>1 DEF Read, TypeOK, Works
    <3> QED BY <2>1, <3>2 DEF Read, TypeOK
  <2>2. CASE Begin(w)
        BY <2>2, WorkUpdate DEF Begin, TypeOK
  <2>3. CASE Lock(w)
        BY <2>3, WorkUpdate DEF Lock, TypeOK
  <2>4. CASE Lost(w)
    <3>1. me' \in [Proc -> Beliefs]
          BY <2>4, <1>lost DEF Lost
    <3>2. work' \in [Work -> Works]
          BY <2>4, WorkUpdate DEF Lost, End
    <3> QED BY <2>4, <3>1, <3>2 DEF Lost, End, TypeOK
  <2>5. CASE Stale(w)
        BY <2>5, WorkUpdate DEF Stale, End, TypeOK
  <2>6. CASE Check(w)
        BY <2>6, WorkUpdate DEF Check, TypeOK
  <2>7. CASE Commit(w)
        BY <2>7, WorkUpdate DEF Commit, End, TypeOK
  <2>8. CASE Rollback(w)
        BY <2>8, WorkUpdate DEF Rollback, End, TypeOK
  <2> QED BY <1>9, <2>1, <2>2, <2>3, <2>4, <2>5, <2>6, <2>7, <2>8 DEF Transaction
<1>10. CASE PurgeStart \/ PurgeEnd
      BY <1>10 DEF PurgeStart, PurgeEnd, TypeOK
<1>11. CASE Tick
  <2>1. \A n \in Int : Older(n) \in Int
        BY DEF Older
  <2>2. me' \in [Proc -> Beliefs]
    <3> SUFFICES ASSUME NEW p \in Proc
                 PROVE [me[p] EXCEPT !.age = IF @ < LEASE THEN @ + 1 ELSE @] \in Beliefs
        BY <1>11 DEF Tick
    <3> me[p] \in Beliefs
        BY DEF TypeOK
    <3> QED BY DEF Beliefs
  <2>3. renewal' \in [Proc -> [Slot -> Renewals]]
    <3> SUFFICES ASSUME NEW p \in Proc, NEW i \in Slot
                 PROVE [renewal[p][i] EXCEPT !.until = Older(@)] \in Renewals
        BY <1>11, <1>until DEF Tick
    <3> QED BY <1>until, <2>1 DEF Renewals
  <2> QED BY <1>11, <2>1, <2>2, <2>3 DEF Tick, TypeOK
<1>12. CASE UNCHANGED vars
      BY <1>12 DEF vars, TypeOK
<1> QED
    BY <1>1, <1>2, <1>3, <1>4, <1>5, <1>6, <1>7, <1>8, <1>9, <1>10, <1>11, <1>12
    DEF Next, Renewal

(* The row moves only while nobody shares it, and work gets to share it    *)
(* only by finding its own token, and its period, in it.                   *)
LEMMA WritersStep == IInv /\ [Next]_vars => WritersOwnTheRow'
<1> SUFFICES ASSUME TypeOK, WritersOwnTheRow, [Next]_vars,
                    NEW v \in Work, work'[v].at = "checked"
             PROVE  /\ row'.token = ProcOf[v]
                    /\ v \in Dated => row'.acquiredAt = work'[v].period
    BY DEF IInv, WritersOwnTheRow
<1> USE ProcAssumption
<1>was. work \in [Work -> Works] /\ work[v] \in Works
      BY DEF TypeOK
<1>held. ASSUME work[v].at = "checked"
         PROVE  /\ row.token = ProcOf[v] /\ Sharing # {}
                /\ v \in Dated => row.acquiredAt = work[v].period
      BY <1>held DEF WritersOwnTheRow, Sharing
<1>same. ASSUME UNCHANGED <<row, work>>
         PROVE  /\ row'.token = ProcOf[v]
                /\ v \in Dated => row'.acquiredAt = work'[v].period
      BY <1>same, <1>held
<1>1. ASSUME NEW p \in Proc, Renewal(p)
      PROVE  UNCHANGED <<row, work>>
  <2> PICK i \in Slot : \/ Ask(p, i) \/ Renew(p, i) \/ Take(p, i) \/ Refuse(p, i)
                        \/ Learn(p, i) \/ Fail(p, i)
        BY <1>1 DEF Renewal
  <2>1. CASE Ask(p, i) \/ Refuse(p, i) \/ Learn(p, i) \/ Fail(p, i)
        BY <2>1 DEF Ask, Refuse, Learn, Fail
  <2>2. CASE Renew(p, i) \/ Take(p, i)
    <3>1. Sharing = {} /\ work' = work
          BY <2>2 DEF Renew, Take
    <3> QED BY <3>1, <1>held
  <2> QED BY <2>1, <2>2
<1>2. ASSUME NEW p \in Proc, Shutdown(p)
      PROVE  UNCHANGED <<row, work>>
  <2>1. CASE Release(p)
    <3>1. Sharing = {} /\ work' = work
          BY <2>1 DEF Release
    <3> QED BY <3>1, <1>held
  <2>2. CASE Stop(p) \/ ReleaseFails(p)
        BY <2>2 DEF Stop, ReleaseFails
  <2> QED BY <1>2, <2>1, <2>2 DEF Shutdown
<1>3. ASSUME NEW p \in Proc, Crash(p)
      PROVE  UNCHANGED row /\ work'[v] = work[v]
  <2>1. work'[v].at = "dropped" \/ work'[v] = work[v]
        BY <1>3, <1>was DEF Crash, Works
  <2> QED BY <1>3, <2>1 DEF Crash
<1>4. ASSUME NEW w \in Work, Transaction(w)
      PROVE  /\ row'.token = ProcOf[v]
             /\ v \in Dated => row'.acquiredAt = work'[v].period
  <2>row. UNCHANGED row
        BY <1>4 DEF Transaction, Read, Begin, Lock, Lost, Stale, Check, Commit, Rollback
  <2>1. CASE Check(w) /\ v = w
        BY <2>1, <2>row, <1>was DEF Check, Holds, Works
  <2>2. CASE Check(w) /\ v # w
        BY <2>2, <2>row, <1>was, <1>held DEF Check
  <2>3. CASE Lost(w) \/ Stale(w) \/ Commit(w) \/ Rollback(w)
    <3>1. work' = [work EXCEPT ![w] = [@ EXCEPT !.at = "dropped"]] \/
          work' = [work EXCEPT ![w] = [@ EXCEPT !.at = "written"]]
          BY <2>3 DEF Lost, Stale, Commit, Rollback, End
    <3>2. v # w /\ work'[v] = work[v]
          BY <3>1, <1>was DEF Works
    <3> QED BY <3>2, <2>row, <1>held
  <2>4. CASE Read(w) \/ Begin(w) \/ Lock(w)
    <3>1. v # w /\ work'[v] = work[v]
          BY <2>4, <1>was DEF Read, Begin, Lock, Works
    <3> QED BY <3>1, <2>row, <1>held
  <2> QED BY <1>4, <2>1, <2>2, <2>3, <2>4 DEF Transaction
<1>5. CASE PurgeStart \/ PurgeEnd \/ UNCHANGED vars
      BY <1>5, <1>same DEF PurgeStart, PurgeEnd, vars
<1>6. CASE Tick
  <2>1. row'.token = row.token /\ row'.acquiredAt = row.acquiredAt /\ work' = work
        BY <1>6 DEF Tick, TypeOK
  <2> QED BY <2>1, <1>held
<1> QED
    BY <1>1, <1>2, <1>3, <1>4, <1>5, <1>6, <1>same, <1>held DEF Next

(* Whatever the clocks, the number of processes and the answers that are   *)
(* late or lost: the invariant holds in every reachable state.             *)
THEOREM Invariance == Spec => []IInv
<1>1. IInv /\ [Next]_vars => IInv'
      BY TypeStep, WritersStep DEF IInv
<1> QED BY <1>1, InitIInv, PTL DEF Spec

(* leadership.ts: a worker that lost the lease can never write late.  A    *)
(* transaction that writes holds the row with its own token in it, and the *)
(* period it names.                                                        *)
THEOREM LateWritesRefused == Spec => []WritersOwnTheRow
  BY Invariance, PTL DEF IInv

(* Every variable keeps its type. *)
THEOREM TypeCorrect == Spec => []TypeOK
  BY Invariance, PTL DEF IInv

-----------------------------------------------------------------------------
(* The refinement.  The holder is the row's token; a hand-over is the one  *)
(* step that changes it, and the fresh acquired_at is why nothing prepared *)
(* before it becomes valid again when the lease comes back.                *)

Fated == [w \in Work |-> FateOf(w)]

(* Nothing is prepared at first, whoever held the row before. *)
LEMMA RefineInit == Init => OW!Init
  BY ProcAssumption DEF Init, OW!Init, FateOf, Idle, FreshRow, RowOf

(* What work may still do depends on its own record and the row alone. *)
LEMMA FateStep ==
  ASSUME NEW w \in Work, UNCHANGED row, work'[w] = work[w]
  PROVE  FateOf(w)' = FateOf(w)
  BY DEF FateOf, Valid

(* Every step of the lease is a step of OwnedWrites, or changes nothing it sees. *)
LEMMA RefineStep == IInv /\ [Next]_vars => [OW!Next]_(OW!vars)
<1> SUFFICES ASSUME TypeOK, WritersOwnTheRow, [Next]_vars PROVE [OW!Next]_(OW!vars)
    BY DEF IInv
<1> USE ProcAssumption
<1>work. work \in [Work -> Works] /\ \A w \in Work : work[w] \in Works
      BY DEF TypeOK
<1>stutter. ASSUME row'.token = row.token, row'.acquiredAt = row.acquiredAt, UNCHANGED work
            PROVE  UNCHANGED OW!vars
      BY <1>stutter DEF OW!vars, FateOf, Valid
<1>1. ASSUME NEW p \in Proc, NEW i \in Slot, Take(p, i) PROVE OW!HandOver(p)
  <2>1. PICK now \in NewPeriods :
           row' = [token |-> p, left |-> renewal[p][i].until, acquiredAt |-> now]
        BY <1>1 DEF Take
  <2>2. row.token # p /\ UNCHANGED work
        BY <1>1 DEF Take
  <2>3. \A w \in Work : work[w].period # now
        BY DEF NewPeriods, Remembered
  <2>4. ASSUME NEW w \in Work
        PROVE  FateOf(w)' = IF FateOf(w) = "valid" THEN "stale" ELSE FateOf(w)
    <3>1. ~Valid(w)'
          BY <2>1, <2>2, <2>3 DEF Valid
    <3>2. work[w].at \in {"idle", "read", "begun", "locked", "checked", "written", "dropped"}
          BY <1>work DEF Works
    <3> QED BY <3>1, <3>2, <2>2 DEF FateOf
  <2> QED BY <2>1, <2>2, <2>4 DEF OW!HandOver
<1>2. ASSUME NEW p \in Proc, NEW i \in Slot, Renew(p, i) PROVE UNCHANGED OW!vars
  <2>1. row'.token = row.token /\ row'.acquiredAt = row.acquiredAt /\ UNCHANGED work
        BY <1>2 DEF Renew, TypeOK
  <2> QED BY <2>1, <1>stutter
<1>3. ASSUME NEW p \in Proc, NEW i \in Slot,
             Ask(p, i) \/ Refuse(p, i) \/ Learn(p, i) \/ Fail(p, i)
      PROVE  UNCHANGED OW!vars
  <2>1. row' = row /\ UNCHANGED work
        BY <1>3 DEF Ask, Refuse, Learn, Fail
  <2> QED BY <2>1, <1>stutter
<1>4. ASSUME NEW p \in Proc, Shutdown(p) PROVE UNCHANGED OW!vars
  <2>1. row'.token = row.token /\ row'.acquiredAt = row.acquiredAt /\ UNCHANGED work
        BY <1>4 DEF Shutdown, Stop, Release, ReleaseFails, TypeOK
  <2> QED BY <2>1, <1>stutter
<1>5. ASSUME NEW p \in Proc, Crash(p) PROVE OW!Die(p)
  <2>1. row' = row
        BY <1>5 DEF Crash
  <2>2. ASSUME NEW w \in Work
        PROVE  FateOf(w)' = IF ProcOf[w] = p /\ FateOf(w) \in {"valid", "stale"}
                            THEN "dropped" ELSE FateOf(w)
    <3>1. work[w].at \in {"idle", "read", "begun", "locked", "checked", "written", "dropped"}
          BY <1>work DEF Works
    <3>2. CASE ProcOf[w] = p /\ work[w].at \notin {"idle", "written"}
      <4>1. work'[w].at = "dropped"
            BY <3>2, <1>work, <1>5 DEF Crash, Works
      <4> QED BY <4>1, <3>1, <3>2 DEF FateOf
    <3>3. CASE ~(ProcOf[w] = p /\ work[w].at \notin {"idle", "written"})
      <4>1. work'[w] = work[w]
            BY <3>3, <1>5 DEF Crash
      <4>2. FateOf(w)' = FateOf(w)
            BY <4>1, <2>1, FateStep
      <4> QED BY <4>2, <3>1, <3>3 DEF FateOf
    <3> QED BY <3>2, <3>3
  <2> QED BY <2>1, <2>2 DEF OW!Die
<1>6. ASSUME NEW w \in Work, Transaction(w) PROVE [OW!Next]_(OW!vars)
  <2>row. UNCHANGED row
        BY <1>6 DEF Transaction, Read, Begin, Lock, Lost, Stale, Check, Commit, Rollback
  <2>others. ASSUME NEW v \in Work, v # w PROVE FateOf(v)' = FateOf(v)
    <3>1. work'[v] = work[v]
          BY <1>6, <2>others, <1>work
          DEF Transaction, Read, Begin, Lock, Lost, Stale, Check, Commit, Rollback, End
    <3> QED BY <3>1, <2>row, FateStep
  <2>becomes. ASSUME NEW f, FateOf(w)' = f
              PROVE  Fated' = [Fated EXCEPT ![w] = f]
        BY <2>becomes, <2>others DEF Fated
  <2>1. CASE Read(w)
    <3>1. work'[w].at = "read" /\ FateOf(w) \in {"none", "written", "dropped"}
          BY <2>1, <1>work DEF Read, FateOf
    <3>2. FateOf(w)' = IF Valid(w)' THEN "valid" ELSE "stale"
          BY <3>1 DEF FateOf
    <3>3. Valid(w)' => row.token = ProcOf[w]
          BY <2>row DEF Valid
    <3>4. OW!Prepare(w)
          BY <3>1, <3>2, <3>3, <2>becomes, <2>row DEF OW!Prepare, Fated
    <3> QED BY <3>4 DEF OW!Next
  <2>2. ASSUME Open(w) \/ work[w].at = "read", work'[w].at = "dropped"
        PROVE  OW!Next
    <3>1. FateOf(w)' = "dropped" /\ FateOf(w) \in {"valid", "stale"}
          BY <2>2 DEF FateOf, Open
    <3>2. OW!Drop(w)
          BY <3>1, <2>becomes, <2>row DEF OW!Drop, Fated
    <3> QED BY <3>2 DEF OW!Next
  <2>3. ASSUME Open(w) \/ work[w].at = "read",
               work'[w].at \in {"begun", "locked", "checked"}, work'[w].period = work[w].period
        PROVE  UNCHANGED OW!vars
    <3>1. Valid(w)' = Valid(w)
          BY <2>row, <2>3 DEF Valid
    <3>2. FateOf(w)' = FateOf(w)
          BY <3>1, <2>3 DEF FateOf, Open
    <3> QED BY <3>2, <2>others, <2>row DEF OW!vars
  <2>4. CASE Begin(w) \/ Lock(w) \/ Check(w)
    <3>1. /\ Open(w) \/ work[w].at = "read"
          /\ work'[w].period = work[w].period
          /\ work'[w].at \in {"begun", "locked", "checked", "dropped"}
          BY <2>4, <1>work DEF Begin, Lock, Check, Holds, Open, Works
    <3> QED BY <3>1, <2>2, <2>3
  <2>5. CASE Lost(w) \/ Stale(w) \/ Rollback(w)
    <3>1. Open(w) /\ work'[w].at = "dropped"
          BY <2>5, <1>work DEF Lost, Stale, Rollback, Holds, Open, End, Works
    <3> QED BY <3>1, <2>2
  <2>6. CASE Commit(w)
    <3>1. work[w].at = "checked" /\ work'[w].at = "written"
          BY <2>6, <1>work DEF Commit, End, Works
    <3>2. row.token = ProcOf[w] /\ (w \in Dated => Valid(w))
          BY <3>1 DEF WritersOwnTheRow, Valid
    <3>3. FateOf(w)' = "written" /\ FateOf(w) = IF Valid(w) THEN "valid" ELSE "stale"
          BY <3>1 DEF FateOf
    <3>4. OW!Write(w)
          BY <3>2, <3>3, <2>becomes, <2>row DEF OW!Write, Fated
    <3> QED BY <3>4 DEF OW!Next
  <2> QED BY <1>6, <2>1, <2>4, <2>5, <2>6 DEF Transaction
<1>7. CASE PurgeStart \/ PurgeEnd \/ Tick \/ UNCHANGED vars
  <2>1. row'.token = row.token /\ row'.acquiredAt = row.acquiredAt /\ UNCHANGED work
        BY <1>7 DEF PurgeStart, PurgeEnd, Tick, vars, TypeOK
  <2> QED BY <2>1, <1>stutter
<1> QED
    BY <1>1, <1>2, <1>3, <1>4, <1>5, <1>6, <1>7 DEF Next, Renewal, OW!Next

(* The detailed lease implements OwnedWrites: writes come from the holder, *)
(* and dated work is written in the period it was read in or not at all.   *)
THEOREM Refinement == Spec => ImplementsOwnedWrites
<1>1. IInv /\ [Next]_vars => [OW!Next]_(OW!vars)
      BY RefineStep
<1> QED BY <1>1, RefineInit, Invariance, PTL DEF Spec, OW!Spec, ImplementsOwnedWrites
=============================================================================
