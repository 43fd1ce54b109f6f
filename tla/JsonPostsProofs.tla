-------------------------- MODULE JsonPostsProofs --------------------------
(***************************************************************************)
(* What the queue of POSTs keeps for any number of webhooks, POSTs,        *)
(* processes, retries, slots and lost leases.                              *)
(***************************************************************************)
EXTENDS JsonPosts, TLAPS

Hidden == {"absent", "queuing"}

(* A POST in flight is its webhook's; what is older and open then          *)
(* committed late; and what is to be written of it is what was said.       *)
JobSound(p, h) ==
    LET j == job[p][h] IN
    j.at # "none" =>
        /\ j.row \in Of(h) /\ post[j.row].state \notin Hidden
        /\ \A q \in Of(h) : q < j.row /\ post[q].state \in Open => q \in late
        /\ j.at = "note" => j.out \in Answers /\ (j.out = "ok" => heard[j.row] = "ok")
        /\ j.at = "finish" => j.out \in {"skipped", "failed"}

DeliveredWasHeard == \A r \in Post : post[r].state = "delivered" => heard[r] = "ok"

IInv == /\ TypeOK
        /\ \A p \in Proc, h \in Hook : JobSound(p, h)
        /\ DeliveredWasHeard

(* What no step does to the table: end a POST a second time, take one back *)
(* out of sight, or let one in before a younger one unless it is marked.   *)
Evolves ==
    /\ \A r \in Post : post[r].state \in Done => post'[r].state = post[r].state
    /\ \A r \in Post : post[r].state \notin Hidden => post'[r].state \notin Hidden
    /\ \A q \in Post : post'[q].state \in Open /\ post[q].state \notin Open =>
          \A r \in Of(HookOf[q]) : r > q /\ post[r].state \notin Hidden => q \in late'
    /\ late \subseteq late'
    /\ \A r \in Post : heard[r] = "ok" => heard'[r] = "ok"
    /\ DeliveredWasHeard'

-----------------------------------------------------------------------------
(* Types *)

LEMMA InitIInv == Init => IInv
<1> SUFFICES ASSUME Init PROVE IInv
    OBVIOUS
<1>1. NoJob \in Jobs
      BY DEF NoJob, Jobs
<1>2. count \in [lapses : 0 .. MaxLapse, edits : 0 .. MaxEdits]
      BY BoundAssumption DEF Init
<1>3. TypeOK
      BY <1>1, <1>2 DEF Init, TypeOK, Done, Open, Answers
<1> QED BY <1>3 DEF Init, IInv, JobSound, NoJob, DeliveredWasHeard

LEMMA PostParts ==
  ASSUME TypeOK, NEW r \in Post
  PROVE  /\ post[r].state \in Hidden \cup Open \cup Done
         /\ post[r].attempts \in Nat /\ post[r].due \in BOOLEAN /\ post[r].lapsed \in BOOLEAN
         /\ post[r] \in [state : {"absent", "queuing"} \cup Open \cup Done,
                         attempts : Nat, due : BOOLEAN, lapsed : BOOLEAN]
  BY DEF TypeOK, Hidden

LEMMA JobParts ==
  ASSUME TypeOK, NEW p \in Proc, NEW h \in Hook
  PROVE  job[p][h] \in Jobs /\ NoJob \in Jobs
<1>1. NoJob \in Jobs
      BY DEF NoJob, Jobs
<1> QED BY <1>1 DEF TypeOK

LEMMA JobType ==
  ASSUME TypeOK, NEW p \in Proc, NEW h \in Hook, NEW at \in {"none", "takes", "note", "finish"},
         NEW out \in Answers \cup {"none", "failed", "skipped"}
  PROVE  [job[p][h] EXCEPT !.at = at, !.out = out] \in Jobs
  BY JobParts DEF Jobs

(* A job is updated as a whole. *)
LEMMA JobUpdate ==
  ASSUME TypeOK, NEW p \in Proc, NEW h \in Hook, NEW j \in Jobs,
         job' = [job EXCEPT ![p][h] = j]
  PROVE  /\ job' \in [Proc -> [Hook -> Jobs]]
         /\ \A q \in Proc, g \in Hook :
               job'[q][g] = IF q = p /\ g = h THEN j ELSE job[q][g]
<1>1. job \in [Proc -> [Hook -> Jobs]]
      BY DEF TypeOK
<1>2. [job[p] EXCEPT ![h] = j] \in [Hook -> Jobs]
      BY <1>1
<1>3. job' = [job EXCEPT ![p] = [job[p] EXCEPT ![h] = j]]
      BY <1>1
<1> QED BY <1>1, <1>2, <1>3

LEMMA OverUpdate ==
  ASSUME TypeOK, NEW p \in Proc, NEW h \in Hook, Over(p, h)
  PROVE  /\ job' \in [Proc -> [Hook -> Jobs]]
         /\ \A q \in Proc, g \in Hook :
               job'[q][g] = IF q = p /\ g = h THEN NoJob ELSE job[q][g]
  BY JobParts, JobUpdate, ZenonT(60) DEF Over

-----------------------------------------------------------------------------
(* Jobs *)

(* A job that goes on with its POST stays sound through every step the     *)
(* table may make.                                                         *)
LEMMA JobGoesOn ==
  ASSUME IInv, Evolves, NEW p \in Proc, NEW h \in Hook,
         job[p][h].at # "none", job'[p][h].row = job[p][h].row,
         job'[p][h].at = "note" => /\ job'[p][h].out \in Answers
                                   /\ job'[p][h].out = "ok" => heard'[job[p][h].row] = "ok",
         job'[p][h].at = "finish" => job'[p][h].out \in {"skipped", "failed"}
  PROVE  JobSound(p, h)'
<1> DEFINE row == job[p][h].row
<1>1. /\ row \in Of(h) /\ post[row].state \notin Hidden
      /\ \A q \in Of(h) : q < row /\ post[q].state \in Open => q \in late
      BY DEF IInv, JobSound
<1>2. row \in Post /\ Of(h) \subseteq Post
      BY <1>1 DEF Of
<1>3. post'[row].state \notin Hidden
      BY <1>1, <1>2 DEF Evolves
<1>4. ASSUME NEW q \in Of(h), q < row, post'[q].state \in Open PROVE q \in late'
  <2>1. CASE post[q].state \in Open
        BY <1>1, <1>4, <2>1 DEF Evolves
  <2>2. CASE post[q].state \notin Open
    <3>1. row \in Of(HookOf[q]) /\ q \in Post /\ row > q
          BY <1>1, <1>2, <1>4, PostAssumption DEF Of
    <3> QED BY <1>1, <1>4, <2>2, <3>1 DEF Evolves
  <2> QED BY <2>1, <2>2
<1> QED BY <1>1, <1>3, <1>4 DEF JobSound, Of

LEMMA JobsStay ==
  ASSUME IInv, Evolves, NEW p \in Proc, NEW h \in Hook, job'[p][h] = job[p][h]
  PROVE  JobSound(p, h)'
<1>1. CASE job[p][h].at = "none"
      BY <1>1 DEF JobSound
<1>2. CASE job[p][h].at # "none"
  <2>1. /\ job[p][h].row \in Post
        /\ job[p][h].at = "note" => /\ job[p][h].out \in Answers
                                    /\ job[p][h].out = "ok" => heard'[job[p][h].row] = "ok"
        /\ job[p][h].at = "finish" => job[p][h].out \in {"skipped", "failed"}
        BY <1>2 DEF IInv, JobSound, Evolves, Of
  <2> QED BY <1>2, <2>1, JobGoesOn
<1> QED BY <1>1, <1>2

(* A step that leaves the table as it is. *)
LEMMA SameTable ==
  ASSUME IInv, UNCHANGED <<post, late>>,
         \A r \in Post : heard[r] = "ok" => heard'[r] = "ok"
  PROVE  Evolves
  BY DEF IInv, Evolves, DeliveredWasHeard

(* A step that only ends POSTs, or moves open ones on, and calls none      *)
(* delivered that was not heard of.                                        *)
LEMMA Settles ==
  ASSUME IInv, UNCHANGED <<late, heard>>,
         \A r \in Post : \/ post'[r].state = post[r].state
                         \/ /\ post[r].state \in Open /\ post'[r].state \in Open \cup Done
                            /\ post'[r].state = "delivered" => heard[r] = "ok"
  PROVE  Evolves
<1>1. Done \cap Open = {} /\ Hidden \cap Open = {} /\ Hidden \cap Done = {}
      BY DEF Done, Open, Hidden
<1> QED BY <1>1 DEF IInv, Evolves, DeliveredWasHeard

LEMMA QueueingStep ==
  ASSUME IInv, NEW r \in Post,
         QueueEvent(r) \/ Commit(r) \/ LeaseRunsOut(r) \/ ComesDue(r)
  PROVE  TypeOK' /\ Evolves /\ UNCHANGED <<job, heard>>
<1>t. TypeOK
      BY DEF IInv
<1>1. CASE QueueEvent(r)
  <2>1. /\ post[r].state = "absent" /\ UNCHANGED <<late, heard, job>>
        /\ \A q \in Post : post'[q].state = IF q = r THEN "queuing" ELSE post[q].state
        BY <1>1, <1>t DEF QueueEvent, TypeOK
  <2>2. TypeOK'
        BY <1>1, <1>t DEF QueueEvent, TypeOK
  <2>3. Evolves
        BY <2>1 DEF Evolves, IInv, DeliveredWasHeard, Open, Done, Hidden
  <2> QED BY <2>1, <2>2, <2>3
<1>2. CASE Commit(r)
  <2>1. /\ post[r].state = "queuing" /\ UNCHANGED <<heard, job>>
        /\ \A q \in Post : post'[q].state = IF q = r THEN "pending" ELSE post[q].state
        /\ late' = IF \E q \in Of(HookOf[r]) : q > r /\ post[q].state \notin Hidden
                   THEN late \cup {r} ELSE late
        BY <1>2, <1>t DEF Commit, TypeOK, Hidden
  <2>2. TypeOK'
        BY <1>2, <1>t, <2>1 DEF Commit, TypeOK, Open
  <2>3. Evolves
        BY <2>1 DEF Evolves, IInv, DeliveredWasHeard, Open, Done, Hidden
  <2> QED BY <2>1, <2>2, <2>3
<1>3. CASE LeaseRunsOut(r) \/ ComesDue(r)
  <2>1. UNCHANGED <<late, heard, job>> /\ \A q \in Post : post'[q].state = post[q].state
    <3>1. CASE LeaseRunsOut(r)
      <4>1. UNCHANGED <<late, heard, job>>
            BY <3>1 DEF LeaseRunsOut
      <4>2. post' = [post EXCEPT ![r] = [post[r] EXCEPT !.lapsed = TRUE]]
            BY <3>1, <1>t DEF LeaseRunsOut, TypeOK
      <4> QED BY <4>1, <4>2, <1>t DEF TypeOK
    <3>2. CASE ComesDue(r)
      <4>1. UNCHANGED <<late, heard, job>>
            BY <3>2 DEF ComesDue
      <4>2. post' = [post EXCEPT ![r] = [post[r] EXCEPT !.due = TRUE]]
            BY <3>2, <1>t DEF ComesDue, TypeOK
      <4> QED BY <4>1, <4>2, <1>t DEF TypeOK
    <3> QED BY <1>3, <3>1, <3>2
  <2>2. TypeOK'
    <3>1. CASE LeaseRunsOut(r)
      <4>1. post' = [post EXCEPT ![r] = [post[r] EXCEPT !.lapsed = TRUE]]
            BY <3>1, <1>t DEF LeaseRunsOut, TypeOK
      <4>2. [post[r] EXCEPT !.lapsed = TRUE] \in [state : {"absent", "queuing"} \cup Open \cup Done,
                                                 attempts : Nat, due : BOOLEAN, lapsed : BOOLEAN]
            BY <1>t, PostParts
      <4> QED BY <3>1, <1>t, <4>1, <4>2 DEF LeaseRunsOut, TypeOK
    <3>2. CASE ComesDue(r)
      <4>1. post' = [post EXCEPT ![r] = [post[r] EXCEPT !.due = TRUE]]
            BY <3>2, <1>t DEF ComesDue, TypeOK
      <4>2. [post[r] EXCEPT !.due = TRUE] \in [state : {"absent", "queuing"} \cup Open \cup Done,
                                              attempts : Nat, due : BOOLEAN, lapsed : BOOLEAN]
            BY <1>t, PostParts
      <4> QED BY <3>2, <1>t, <4>1, <4>2 DEF ComesDue, TypeOK
    <3> QED BY <1>3, <3>1, <3>2
  <2> QED BY <2>1, <2>2, Settles
<1> QED BY <1>1, <1>2, <1>3

LEMMA HookStep ==
  ASSUME IInv, NEW h \in Hook, Pause(h) \/ SkipQueued(h) \/ Enable(h)
  PROVE  TypeOK' /\ Evolves /\ UNCHANGED <<job, heard>>
<1>t. TypeOK
      BY DEF IInv
<1>1. CASE Pause(h) \/ Enable(h)
  <2>1. UNCHANGED <<post, late, heard, job, owner, proc>>
        BY <1>1 DEF Pause, Enable
  <2>2. hook' \in [Hook -> [on : BOOLEAN, skipping : BOOLEAN]]
    <3>1. CASE Pause(h)
          BY <3>1, <1>t DEF Pause, TypeOK
    <3>2. CASE Enable(h)
          BY <3>2, <1>t DEF Enable, TypeOK
    <3> QED BY <1>1, <3>1, <3>2
  <2>3. count' \in [lapses : 0 .. MaxLapse, edits : 0 .. MaxEdits]
        BY <1>1, <1>t, BoundAssumption DEF Pause, Enable, TypeOK
  <2> QED BY <1>t, <2>1, <2>2, <2>3, SameTable DEF TypeOK
<1>2. CASE SkipQueued(h)
  <2>1. /\ UNCHANGED <<late, heard, job>>
        /\ \A r \in Post : post'[r] = IF HookOf[r] = h /\ post[r].state = "pending"
                                      THEN Ended(r, "skipped") ELSE post[r]
        BY <1>2 DEF SkipQueued
  <2>2. ASSUME NEW r \in Post
        PROVE  /\ Ended(r, "skipped").state = "skipped"
               /\ Ended(r, "skipped") \in [state : {"absent", "queuing"} \cup Open \cup Done,
                                           attempts : Nat, due : BOOLEAN, lapsed : BOOLEAN]
        BY <1>t, PostParts DEF Ended, Done
  <2>3. TypeOK'
        BY <1>2, <1>t, <2>2 DEF SkipQueued, TypeOK
  <2>4. Evolves
        BY <2>1, <2>2, Settles DEF Open, Done
  <2> QED BY <2>1, <2>3, <2>4
<1> QED BY <1>1, <1>2

(* tick: what it claims are the oldest open POSTs of their webhooks, so    *)
(* nothing older is open when they go out.                                 *)
LEMMA TickStep ==
  ASSUME IInv, NEW p \in Proc, Tick(p)
  PROVE  TypeOK' /\ Evolves /\ UNCHANGED heard
         /\ \A q \in Proc, h \in Hook : JobSound(q, h)'
<1> DEFINE picked == Picked(p, AfterSweep)
           claimed(r) == [state |-> "sending", attempts |-> post[r].attempts + 1,
                          due |-> TRUE, lapsed |-> FALSE]
           started(r) == [row |-> r, attempts |-> post[r].attempts + 1, at |-> "takes",
                          out |-> "none"]
           jobs == [h \in Hook |-> IF \E r \in picked : HookOf[r] = h
                                   THEN started(CHOOSE r \in picked : HookOf[r] = h)
                                   ELSE job[p][h]]
<1>t. TypeOK
      BY DEF IInv
<1>1. /\ post' = [r \in Post |-> IF r \in picked THEN claimed(r) ELSE AfterSweep[r]]
      /\ job' = job \/ job' = [job EXCEPT ![p] = jobs]
      /\ UNCHANGED <<hook, owner, proc, heard, late, count>>
  <2>1. job \in [Proc -> [Hook -> Jobs]]
        BY <1>t DEF TypeOK
  <2> QED BY <2>1 DEF Tick
<1>2. ASSUME NEW r \in Post
      PROVE  /\ AfterSweep[r] \in [state : {"absent", "queuing"} \cup Open \cup Done,
                                   attempts : Nat, due : BOOLEAN, lapsed : BOOLEAN]
             /\ \/ AfterSweep[r].state = post[r].state
                \/ post[r].state = "sending" /\ AfterSweep[r].state \in {"failed", "pending"}
             /\ claimed(r) \in [state : {"absent", "queuing"} \cup Open \cup Done,
                                attempts : Nat, due : BOOLEAN, lapsed : BOOLEAN]
             /\ claimed(r).state = "sending"
  <2>1. AfterSweep[r] = IF post[r].state = "sending" /\ post[r].lapsed
                        THEN [post[r] EXCEPT !.lapsed = FALSE,
                                !.state = IF post[r].attempts > RETRIES THEN "failed" ELSE "pending"]
                        ELSE post[r]
        BY DEF AfterSweep
  <2>2. /\ claimed(r).state = "sending"
        /\ claimed(r) \in [state : {"absent", "queuing"} \cup Open \cup Done,
                           attempts : Nat, due : BOOLEAN, lapsed : BOOLEAN]
        BY <1>t, PostParts DEF Open
  <2>3. CASE post[r].state = "sending" /\ post[r].lapsed
    <3> DEFINE state == IF post[r].attempts > RETRIES THEN "failed" ELSE "pending"
    <3>1. state \in {"failed", "pending"}
          OBVIOUS
    <3>2. AfterSweep[r] = [post[r] EXCEPT !.lapsed = FALSE, !.state = state]
          BY <2>1, <2>3
    <3> HIDE DEF state
    <3>3. /\ AfterSweep[r].state = state
          /\ AfterSweep[r] \in [state : {"absent", "queuing"} \cup Open \cup Done,
                                attempts : Nat, due : BOOLEAN, lapsed : BOOLEAN]
          BY <1>t, <3>1, <3>2, PostParts DEF Open, Done
    <3> QED BY <2>2, <2>3, <3>1, <3>3
  <2>4. CASE ~(post[r].state = "sending" /\ post[r].lapsed)
    <3>1. AfterSweep[r] = post[r]
          BY <2>1, <2>4
    <3> QED BY <1>t, <2>2, <3>1, PostParts
  <2> QED BY <2>3, <2>4
<1>3. ASSUME NEW r \in picked
      PROVE  /\ r \in Post /\ AfterSweep[r].state = "pending"
             /\ \A q \in Of(HookOf[r]) : q < r => AfterSweep[q].state \notin Open
             /\ started(r) \in Jobs
  <2>1. r \in Heads(AfterSweep)
        BY DEF Picked
  <2>2. /\ r \in Post /\ AfterSweep[r].state = "pending"
        /\ \A q \in Of(HookOf[r]) : q < r => AfterSweep[q].state \notin Open
        BY <2>1 DEF Heads
  <2>3. post[r].attempts + 1 \in Nat
        BY <1>t, <2>2, PostParts
  <2> QED BY <2>2, <2>3 DEF Jobs
<1>4. ASSUME NEW h \in Hook, \E r \in picked : HookOf[r] = h
      PROVE  \E r \in picked : HookOf[r] = h /\ jobs[h] = started(r)
      BY <1>4
<1>pick. picked \subseteq Post
      BY <1>3
<1>5. Evolves
  <2>1. ASSUME NEW r \in Post
        PROVE  \/ post'[r].state = post[r].state
               \/ /\ post[r].state \in Open /\ post'[r].state \in Open \cup Done
                  /\ post'[r].state = "delivered" => heard[r] = "ok"
    <3>1. CASE r \in picked
      <4>1. post'[r].state = "sending" /\ AfterSweep[r].state = "pending"
            BY <1>1, <1>2, <1>3, <3>1
      <4>2. post[r].state \in Open
            BY <1>2, <4>1 DEF Open
      <4> QED BY <4>1, <4>2 DEF Open
    <3>2. CASE r \notin picked
      <4>1. post'[r] = AfterSweep[r]
            BY <1>1, <3>2
      <4> QED BY <1>2, <4>1 DEF Open, Done
    <3> QED BY <3>1, <3>2
  <2> HIDE DEF picked
  <2> QED BY <1>1, <2>1, Settles
<1>6. TypeOK'
  <2>1. post' \in [Post -> [state : {"absent", "queuing"} \cup Open \cup Done,
                            attempts : Nat, due : BOOLEAN, lapsed : BOOLEAN]]
    <3> HIDE DEF picked, claimed
    <3> QED BY <1>1, <1>2
  <2>2. jobs \in [Hook -> Jobs]
    <3>1. ASSUME NEW h \in Hook PROVE jobs[h] \in Jobs
      <4>1. CASE \E r \in picked : HookOf[r] = h
            BY <1>3, <1>4, <4>1
      <4>2. CASE ~\E r \in picked : HookOf[r] = h
            BY <1>t, <4>2, JobParts
      <4> QED BY <4>1, <4>2
    <3> QED BY <3>1
  <2>3. job' \in [Proc -> [Hook -> Jobs]]
    <3> HIDE DEF jobs
    <3> QED BY <1>1, <1>t, <2>2 DEF TypeOK
  <2> QED BY <1>1, <1>t, <2>1, <2>3 DEF TypeOK
<1>7. ASSUME NEW q \in Proc, NEW h \in Hook PROVE JobSound(q, h)'
  <2>1. CASE job'[q][h] = job[q][h]
        BY <1>5, <2>1, JobsStay
  <2>2. CASE job'[q][h] # job[q][h]
    <3>1. q = p /\ job'[p][h] = jobs[h]
      <4> HIDE DEF jobs
      <4> QED BY <1>1, <1>t, <2>2 DEF TypeOK
    <3>2. \E r \in picked : HookOf[r] = h
          BY <2>2, <3>1
    <3>3. PICK r \in picked : HookOf[r] = h /\ job'[q][h] = started(r)
          BY <1>4, <3>1, <3>2
    <3>4. /\ job'[q][h].at = "takes" /\ job'[q][h].row = r
          /\ r \in Of(h) /\ post'[r].state = "sending"
          BY <1>1, <1>2, <1>3, <3>3 DEF Of
    <3>5. ASSUME NEW o \in Of(h), o < r PROVE post'[o].state \notin Open
      <4>1. AfterSweep[o].state \notin Open /\ o \in Post
            BY <1>3, <3>3, <3>5 DEF Of
      <4>2. o \notin picked
            BY <1>3, <4>1 DEF Open
      <4> QED BY <1>1, <4>1, <4>2
    <3> QED BY <3>4, <3>5 DEF JobSound, Hidden
  <2> QED BY <2>1, <2>2
<1> QED BY <1>1, <1>5, <1>6, <1>7

(* Of all the POSTs in flight one moves on. *)
LEMMA OneMovesOn ==
  ASSUME IInv, Evolves, NEW p \in Proc, NEW h \in Hook, job[p][h].at # "none",
         NEW at \in {"note", "finish"}, NEW out \in Answers \cup {"none", "failed", "skipped"},
         Goto(p, h, at, out),
         at = "note" => out \in Answers /\ (out = "ok" => heard'[job[p][h].row] = "ok"),
         at = "finish" => out \in {"skipped", "failed"}
  PROVE  job' \in [Proc -> [Hook -> Jobs]] /\ \A q \in Proc, g \in Hook : JobSound(q, g)'
<1> DEFINE j == [job[p][h] EXCEPT !.at = at, !.out = out]
<1>t. TypeOK
      BY DEF IInv
<1>1. /\ job' \in [Proc -> [Hook -> Jobs]]
      /\ \A q \in Proc, g \in Hook :
            job'[q][g] = IF q = p /\ g = h THEN j ELSE job[q][g]
  <2>1. at \in {"none", "takes", "note", "finish"}
        OBVIOUS
  <2>2. j \in Jobs
        BY <1>t, <2>1, JobType
  <2>3. job' = [job EXCEPT ![p][h] = j]
        BY <1>t DEF Goto, TypeOK
  <2> HIDE DEF j
  <2> QED BY <1>t, <2>2, <2>3, JobUpdate, ZenonT(60)
<1>2. j.row = job[p][h].row /\ j.at = at /\ j.out = out
      BY <1>t, JobParts DEF Jobs
<1> HIDE DEF j
<1>3. JobSound(p, h)'
      BY <1>1, <1>2, JobGoesOn
<1>4. ASSUME NEW q \in Proc, NEW g \in Hook PROVE JobSound(q, g)'
      BY <1>1, <1>3, JobsStay
<1> QED BY <1>1, <1>4

LEMMA OneIsOver ==
  ASSUME IInv, Evolves, NEW p \in Proc, NEW h \in Hook, Over(p, h)
  PROVE  job' \in [Proc -> [Hook -> Jobs]] /\ \A q \in Proc, g \in Hook : JobSound(q, g)'
<1>1. /\ job' \in [Proc -> [Hook -> Jobs]]
      /\ \A q \in Proc, g \in Hook :
            job'[q][g] = IF q = p /\ g = h THEN NoJob ELSE job[q][g]
      BY OverUpdate DEF IInv
<1>2. JobSound(p, h)'
      BY <1>1 DEF JobSound, NoJob
<1>3. ASSUME NEW q \in Proc, NEW g \in Hook PROVE JobSound(q, g)'
      BY <1>1, <1>2, JobsStay
<1> QED BY <1>1, <1>3

(* Ending a POST. *)
LEMMA EndedType ==
  ASSUME TypeOK, NEW r \in Post, NEW state \in Done
  PROVE  /\ Ended(r, state).state = state
         /\ Ended(r, state) \in [state : {"absent", "queuing"} \cup Open \cup Done,
                                 attempts : Nat, due : BOOLEAN, lapsed : BOOLEAN]
  BY PostParts DEF Ended

(* post: the webhook takes the POST or not, and the answer is noted.       *)
LEMMA SendingStep ==
  ASSUME IInv, NEW p \in Proc, NEW h \in Hook, NotTaken(p, h) \/ Send(p, h) \/ NoteFails(p, h)
  PROVE  TypeOK' /\ Evolves /\ \A q \in Proc, g \in Hook : JobSound(q, g)'
<1>t. TypeOK
      BY DEF IInv
<1>1. CASE NotTaken(p, h) \/ NoteFails(p, h)
  <2>1. /\ UNCHANGED <<post, hook, owner, proc, heard, late, count>>
        /\ job[p][h].at # "none"
        /\ Goto(p, h, "finish", "skipped") \/ Goto(p, h, "finish", "failed")
        BY <1>1 DEF NotTaken, NoteFails, At
  <2>2. Evolves
        BY <2>1, SameTable
  <2>3. job' \in [Proc -> [Hook -> Jobs]] /\ \A q \in Proc, g \in Hook : JobSound(q, g)'
    <3>1. CASE Goto(p, h, "finish", "skipped")
          BY <2>1, <2>2, <3>1, OneMovesOn
    <3>2. CASE Goto(p, h, "finish", "failed")
          BY <2>1, <2>2, <3>2, OneMovesOn
    <3> QED BY <2>1, <3>1, <3>2
  <2> QED BY <1>t, <2>1, <2>2, <2>3 DEF TypeOK
<1>2. CASE Send(p, h)
  <2> DEFINE row == job[p][h].row
  <2>1. PICK said \in Answers :
           /\ heard' = [heard EXCEPT ![row] = Better(said, heard[row])]
           /\ Goto(p, h, "note", said)
        BY <1>2, <1>t DEF Send, TypeOK
  <2>2. /\ UNCHANGED <<post, hook, owner, proc, late, count>>
        /\ job[p][h].at # "none"
        BY <1>2 DEF Send, At
  <2>3. row \in Post
        BY <2>2 DEF IInv, JobSound, Of
  <2>4. Better(said, heard[row]) \in Answers \cup {"unsent"}
        BY <1>t, <2>3 DEF TypeOK, Better
  <2>5. heard' \in [Post -> Answers \cup {"unsent"}]
        BY <1>t, <2>1, <2>4 DEF TypeOK
  <2>6. /\ said = "ok" => heard'[row] = "ok"
        /\ \A r \in Post : heard[r] = "ok" => heard'[r] = "ok"
        BY <1>t, <2>1, <2>3 DEF TypeOK, Better
  <2>7. Evolves
        BY <2>2, <2>6, SameTable
  <2>8. job' \in [Proc -> [Hook -> Jobs]] /\ \A q \in Proc, g \in Hook : JobSound(q, g)'
        BY <2>1, <2>2, <2>6, <2>7, OneMovesOn
  <2> QED BY <1>t, <2>2, <2>5, <2>7, <2>8 DEF TypeOK
<1> QED BY <1>1, <1>2

(* post, what it writes: an answer that was heard, and only on a POST that *)
(* is still being sent.                                                    *)
LEMMA NoteStep ==
  ASSUME IInv, NEW p \in Proc, NEW h \in Hook, Note(p, h)
  PROVE  TypeOK' /\ Evolves /\ \A q \in Proc, g \in Hook : JobSound(q, g)'
<1> DEFINE row == job[p][h].row
           Row == [state : {"absent", "queuing"} \cup Open \cup Done,
                   attempts : Nat, due : BOOLEAN, lapsed : BOOLEAN]
<1>t. TypeOK
      BY DEF IInv
<1>1. /\ job[p][h].at = "note"
      /\ post' = [r \in Post |-> Written(p, h, r)]
      /\ hook' = IF Abandoned(p, h) THEN [hook EXCEPT ![h].on = FALSE] ELSE hook
      /\ Over(p, h) \/ Goto(p, h, "finish", "failed")
      /\ UNCHANGED <<owner, proc, heard, late, count>>
      BY DEF Note, At
<1>2. row \in Post /\ (job[p][h].out = "ok" => heard[row] = "ok")
      BY <1>1 DEF IInv, JobSound, Of
<1>3. ASSUME NEW r \in Post
      PROVE  /\ Written(p, h, r) \in Row
             /\ \/ Written(p, h, r).state = post[r].state
                \/ /\ post[r].state \in Open /\ Written(p, h, r).state \in Open \cup Done
                   /\ Written(p, h, r).state = "delivered" => heard[r] = "ok"
  <2> DEFINE state == IF job[p][h].out = "ok" THEN "delivered" ELSE "failed"
  <2>1. CASE Abandoned(p, h) /\ HookOf[r] = h /\ post[r].state = "pending"
    <3>1. Written(p, h, r) = Ended(r, "skipped")
          BY <2>1 DEF Written
    <3>2. "skipped" \in Done /\ "pending" \in Open
          BY DEF Done, Open
    <3> QED BY <1>t, <2>1, <3>1, <3>2, EndedType
  <2>2. CASE /\ ~(Abandoned(p, h) /\ HookOf[r] = h /\ post[r].state = "pending")
             /\ r # row \/ post[r].state # "sending"
    <3>1. Written(p, h, r) = post[r]
          BY <2>2 DEF Written
    <3> QED BY <1>t, <3>1, PostParts
  <2>3. CASE r = row /\ post[r].state = "sending" /\ Again(p, h)
    <3>1. Written(p, h, r) = [post[r] EXCEPT !.state = "pending", !.due = FALSE, !.lapsed = FALSE]
          BY <2>3 DEF Written
    <3>2. Written(p, h, r).state = "pending" /\ Written(p, h, r) \in Row
          BY <1>t, <3>1, PostParts DEF Open
    <3> QED BY <2>3, <3>2 DEF Open
  <2>4. CASE r = row /\ post[r].state = "sending" /\ ~Again(p, h)
    <3>1. Written(p, h, r) = Ended(r, state)
          BY <2>4 DEF Written
    <3>2. state \in Done /\ "sending" \in Open
          BY DEF Done, Open
    <3> HIDE DEF state
    <3>3. Written(p, h, r).state = state /\ Written(p, h, r) \in Row
          BY <1>t, <3>1, <3>2, EndedType
    <3>4. state = "delivered" => heard[r] = "ok"
          BY <1>2, <2>4 DEF state
    <3> QED BY <2>4, <3>2, <3>3, <3>4
  <2> QED BY <2>1, <2>2, <2>3, <2>4
<1>4. /\ \A r \in Post : post'[r] = Written(p, h, r)
      /\ post' \in [Post -> Row]
      BY <1>1, <1>3
<1>5. Evolves
      BY <1>1, <1>3, <1>4, Settles
<1>6. job' \in [Proc -> [Hook -> Jobs]] /\ \A q \in Proc, g \in Hook : JobSound(q, g)'
  <2>1. CASE Over(p, h)
        BY <1>5, <2>1, OneIsOver
  <2>2. CASE Goto(p, h, "finish", "failed")
        BY <1>1, <1>5, <2>2, OneMovesOn
  <2> QED BY <1>1, <2>1, <2>2
<1>7. hook' \in [Hook -> [on : BOOLEAN, skipping : BOOLEAN]]
      BY <1>t, <1>1 DEF TypeOK
<1> QED BY <1>t, <1>1, <1>4, <1>5, <1>6, <1>7 DEF TypeOK

(* finish, and an owner that is one no more. *)
LEMMA FinishStep ==
  ASSUME IInv, NEW p \in Proc, NEW h \in Hook, Lost(p, h) \/ Finish(p, h) \/ FinishFails(p, h)
  PROVE  TypeOK' /\ Evolves /\ \A q \in Proc, g \in Hook : JobSound(q, g)'
<1>t. TypeOK
      BY DEF IInv
<1>1. CASE Lost(p, h)
  <2>1. UNCHANGED <<post, hook, owner, heard, late, count>> /\ Over(p, h) /\ proc' = Disown(p)
        BY <1>1 DEF Lost
  <2>2. Evolves
        BY <2>1, SameTable
  <2>3. job' \in [Proc -> [Hook -> Jobs]] /\ \A q \in Proc, g \in Hook : JobSound(q, g)'
        BY <2>1, <2>2, OneIsOver
  <2>4. proc' \in [Proc -> [up : BOOLEAN, believes : BOOLEAN]]
        BY <1>t, <2>1 DEF TypeOK, Disown
  <2> QED BY <1>t, <2>1, <2>2, <2>3, <2>4 DEF TypeOK
<1>2. CASE Finish(p, h)
  <2> DEFINE r == job[p][h].row
             out == job[p][h].out
  <2>1. /\ job[p][h].at = "finish"
        /\ post' = IF post[r].state = "sending" THEN [post EXCEPT ![r] = Ended(r, out)] ELSE post
        /\ Over(p, h) \/ (out = "skipped" /\ Goto(p, h, "finish", "failed"))
        /\ UNCHANGED <<hook, owner, proc, heard, late, count>>
        BY <1>2 DEF Finish, At
  <2>2. r \in Post /\ out \in {"skipped", "failed"}
        BY <2>1 DEF IInv, JobSound, Of
  <2>3. out \in Done /\ out # "delivered"
        BY <2>2 DEF Done
  <2>4. /\ Ended(r, out).state = out
        /\ Ended(r, out) \in [state : {"absent", "queuing"} \cup Open \cup Done,
                              attempts : Nat, due : BOOLEAN, lapsed : BOOLEAN]
        BY <1>t, <2>2, <2>3, EndedType
  <2>5. post' \in [Post -> [state : {"absent", "queuing"} \cup Open \cup Done,
                            attempts : Nat, due : BOOLEAN, lapsed : BOOLEAN]]
    <3> HIDE DEF r, out
    <3> QED BY <1>t, <2>1, <2>4 DEF TypeOK
  <2>6. Evolves
    <3>1. ASSUME NEW q \in Post
          PROVE  \/ post'[q].state = post[q].state
                 \/ /\ post[q].state \in Open /\ post'[q].state \in Open \cup Done
                    /\ post'[q].state = "delivered" => heard[q] = "ok"
      <4> HIDE DEF r, out
      <4> QED BY <1>t, <2>1, <2>2, <2>3, <2>4 DEF TypeOK, Open
    <3> QED BY <2>1, <3>1, Settles
  <2>7. job' \in [Proc -> [Hook -> Jobs]] /\ \A q \in Proc, g \in Hook : JobSound(q, g)'
    <3>1. CASE Over(p, h)
          BY <2>6, <3>1, OneIsOver
    <3>2. CASE Goto(p, h, "finish", "failed")
          BY <2>1, <2>6, <3>2, OneMovesOn
    <3> QED BY <2>1, <3>1, <3>2
  <2> QED BY <1>t, <2>1, <2>5, <2>6, <2>7 DEF TypeOK
<1>3. CASE FinishFails(p, h)
  <2>1. /\ UNCHANGED <<post, hook, owner, proc, heard, late, count>>
        /\ job[p][h].at = "finish"
        /\ Over(p, h) \/ Goto(p, h, "finish", "failed")
        BY <1>3 DEF FinishFails, At
  <2>2. Evolves
        BY <2>1, SameTable
  <2>3. job' \in [Proc -> [Hook -> Jobs]] /\ \A q \in Proc, g \in Hook : JobSound(q, g)'
    <3>1. CASE Over(p, h)
          BY <2>2, <3>1, OneIsOver
    <3>2. CASE Goto(p, h, "finish", "failed")
          BY <2>1, <2>2, <3>2, OneMovesOn
    <3> QED BY <2>1, <3>1, <3>2
  <2> QED BY <1>t, <2>1, <2>2, <2>3 DEF TypeOK
<1> QED BY <1>1, <1>2, <1>3

(* Ownership, shutdown and crashes. *)
LEMMA OwnershipStep ==
  ASSUME IInv, NEW p \in Proc,
         Own(p) \/ LearnLost(p) \/ Stop(p) \/ Crash(p) \/ Lapse
  PROVE  TypeOK' /\ Evolves /\ UNCHANGED heard /\ \A q \in Proc, g \in Hook : JobSound(q, g)'
<1>t. TypeOK
      BY DEF IInv
<1>1. UNCHANGED <<post, hook, heard, late>>
      BY DEF Own, LearnLost, Stop, Crash, Lapse
<1>2. Evolves
      BY <1>1, SameTable
<1>3. owner' \in Proc \cup {NoProc}
      BY <1>t DEF TypeOK, Own, LearnLost, Stop, Crash, Lapse
<1>4. proc' \in [Proc -> [up : BOOLEAN, believes : BOOLEAN]]
  <2>1. CASE Own(p) \/ LearnLost(p)
    <3>1. PICK believes \in BOOLEAN : proc' = [proc EXCEPT ![p].believes = believes]
          BY <2>1 DEF Own, LearnLost, Disown
    <3> QED BY <1>t, <3>1 DEF TypeOK
  <2>2. CASE Stop(p) \/ Crash(p)
    <3>1. proc' = [proc EXCEPT ![p] = [up |-> FALSE, believes |-> FALSE]]
          BY <2>2 DEF Stop, Crash
    <3> QED BY <1>t, <3>1 DEF TypeOK
  <2>3. CASE Lapse
        BY <1>t, <2>3 DEF TypeOK, Lapse
  <2> QED BY <2>1, <2>2, <2>3
<1>5. count' \in [lapses : 0 .. MaxLapse, edits : 0 .. MaxEdits]
  <2>1. CASE UNCHANGED count
        BY <1>t, <2>1 DEF TypeOK
  <2>2. CASE count.lapses < MaxLapse /\ count' = [count EXCEPT !.lapses = @ + 1]
        BY <1>t, <2>2, BoundAssumption DEF TypeOK
  <2> QED BY <2>1, <2>2 DEF Own, LearnLost, Stop, Crash, Lapse
<1>6. job' = job \/ job' = [job EXCEPT ![p] = [h \in Hook |-> NoJob]]
      BY DEF Own, LearnLost, Stop, Crash, Lapse
<1>7. /\ job' \in [Proc -> [Hook -> Jobs]]
      /\ \A q \in Proc, g \in Hook : job'[q][g] \in {job[q][g], NoJob}
  <2>1. NoJob \in Jobs
        BY DEF NoJob, Jobs
  <2> DEFINE none == [h \in Hook |-> NoJob]
  <2>2. none \in [Hook -> Jobs] /\ \A h \in Hook : none[h] = NoJob
        BY <2>1
  <2>3. job \in [Proc -> [Hook -> Jobs]] /\ (job' = job \/ job' = [job EXCEPT ![p] = none])
        BY <1>t, <1>6 DEF TypeOK
  <2> HIDE DEF none
  <2> QED BY <2>2, <2>3
<1>8. ASSUME NEW q \in Proc, NEW g \in Hook PROVE JobSound(q, g)'
  <2>1. CASE job'[q][g] = job[q][g]
        BY <1>2, <2>1, JobsStay
  <2>2. CASE job'[q][g] = NoJob
        BY <2>2 DEF JobSound, NoJob
  <2> QED BY <1>7, <2>1, <2>2
<1> QED BY <1>t, <1>1, <1>2, <1>3, <1>4, <1>5, <1>7, <1>8 DEF TypeOK

-----------------------------------------------------------------------------
(* A first answer comes from a POST in flight. *)
LEMMA HeardFirst ==
  ASSUME IInv, NEW p \in Proc, NEW h \in Hook, InFlight(p, h),
         NEW r \in Post, heard[r] = "unsent", heard'[r] # "unsent"
  PROVE  \A q \in Of(HookOf[r]) : q < r /\ post[q].state \in Open => q \in late
<1>1. CASE Send(p, h)
  <2>1. job[p][h].at # "none" /\ job[p][h].row = r
        BY <1>1 DEF Send, At, IInv, TypeOK
  <2> QED BY <2>1 DEF IInv, JobSound, Of
<1>2. CASE ~Send(p, h)
  <2>1. UNCHANGED heard
        BY <1>2 DEF InFlight, NotTaken, Note, NoteFails, Lost, Finish, FinishFails
  <2> QED BY <2>1
<1> QED BY <1>1, <1>2

LEMMA StepInv ==
  ASSUME IInv, [Next]_vars
  PROVE  /\ IInv' /\ Evolves
         /\ \A r \in Post : heard[r] = "unsent" /\ heard'[r] # "unsent" =>
               \A q \in Of(HookOf[r]) : q < r /\ post[q].state \in Open => q \in late
<1> DEFINE First == \A r \in Post : heard[r] = "unsent" /\ heard'[r] # "unsent" =>
                       \A q \in Of(HookOf[r]) : q < r /\ post[q].state \in Open => q \in late
           Goal == TypeOK' /\ Evolves /\ First /\ \A p \in Proc, h \in Hook : JobSound(p, h)'
<1>same. ASSUME Evolves, UNCHANGED job PROVE \A p \in Proc, h \in Hook : JobSound(p, h)'
      BY <1>same, JobsStay
<1>unheard. ASSUME UNCHANGED heard PROVE First
      BY <1>unheard
<1>1. ASSUME NEW r \in Post, QueueEvent(r) \/ Commit(r) \/ LeaseRunsOut(r) \/ ComesDue(r)
      PROVE  Goal
      BY <1>1, <1>same, <1>unheard, QueueingStep
<1>2. ASSUME NEW h \in Hook, Pause(h) \/ SkipQueued(h) \/ Enable(h)
      PROVE  Goal
      BY <1>2, <1>same, <1>unheard, HookStep
<1>3. ASSUME NEW p \in Proc, Tick(p)
      PROVE  Goal
      BY <1>3, <1>unheard, TickStep
<1>4. ASSUME NEW p \in Proc, Own(p) \/ LearnLost(p) \/ Stop(p) \/ Crash(p)
      PROVE  Goal
      BY <1>4, <1>unheard, OwnershipStep
<1>5. ASSUME NEW p \in Proc, NEW h \in Hook, InFlight(p, h)
      PROVE  Goal
  <2>1. First
        BY <1>5, HeardFirst
  <2>2. CASE NotTaken(p, h) \/ Send(p, h) \/ NoteFails(p, h)
        BY <2>1, <2>2, SendingStep
  <2>3. CASE Note(p, h)
        BY <2>1, <2>3, NoteStep
  <2>4. CASE Lost(p, h) \/ Finish(p, h) \/ FinishFails(p, h)
        BY <2>1, <2>4, FinishStep
  <2> QED BY <1>5, <2>2, <2>3, <2>4 DEF InFlight
<1>6. ASSUME Lapse PROVE Goal
  <2>1. CASE Proc # {}
    <3>1. PICK p \in Proc : TRUE
          BY <2>1
    <3>2. /\ TypeOK' /\ Evolves /\ UNCHANGED heard
          /\ \A q \in Proc, g \in Hook : JobSound(q, g)'
          BY <1>6, OwnershipStep
    <3> QED BY <3>2, <1>unheard
  <2>2. CASE Proc = {}
        BY <1>6, <2>2 DEF Lapse, IInv, TypeOK
  <2> QED BY <2>1, <2>2
<1>7. ASSUME UNCHANGED vars PROVE Goal
  <2>1. UNCHANGED <<post, hook, owner, proc, job, heard, late, count>>
        BY <1>7 DEF vars
  <2>2. Evolves
        BY <2>1, SameTable
  <2>3. TypeOK'
        BY <2>1 DEF IInv, TypeOK
  <2>4. UNCHANGED job /\ UNCHANGED heard
        BY <2>1
  <2> QED BY <2>2, <2>3, <2>4, <1>same, <1>unheard
<1>8. Goal
  <2> HIDE DEF Goal
  <2> QED BY <1>1, <1>2, <1>3, <1>4, <1>5, <1>6, <1>7 DEF Next
<1>9. IInv'
      BY <1>8 DEF IInv, Evolves
<1> QED BY <1>8, <1>9

(* json-webhook-queue.ts: the inductive invariant of the queue.  Each POST *)
(* a worker has in flight is its webhook's, was its oldest open one, and   *)
(* what the worker is about to write of it was said by the receiver.       *)
THEOREM Invariance == Spec => []IInv
<1>1. IInv /\ [Next]_vars => IInv'
      BY StepInv
<1> QED BY <1>1, InitIInv, PTL DEF Spec

(* json-webhook-queue.ts: every step of every worker, administrator and    *)
(* timer keeps the types, for any number of each.                          *)
THEOREM TypeCorrect == Spec => []TypeOK
<1>1. IInv => TypeOK
      BY DEF IInv
<1> QED BY <1>1, Invariance, PTL

(* json-webhook-queue.ts, post and finish: however workers stop, lose the  *)
(* lease or answer late, a POST ends once, and one written down as         *)
(* delivered was accepted by its receiver.                                 *)
THEOREM EndsAreTrue == Spec => EndsTruthfully
<1> DEFINE Truthful == \A r \in Post : /\ post[r].state \in Done => post'[r].state = post[r].state
                                       /\ post'[r].state = "delivered" => heard'[r] = "ok"
<1>1. IInv /\ [Next]_vars => Truthful
      BY StepInv DEF Evolves, DeliveredWasHeard
<1>2. IInv /\ [Next]_vars => [Truthful]_vars
      BY <1>1
<1> QED BY <1>2, Invariance, PTL DEF Spec, EndsTruthfully

(* json-webhook-queue.ts, tick: the first time a POST goes out, every      *)
(* older one of its webhook has ended, but for those whose transaction     *)
(* committed after a younger one's.                                        *)
THEOREM OldestGoFirst == Spec => OldestFirst
<1> DEFINE InOrder == \A r \in Post : heard[r] = "unsent" /\ heard'[r] # "unsent" =>
                         \A q \in Of(HookOf[r]) : q < r /\ post[q].state \in Open => q \in late
<1>1. IInv /\ [Next]_vars => InOrder
      BY StepInv
<1>2. IInv /\ [Next]_vars => [InOrder]_vars
      BY <1>1
<1> QED BY <1>2, Invariance, PTL DEF Spec, OldestFirst

-----------------------------------------------------------------------------
(* The budget of attempts.  While no running owner lost its lease, whoever *)
(* has a POST in flight and is up is the owner, and what it counts of a    *)
(* POST being sent is what the table has.                                  *)
OwnersSend ==
    /\ \A p \in Proc : proc[p].believes => proc[p].up
    /\ count.lapses = 0 =>
         \A p \in Proc, h \in Hook : job[p][h].at # "none" /\ proc[p].up => owner = p

CountsAgree ==
    count.lapses = 0 =>
      \A p \in Proc, h \in Hook :
        LET j == job[p][h] IN
        j.at # "none" /\ proc[p].up /\ post[j.row].state = "sending"
          => j.attempts = post[j.row].attempts

Budgeted ==
    /\ \A r \in Post : post[r].state \in Hidden => post[r].attempts = 0
    /\ count.lapses = 0 =>
         \A r \in Post :
            /\ post[r].attempts <= RETRIES + 1
            /\ post[r].state = "pending" => post[r].attempts <= RETRIES

BInv == IInv /\ OwnersSend /\ CountsAgree /\ Budgeted

LEMMA LapsesStay ==
  ASSUME IInv, [Next]_vars
  PROVE  count'.lapses = 0 => count.lapses = 0
<1>1. CASE Lapse
      BY <1>1 DEF Lapse, IInv, TypeOK
<1>2. ASSUME NEW h \in Hook, Pause(h) PROVE count'.lapses = count.lapses
      BY <1>2 DEF Pause, IInv, TypeOK
<1>3. CASE UNCHANGED count
      BY <1>3
<1>4. CASE Next
  <2>1. ASSUME NEW r \in Post, QueueEvent(r) \/ Commit(r) \/ LeaseRunsOut(r) \/ ComesDue(r)
        PROVE  UNCHANGED count
        BY <2>1 DEF QueueEvent, Commit, LeaseRunsOut, ComesDue
  <2>2. ASSUME NEW h \in Hook, SkipQueued(h) \/ Enable(h) PROVE UNCHANGED count
        BY <2>2 DEF SkipQueued, Enable
  <2>3. ASSUME NEW p \in Proc, Tick(p) \/ Own(p) \/ LearnLost(p) \/ Stop(p) \/ Crash(p)
        PROVE  UNCHANGED count
        BY <2>3 DEF Tick, Own, LearnLost, Stop, Crash
  <2>4. ASSUME NEW p \in Proc, NEW h \in Hook, InFlight(p, h) PROVE UNCHANGED count
        BY <2>4 DEF InFlight, NotTaken, Send, Note, NoteFails, Lost, Finish, FinishFails
  <2> QED BY <1>1, <1>2, <1>3, <1>4, <2>1, <2>2, <2>3, <2>4 DEF Next
<1> QED BY <1>3, <1>4 DEF vars

(* The rest is asked only while no lease was lost.                         *)
LEMMA InitBInv == Init => BInv
<1> SUFFICES ASSUME Init PROVE BInv
    OBVIOUS
<1>1. IInv
      BY InitIInv
<1>2. OwnersSend /\ CountsAgree
      BY DEF Init, OwnersSend, CountsAgree, NoJob
<1>3. Budgeted
      BY BoundAssumption DEF Init, Budgeted
<1> QED BY <1>1, <1>2, <1>3 DEF BInv

(* A step that starts nothing: rows go on within their attempts, what is   *)
(* in flight stays, counts the same or ends, and nobody comes up.          *)
LEMMA QuietStep ==
  ASSUME BInv, [Next]_vars,
         \A p \in Proc :
            /\ proc'[p].up => proc[p].up
            /\ proc'[p].believes => proc'[p].up
            /\ owner = p => owner' = p \/ ~proc'[p].up \/ count'.lapses # 0,
         \A p \in Proc, h \in Hook : job'[p][h].at # "none" =>
            /\ job[p][h].at # "none"
            /\ job'[p][h].row = job[p][h].row /\ job'[p][h].attempts = job[p][h].attempts,
         \A r \in Post :
            /\ post'[r].attempts = post[r].attempts
            /\ post'[r].state = "sending" => post[r].state = "sending"
            /\ post'[r].state \in Hidden => post[r].state \in Hidden
            /\ post'[r].state = "pending" /\ count.lapses = 0 => post[r].attempts <= RETRIES
  PROVE  OwnersSend' /\ CountsAgree' /\ Budgeted'
<1>1. count'.lapses = 0 => count.lapses = 0
      BY LapsesStay DEF BInv
<1>2. OwnersSend'
      BY <1>1 DEF BInv, OwnersSend
<1>3. CountsAgree'
  <2> SUFFICES ASSUME count'.lapses = 0, NEW p \in Proc, NEW h \in Hook,
                      job'[p][h].at # "none", proc'[p].up, post'[job'[p][h].row].state = "sending"
               PROVE  job'[p][h].attempts = post'[job'[p][h].row].attempts
      BY DEF CountsAgree
  <2>1. job[p][h].row \in Post
        BY DEF BInv, IInv, JobSound, Of
  <2> QED BY <1>1, <2>1 DEF BInv, CountsAgree
<1>4. Budgeted'
      BY <1>1 DEF BInv, Budgeted
<1> QED BY <1>2, <1>3, <1>4

LEMMA QueueingBudget ==
  ASSUME BInv, [Next]_vars, NEW r \in Post,
         QueueEvent(r) \/ Commit(r) \/ LeaseRunsOut(r) \/ ComesDue(r)
  PROVE  OwnersSend' /\ CountsAgree' /\ Budgeted'
<1>t. TypeOK
      BY DEF BInv, IInv
<1>1. UNCHANGED <<owner, proc, job, count>>
      BY DEF QueueEvent, Commit, LeaseRunsOut, ComesDue
<1>2. ASSUME NEW q \in Post
      PROVE  /\ post'[q].attempts = post[q].attempts
             /\ post'[q].state = "sending" => post[q].state = "sending"
             /\ post'[q].state \in Hidden => post[q].state \in Hidden
             /\ post'[q].state = "pending" /\ count.lapses = 0 => post[q].attempts <= RETRIES
  <2>b. /\ post[q].state \in Hidden => post[q].attempts <= RETRIES
        /\ count.lapses = 0 /\ post[q].state = "pending" => post[q].attempts <= RETRIES
        BY BoundAssumption DEF BInv, Budgeted
  <2>1. CASE QueueEvent(r)
        BY <1>t, <2>b, <2>1 DEF QueueEvent, TypeOK, Hidden
  <2>2. CASE Commit(r)
        BY <1>t, <2>b, <2>2 DEF Commit, TypeOK, Hidden
  <2>3. CASE LeaseRunsOut(r)
        BY <1>t, <2>b, <2>3 DEF LeaseRunsOut, TypeOK
  <2>4. CASE ComesDue(r)
        BY <1>t, <2>b, <2>4 DEF ComesDue, TypeOK
  <2> QED BY <2>1, <2>2, <2>3, <2>4
<1>3. \A p \in Proc : proc'[p].believes => proc'[p].up
      BY <1>1 DEF BInv, OwnersSend
<1> QED BY <1>1, <1>2, <1>3, QuietStep

(* Rows as they were, or ended, or waiting once more within their budget.  *)
LEMMA WrittenBudget ==
  ASSUME BInv, [Next]_vars, UNCHANGED <<owner, count>>,
         \A p \in Proc : proc'[p].up = proc[p].up /\ (proc'[p].believes => proc[p].believes),
         \A p \in Proc, h \in Hook : job'[p][h].at # "none" =>
            /\ job[p][h].at # "none"
            /\ job'[p][h].row = job[p][h].row /\ job'[p][h].attempts = job[p][h].attempts,
         \A r \in Post :
            \/ post'[r] = post[r]
            \/ post'[r].attempts = post[r].attempts /\ post'[r].state \in Done
            \/ /\ post'[r].attempts = post[r].attempts /\ post'[r].state = "pending"
               /\ count.lapses = 0 => post[r].attempts <= RETRIES
  PROVE  OwnersSend' /\ CountsAgree' /\ Budgeted'
<1>1. ASSUME NEW q \in Post
      PROVE  /\ post'[q].attempts = post[q].attempts
             /\ post'[q].state = "sending" => post[q].state = "sending"
             /\ post'[q].state \in Hidden => post[q].state \in Hidden
             /\ post'[q].state = "pending" /\ count.lapses = 0 => post[q].attempts <= RETRIES
      BY DEF BInv, Budgeted, Done, Hidden
<1>2. \A p \in Proc : proc'[p].believes => proc'[p].up
      BY DEF BInv, OwnersSend
<1> QED BY <1>1, <1>2, QuietStep

LEMMA HookBudget ==
  ASSUME BInv, [Next]_vars, NEW h \in Hook, Pause(h) \/ SkipQueued(h) \/ Enable(h)
  PROVE  OwnersSend' /\ CountsAgree' /\ Budgeted'
<1>t. TypeOK
      BY DEF BInv, IInv
<1>1. UNCHANGED <<owner, proc, job>>
      BY DEF Pause, SkipQueued, Enable
<1>2. ASSUME NEW q \in Post
      PROVE  /\ post'[q].attempts = post[q].attempts
             /\ post'[q].state = "sending" => post[q].state = "sending"
             /\ post'[q].state \in Hidden => post[q].state \in Hidden
             /\ post'[q].state = "pending" /\ count.lapses = 0 => post[q].attempts <= RETRIES
  <2>1. post'[q] = post[q] \/ post'[q] = Ended(q, "skipped")
        BY DEF Pause, SkipQueued, Enable
  <2>2. Ended(q, "skipped").attempts = post[q].attempts /\ Ended(q, "skipped").state = "skipped"
        BY <1>t, PostParts DEF Ended
  <2> QED BY <2>1, <2>2 DEF BInv, Budgeted, Hidden
<1>3. \A p \in Proc : proc'[p].believes => proc'[p].up
      BY <1>1 DEF BInv, OwnersSend
<1> QED BY <1>1, <1>2, <1>3, QuietStep

(* One job goes on with its POST or ends.                                  *)
LEMMA JobGoes ==
  ASSUME TypeOK, NEW p \in Proc, NEW h \in Hook, job[p][h].at # "none",
         \/ Over(p, h)
         \/ \E at \in {"note", "finish"}, out \in Answers \cup {"failed", "skipped"} :
              Goto(p, h, at, out)
  PROVE  \A q \in Proc, g \in Hook : job'[q][g].at # "none" =>
            /\ job[q][g].at # "none"
            /\ job'[q][g].row = job[q][g].row /\ job'[q][g].attempts = job[q][g].attempts
<1>1. CASE Over(p, h)
      BY <1>1, OverUpdate DEF NoJob
<1>2. ASSUME NEW at \in {"note", "finish"}, NEW out \in Answers \cup {"failed", "skipped"},
             Goto(p, h, at, out)
      PROVE  \A q \in Proc, g \in Hook : job'[q][g].at # "none" =>
               /\ job[q][g].at # "none"
               /\ job'[q][g].row = job[q][g].row /\ job'[q][g].attempts = job[q][g].attempts
  <2> DEFINE j == [job[p][h] EXCEPT !.at = at, !.out = out]
  <2>w. /\ at \in {"none", "takes", "note", "finish"}
        /\ out \in Answers \cup {"none", "failed", "skipped"}
        OBVIOUS
  <2>1. j \in Jobs /\ j.row = job[p][h].row /\ j.attempts = job[p][h].attempts
    <3>1. j \in Jobs
          BY <2>w, JobType
    <3>2. job[p][h] \in Jobs
          BY JobParts
    <3>3. j.row = job[p][h].row /\ j.attempts = job[p][h].attempts
          BY <3>2 DEF Jobs
    <3> QED BY <3>1, <3>3
  <2>2. job' = [job EXCEPT ![p][h] = j]
        BY <1>2 DEF Goto, TypeOK
  <2> HIDE DEF j
  <2> QED BY <2>1, <2>2, JobUpdate
<1> QED BY <1>1, <1>2

LEMMA SendingBudget ==
  ASSUME BInv, [Next]_vars, NEW p \in Proc, NEW h \in Hook, InFlight(p, h), ~Note(p, h)
  PROVE  OwnersSend' /\ CountsAgree' /\ Budgeted'
<1>t. TypeOK
      BY DEF BInv, IInv
<1> DEFINE Goes == \/ Over(p, h)
                   \/ \E at \in {"note", "finish"}, out \in Answers \cup {"failed", "skipped"} :
                        Goto(p, h, at, out)
<1>1. /\ UNCHANGED <<owner, count>> /\ job[p][h].at # "none"
      /\ proc' = proc \/ proc' = Disown(p)
      BY DEF InFlight, NotTaken, Send, NoteFails, Lost, Finish, FinishFails, At
<1>2. \A q \in Proc : proc'[q].up = proc[q].up /\ (proc'[q].believes => proc[q].believes)
      BY <1>1, <1>t, SMTT(30) DEF Disown, TypeOK
<1>3. ASSUME NEW r \in Post
      PROVE  \/ post'[r] = post[r]
             \/ post'[r].attempts = post[r].attempts /\ post'[r].state \in Done
  <2>1. CASE Finish(p, h)
    <3>1. job[p][h].out \in {"skipped", "failed"}
          BY <2>1 DEF BInv, IInv, JobSound, Finish, At
    <3>2. post'[r] = post[r] \/ post'[r] = Ended(r, job[p][h].out)
          BY <1>t, <2>1 DEF Finish, TypeOK
    <3>3. /\ Ended(r, job[p][h].out).attempts = post[r].attempts
          /\ Ended(r, job[p][h].out).state = job[p][h].out
          BY <1>t, PostParts DEF Ended
    <3> QED BY <3>1, <3>2, <3>3 DEF Done
  <2>2. CASE ~Finish(p, h)
        BY <2>2 DEF InFlight, NotTaken, Send, NoteFails, Lost, FinishFails
  <2> QED BY <2>1, <2>2
<1>4. Goes
  <2>1. CASE NotTaken(p, h)
        BY <2>1 DEF NotTaken
  <2>2. CASE Send(p, h)
        BY <2>2 DEF Send
  <2>3. CASE NoteFails(p, h) \/ Lost(p, h) \/ Finish(p, h) \/ FinishFails(p, h)
        BY <2>3 DEF NoteFails, Lost, Finish, FinishFails
  <2> QED BY <2>1, <2>2, <2>3 DEF InFlight
<1>5. \A q \in Proc, g \in Hook : job'[q][g].at # "none" =>
         /\ job[q][g].at # "none"
         /\ job'[q][g].row = job[q][g].row /\ job'[q][g].attempts = job[q][g].attempts
      BY <1>t, <1>1, <1>4, JobGoes
<1> QED BY <1>1, <1>2, <1>3, <1>5, WrittenBudget

(* The answer is written of a POST still being sent, by the owner. *)
LEMMA NoteBudget ==
  ASSUME BInv, [Next]_vars, NEW p \in Proc, NEW h \in Hook, Note(p, h)
  PROVE  OwnersSend' /\ CountsAgree' /\ Budgeted'
<1> DEFINE row == job[p][h].row
<1>t. TypeOK
      BY DEF BInv, IInv
<1>1. /\ job[p][h].at = "note" /\ proc[p].believes
      /\ post' = [r \in Post |-> Written(p, h, r)]
      /\ Over(p, h) \/ Goto(p, h, "finish", "failed")
      /\ UNCHANGED <<owner, proc, count>>
      BY DEF Note, At, Owned
<1>2. proc[p].up /\ row \in Post
      BY <1>1 DEF BInv, OwnersSend, IInv, JobSound, Of
<1>3. ASSUME NEW r \in Post
      PROVE  \/ post'[r] = post[r]
             \/ post'[r].attempts = post[r].attempts /\ post'[r].state \in Done
             \/ /\ post'[r].attempts = post[r].attempts /\ post'[r].state = "pending"
                /\ count.lapses = 0 => post[r].attempts <= RETRIES
  <2>1. post'[r] = Written(p, h, r)
        BY <1>1
  <2>2. ASSUME NEW state \in Done
        PROVE  Ended(r, state).attempts = post[r].attempts /\ Ended(r, state).state \in Done
        BY <1>t, PostParts DEF Ended
  <2>3. CASE Abandoned(p, h) /\ HookOf[r] = h /\ post[r].state = "pending"
    <3>1. post'[r] = Ended(r, "skipped")
          BY <2>1, <2>3 DEF Written
    <3> QED BY <2>2, <3>1 DEF Done
  <2>4. CASE /\ ~(Abandoned(p, h) /\ HookOf[r] = h /\ post[r].state = "pending")
             /\ r # row \/ post[r].state # "sending"
        BY <2>1, <2>4 DEF Written
  <2>5. CASE r = row /\ post[r].state = "sending" /\ Again(p, h)
    <3>1. post'[r] = [post[r] EXCEPT !.state = "pending", !.due = FALSE, !.lapsed = FALSE]
          BY <2>1, <2>5 DEF Written
    <3>2. post'[r].attempts = post[r].attempts /\ post'[r].state = "pending"
          BY <1>t, <3>1, PostParts
    <3>3. count.lapses = 0 => job[p][h].attempts = post[r].attempts
          BY <1>1, <1>2, <2>5 DEF BInv, CountsAgree
    <3> QED BY <2>5, <3>2, <3>3 DEF Again
  <2>6. CASE r = row /\ post[r].state = "sending" /\ ~Again(p, h)
    <3>1. post'[r] = Ended(r, IF job[p][h].out = "ok" THEN "delivered" ELSE "failed")
          BY <2>1, <2>6 DEF Written
    <3> QED BY <2>2, <3>1 DEF Done
  <2> QED BY <2>3, <2>4, <2>5, <2>6
<1>4. \A q \in Proc, g \in Hook : job'[q][g].at # "none" =>
         /\ job[q][g].at # "none"
         /\ job'[q][g].row = job[q][g].row /\ job'[q][g].attempts = job[q][g].attempts
  <2>1. job[p][h].at # "none"
        BY <1>1
  <2> QED BY <1>t, <1>1, <2>1, JobGoes
<1> QED BY <1>1, <1>3, <1>4, WrittenBudget

(* Ownership, shutdown and crashes start no POST.                          *)
LEMMA OwnershipBudget ==
  ASSUME BInv, [Next]_vars,
         \/ Lapse
         \/ \E p \in Proc : Own(p) \/ LearnLost(p) \/ Stop(p) \/ Crash(p)
  PROVE  OwnersSend' /\ CountsAgree' /\ Budgeted'
<1>t. TypeOK
      BY DEF BInv, IInv
<1>1. UNCHANGED post
      BY DEF Lapse, Own, LearnLost, Stop, Crash
<1>2. \A r \in Post : /\ post'[r].attempts = post[r].attempts
                      /\ post'[r].state = "sending" => post[r].state = "sending"
                      /\ post'[r].state \in Hidden => post[r].state \in Hidden
                      /\ post'[r].state = "pending" /\ count.lapses = 0 => post[r].attempts <= RETRIES
      BY <1>1 DEF BInv, Budgeted
<1>3. \A q \in Proc, g \in Hook : job'[q][g].at # "none" =>
         /\ job[q][g].at # "none"
         /\ job'[q][g].row = job[q][g].row /\ job'[q][g].attempts = job[q][g].attempts
  <2>1. CASE UNCHANGED job
        BY <2>1
  <2>2. ASSUME NEW p \in Proc, Crash(p)
        PROVE  \A q \in Proc, g \in Hook : job'[q][g].at # "none" => job'[q][g] = job[q][g]
        BY <1>t, <2>2 DEF Crash, NoJob, TypeOK
  <2>3. UNCHANGED job \/ \E p \in Proc : Crash(p)
        BY DEF Lapse, Own, LearnLost, Stop
  <2> QED BY <2>1, <2>2, <2>3
<1>4. ASSUME NEW q \in Proc
      PROVE  /\ proc'[q].up => proc[q].up
             /\ proc'[q].believes => proc'[q].up
             /\ owner = q => owner' = q \/ ~proc'[q].up \/ count'.lapses # 0
  <2>b. proc[q].believes => proc[q].up
        BY DEF BInv, OwnersSend
  <2>1. CASE Lapse
    <3>1. UNCHANGED proc
          BY <2>1 DEF Lapse
    <3>2. owner = q /\ proc[q].up => count'.lapses # 0
          BY <1>t, <2>1 DEF Lapse, TypeOK
    <3> QED BY <2>b, <3>1, <3>2
  <2>2. ASSUME NEW p \in Proc, Own(p)
        PROVE  /\ proc'[q].up => proc[q].up
               /\ proc'[q].believes => proc'[q].up
               /\ owner = q => owner' = q
        BY <1>t, <2>b, <2>2, ProcAssumption DEF Own, TypeOK
  <2>3. ASSUME NEW p \in Proc, LearnLost(p)
        PROVE  /\ proc'[q].up => proc[q].up
               /\ proc'[q].believes => proc'[q].up
               /\ owner = q => owner' = q
        BY <1>t, <2>b, <2>3 DEF LearnLost, Disown, TypeOK
  <2>4. ASSUME NEW p \in Proc, Stop(p) \/ Crash(p)
        PROVE  /\ proc'[q].up => proc[q].up
               /\ proc'[q].believes => proc'[q].up
               /\ owner = q => owner' = q \/ ~proc'[q].up
    <3>1. /\ proc' = [proc EXCEPT ![p] = [up |-> FALSE, believes |-> FALSE]]
          /\ owner # p => owner' = owner
          BY <2>4 DEF Stop, Crash
    <3>2. proc'[q] = IF q = p THEN [up |-> FALSE, believes |-> FALSE] ELSE proc[q]
          BY <1>t, <3>1 DEF TypeOK
    <3>3. CASE q = p
          BY <3>2, <3>3
    <3>4. CASE q # p
          BY <2>b, <3>1, <3>2, <3>4
    <3> QED BY <3>3, <3>4
  <2> QED BY <2>1, <2>2, <2>3, <2>4
<1> QED BY <1>2, <1>3, <1>4, QuietStep

LEMMA SweepBudget ==
  ASSUME TypeOK, NEW r \in Post
  PROVE  /\ AfterSweep[r].attempts = post[r].attempts
         /\ \/ AfterSweep[r].state = post[r].state
            \/ /\ post[r].state = "sending" /\ AfterSweep[r].state \in {"failed", "pending"}
               /\ AfterSweep[r].state = "pending" => post[r].attempts <= RETRIES
<1> DEFINE state == IF post[r].attempts > RETRIES THEN "failed" ELSE "pending"
<1>1. AfterSweep[r] = IF post[r].state = "sending" /\ post[r].lapsed
                      THEN [post[r] EXCEPT !.lapsed = FALSE, !.state = state]
                      ELSE post[r]
      BY DEF AfterSweep
<1>2. state \in {"failed", "pending"} /\ (state = "pending" => post[r].attempts <= RETRIES)
      BY PostParts, BoundAssumption
<1> HIDE DEF state
<1>3. CASE post[r].state = "sending" /\ post[r].lapsed
  <2>1. AfterSweep[r].attempts = post[r].attempts /\ AfterSweep[r].state = state
        BY <1>1, <1>3, PostParts
  <2> QED BY <1>2, <1>3, <2>1
<1>4. CASE ~(post[r].state = "sending" /\ post[r].lapsed)
      BY <1>1, <1>4
<1> QED BY <1>3, <1>4

(* A tick claims for the owner what had an attempt left, and counts it.    *)
LEMMA TickBudget ==
  ASSUME BInv, [Next]_vars, NEW p \in Proc, Tick(p)
  PROVE  OwnersSend' /\ CountsAgree' /\ Budgeted'
<1> DEFINE picked == Picked(p, AfterSweep)
           claimed(r) == [state |-> "sending", attempts |-> post[r].attempts + 1,
                          due |-> TRUE, lapsed |-> FALSE]
           started(r) == [row |-> r, attempts |-> post[r].attempts + 1, at |-> "takes",
                          out |-> "none"]
           jobs == [h \in Hook |-> IF \E r \in picked : HookOf[r] = h
                                   THEN started(CHOOSE r \in picked : HookOf[r] = h)
                                   ELSE job[p][h]]
<1>t. TypeOK
      BY DEF BInv, IInv
<1>1. /\ post' = [r \in Post |-> IF r \in picked THEN claimed(r) ELSE AfterSweep[r]]
      /\ job' = job \/ job' = [job EXCEPT ![p] = jobs]
      /\ owner = p
      /\ UNCHANGED <<owner, proc, count>>
  <2>1. job \in [Proc -> [Hook -> Jobs]]
        BY <1>t DEF TypeOK
  <2> QED BY <2>1 DEF Tick, Owned
<1>2. ASSUME NEW r \in picked
      PROVE  /\ r \in Post /\ AfterSweep[r].state = "pending" /\ HookOf[r] \notin Busy(p)
             /\ post'[r].state = "sending" /\ post'[r].attempts = post[r].attempts + 1
  <2>1. r \in Heads(AfterSweep) /\ HookOf[r] \notin Busy(p)
        BY DEF Picked
  <2>2. r \in Post /\ AfterSweep[r].state = "pending"
        BY <2>1 DEF Heads
  <2>3. post'[r] = claimed(r)
        BY <1>1, <2>2
  <2> QED BY <2>1, <2>2, <2>3
<1>3. ASSUME NEW r \in Post, r \notin picked
      PROVE  /\ post'[r].attempts = post[r].attempts
             /\ post'[r].state = AfterSweep[r].state
  <2>1. post'[r] = AfterSweep[r]
        BY <1>1, <1>3
  <2> QED BY <1>t, <2>1, SweepBudget
<1>4. ASSUME NEW q \in Proc, NEW h \in Hook, job'[q][h] # job[q][h]
      PROVE  q = p /\ \E r \in picked : HookOf[r] = h /\ job'[q][h] = started(r)
  <2>1. q = p /\ job'[p][h] = jobs[h]
    <3> HIDE DEF jobs
    <3> QED BY <1>1, <1>4, <1>t DEF TypeOK
  <2>2. \E r \in picked : HookOf[r] = h
        BY <1>4, <2>1
  <2>3. \E r \in picked : HookOf[r] = h /\ jobs[h] = started(r)
        BY <2>2
  <2> QED BY <2>1, <2>3
<1>5. OwnersSend'
  <2>1. ASSUME count.lapses = 0, NEW q \in Proc, NEW h \in Hook,
               job'[q][h].at # "none", proc[q].up
        PROVE  owner = q
    <3>1. CASE job'[q][h] = job[q][h]
          BY <2>1, <3>1 DEF BInv, OwnersSend
    <3>2. CASE job'[q][h] # job[q][h]
          BY <1>1, <1>4, <3>2
    <3> QED BY <3>1, <3>2
  <2> QED BY <1>1, <2>1 DEF BInv, OwnersSend
<1>6. CountsAgree'
  <2> SUFFICES ASSUME count.lapses = 0, NEW q \in Proc, NEW h \in Hook,
                      job'[q][h].at # "none", proc[q].up,
                      post'[job'[q][h].row].state = "sending"
               PROVE  job'[q][h].attempts = post'[job'[q][h].row].attempts
      BY <1>1 DEF CountsAgree
  <2>1. CASE job'[q][h] = job[q][h]
    <3> DEFINE r == job[q][h].row
    <3>1. r \in Of(h) /\ q = p
          BY <1>1, <2>1 DEF BInv, IInv, JobSound, OwnersSend
    <3>2. h \in Busy(p) /\ r \in Post /\ HookOf[r] = h
          BY <2>1, <3>1 DEF Busy, Of
    <3>3. r \notin picked
          BY <1>2, <3>2
    <3>4. post'[r].attempts = post[r].attempts /\ AfterSweep[r].state = "sending"
          BY <1>3, <2>1, <3>2, <3>3
    <3>5. post[r].state = "sending"
          BY <1>t, <3>2, <3>4, SweepBudget
    <3> QED BY <2>1, <3>4, <3>5 DEF BInv, CountsAgree
  <2>2. CASE job'[q][h] # job[q][h]
    <3>1. PICK r \in picked : job'[q][h] = started(r)
          BY <1>4, <2>2
    <3>2. job'[q][h].row = r /\ job'[q][h].attempts = post[r].attempts + 1
          BY <3>1
    <3> QED BY <1>2, <3>2
  <2> QED BY <2>1, <2>2
<1>7. Budgeted'
  <2>1. ASSUME NEW r \in Post
        PROVE  /\ post'[r].state \in Hidden => post'[r].attempts = 0
               /\ count.lapses = 0 =>
                    /\ post'[r].attempts <= RETRIES + 1
                    /\ post'[r].state = "pending" => post'[r].attempts <= RETRIES
    <3>b. /\ post[r].state \in Hidden => post[r].attempts = 0
          /\ count.lapses = 0 =>
               /\ post[r].attempts <= RETRIES + 1
               /\ post[r].state = "pending" => post[r].attempts <= RETRIES
          BY DEF BInv, Budgeted
    <3>s. /\ AfterSweep[r].state \in Hidden => post[r].state \in Hidden
          /\ count.lapses = 0 /\ AfterSweep[r].state = "pending" => post[r].attempts <= RETRIES
          BY <1>t, <3>b, SweepBudget DEF Hidden
    <3>n. post[r].attempts \in Nat /\ RETRIES \in Nat
          BY <1>t, PostParts, BoundAssumption
    <3>1. CASE r \in picked
      <4>1. /\ AfterSweep[r].state = "pending" /\ post'[r].state = "sending"
            /\ post'[r].attempts = post[r].attempts + 1
            BY <1>2, <3>1
      <4> HIDE DEF picked
      <4> QED BY <3>s, <3>n, <4>1 DEF Hidden
    <3>2. CASE r \notin picked
      <4>1. post'[r].attempts = post[r].attempts /\ post'[r].state = AfterSweep[r].state
            BY <1>3, <3>2
      <4> QED BY <3>b, <3>s, <4>1
    <3> QED BY <3>1, <3>2
  <2> QED BY <1>1, <2>1 DEF Budgeted
<1> QED BY <1>5, <1>6, <1>7

LEMMA StepBudget == BInv /\ [Next]_vars => BInv'
<1> SUFFICES ASSUME BInv, [Next]_vars PROVE BInv'
    OBVIOUS
<1> DEFINE Goal == OwnersSend' /\ CountsAgree' /\ Budgeted'
<1>1. ASSUME NEW r \in Post, QueueEvent(r) \/ Commit(r) \/ LeaseRunsOut(r) \/ ComesDue(r)
      PROVE  Goal
      BY <1>1, QueueingBudget
<1>2. ASSUME NEW h \in Hook, Pause(h) \/ SkipQueued(h) \/ Enable(h)
      PROVE  Goal
      BY <1>2, HookBudget
<1>3. ASSUME NEW p \in Proc, Tick(p)
      PROVE  Goal
      BY <1>3, TickBudget
<1>4. ASSUME Lapse \/ \E p \in Proc : Own(p) \/ LearnLost(p) \/ Stop(p) \/ Crash(p)
      PROVE  Goal
      BY <1>4, OwnershipBudget
<1>5. ASSUME NEW p \in Proc, NEW h \in Hook, InFlight(p, h)
      PROVE  Goal
      BY <1>5, SendingBudget, NoteBudget
<1>6. ASSUME UNCHANGED vars PROVE Goal
      BY <1>6 DEF vars, BInv, OwnersSend, CountsAgree, Budgeted
<1>7. Goal
  <2> HIDE DEF Goal
  <2> QED BY <1>1, <1>2, <1>3, <1>4, <1>5, <1>6 DEF Next
<1>8. IInv'
      BY StepInv DEF BInv
<1> QED BY <1>7, <1>8 DEF BInv

(* json-webhook-queue.ts, tick and post: while no running owner loses its  *)
(* lease, a POST is sent at most once more than it has retries, whatever   *)
(* stops, crashes, fails or answers late.                                  *)
THEOREM AttemptsBounded == Spec => []WithinAttempts
<1>1. BInv => WithinAttempts
      BY DEF BInv, Budgeted, WithinAttempts
<1>2. BInv /\ [Next]_vars => BInv'
      BY StepBudget
<1> QED BY <1>1, <1>2, InitBInv, PTL DEF Spec
=============================================================================
