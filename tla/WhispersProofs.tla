--------------------------- MODULE WhispersProofs ---------------------------
(***************************************************************************)
(* The death whispers' memory and cooldowns, for any number of processes,  *)
(* players, batches and periods, and any cooldown.                         *)
(***************************************************************************)
EXTENDS Whispers, TLAPS

(* What a batch holds is true of the memory it moved. *)
JobSound(b) ==
    /\ job[b].at \in {"waiting", "decided"} =>
         /\ job[b].proc \in Proc
         /\ job[b].stamp # Never /\ job[b].stamp <= now
    /\ job[b].at = "decided" =>
         /\ mem[job[b].proc][job[b].of].fill = "read"
         /\ \A x \in job[b].picks : /\ ~Cooling(job[b].before[x], job[b].stamp)
                                    /\ job[b].stamp <= Track(b)[x]

RowSound(r) == r.decided # Never /\ r.decided <= r.created /\ r.created <= now

(* Of two batches that moved the same player on, the later found what the  *)
(* earlier had left.                                                       *)
Before(b, c, x) ==
    /\ job[b].stamp + COOLDOWN <= job[c].stamp
    /\ job[b].stamp <= job[c].before[x]
Together(b, c) ==
    /\ b # c /\ job[b].at = "decided" /\ job[c].at = "decided"
    /\ job[b].proc = job[c].proc /\ job[b].of = job[c].of
Ordered(b, c) ==
    Together(b, c) => \A x \in job[b].picks \cap job[c].picks : Before(b, c, x) \/ Before(c, b, x)

(* CoolingIsBacked, in every memory of a process. *)
Backed(p, t, x) ==
    mem[p][t].fill = "read" /\ Cooling(mem[p][t].track[x], now) =>
        \/ \E r \in row : r.to = x /\ mem[p][t].track[x] \in {r.decided, r.created}
        \/ \E b \in UnderWay(p) : /\ job[b].at = "decided" /\ job[b].of = t
                                  /\ x \in job[b].picks /\ job[b].stamp = mem[p][t].track[x]

(* What needs no lease. *)
MInv ==
    /\ TypeOK
    /\ \A b \in Batch : JobSound(b)
    /\ \A r \in row : RowSound(r)
    /\ \A b, c \in Batch : Ordered(b, c)
    /\ \A p \in Proc, t \in Periods, x \in Player : Backed(p, t, x)

(* Periods are counted up, and a process forgets for those it learnt of.   *)
(* What is of the lease's period began after the beat forgot for it.       *)
Behind(p) ==
    /\ since[p] <= lease.period /\ epoch[p] <= lease.period
    /\ epoch[p] = lease.period => since[p] = lease.period
    /\ \A b \in UnderWay(p) : /\ job[b].of <= lease.period
                              /\ job[b].of = lease.period => epoch[p] = lease.period
(* The holder that forgot for the period on; its memory knows of every     *)
(* whisper that counts.                                                    *)
Owns(p) == lease.holder = p /\ epoch[p] = lease.period
Counts(r) == r.answer = "heard" /\ ~r.old
Covered(p) ==
    Owns(p) /\ mem[p][epoch[p]].fill = "read" =>
        \A r \in row : Counts(r) => r.decided <= mem[p][epoch[p]].track[r.to]
(* What its batches of the period are about to write is a cooldown from    *)
(* every one.                                                              *)
Fresh(b) == lease.holder = job[b].proc /\ ~FromOld(b)
Spaced(b) ==
    job[b].at = "decided" /\ Fresh(b) =>
        \A x \in job[b].picks, r \in row : r.to = x /\ Counts(r) =>
            r.decided <= job[b].before[x] \/ job[b].stamp + COOLDOWN <= r.decided

-----------------------------------------------------------------------------
(* Types, and what an action does to one memory or one batch *)

LEMMA Constructed ==
  /\ Unset \in [Player -> Times] /\ Never \in Times
  /\ NoMemory \in Memories /\ NoMemory.fill = "none"
  /\ New \in Jobs /\ Over \in Jobs /\ New.at = "new" /\ Over.at = "over"
  /\ Over.of = NoPeriod /\ Over.proc = NoProc
<1>1. Never \in Times
      BY TimeAssumption DEF Never, Times
<1>2. Unset \in [Player -> Times]
      BY <1>1 DEF Unset
<1> QED BY <1>1, <1>2 DEF NoMemory, Memories, New, Over, Jobs, Periods

LEMMA Parts ==
  ASSUME TypeOK
  PROVE  /\ now \in Nat /\ now \in Times
         /\ Times \subseteq Nat
         /\ \A p \in Proc, t \in Periods :
              /\ mem[p][t] \in Memories
              /\ mem[p][t].track \in [Player -> Times]
              /\ \A x \in Player : mem[p][t].track[x] \in Nat
         /\ \A b \in Batch :
              /\ job[b] \in Jobs
              /\ job[b].proc \in Proc \cup {NoProc} /\ job[b].of \in Periods
              /\ job[b].stamp \in Times /\ job[b].stamp \in Nat
              /\ job[b].picks \subseteq Player
              /\ job[b].before \in [Player -> Times]
              /\ \A x \in Player : job[b].before[x] \in Nat
         /\ \A r \in row : /\ r.to \in Player /\ r.by \in Batch /\ r.answer \in {"heard", "lost"}
                           /\ r.decided \in Nat /\ r.created \in Nat
                           /\ r.decided \in Times /\ r.created \in Times
<1>1. Times \subseteq Nat /\ now \in Times
      BY TimeAssumption DEF TypeOK, Times
<1>2. ASSUME NEW p \in Proc, NEW t \in Periods
      PROVE  mem[p][t] \in Memories /\ mem[p][t].track \in [Player -> Times]
      BY <1>2 DEF TypeOK, Memories
<1>3. ASSUME NEW b \in Batch
      PROVE  /\ job[b] \in Jobs
             /\ job[b].proc \in Proc \cup {NoProc} /\ job[b].of \in Periods
             /\ job[b].stamp \in Times /\ job[b].picks \subseteq Player
             /\ job[b].before \in [Player -> Times]
      BY <1>3 DEF TypeOK, Jobs
<1>4. ASSUME NEW r \in row
      PROVE  /\ r.to \in Player /\ r.by \in Batch /\ r.answer \in {"heard", "lost"}
             /\ r.decided \in Times /\ r.created \in Times
      BY <1>4 DEF TypeOK, Rows
<1>5. ASSUME NEW f \in [Player -> Times], NEW x \in Player
      PROVE  f[x] \in Nat
      BY <1>5, <1>1
<1> QED BY <1>1, <1>2, <1>3, <1>4, <1>5

(* A memory's track set to another: the rest is as it was. *)
Tracked(p, u, f) == [mem EXCEPT ![p][u].track = f]

LEMMA TrackedIs ==
  ASSUME TypeOK, NEW p \in Proc, NEW u \in Periods, NEW f \in [Player -> Times]
  PROVE  /\ Tracked(p, u, f) \in [Proc -> [Periods -> Memories]]
         /\ \A q \in Proc, t \in Periods :
              /\ Tracked(p, u, f)[q][t].fill = mem[q][t].fill
              /\ Tracked(p, u, f)[q][t].track = IF q = p /\ t = u THEN f ELSE mem[q][t].track
<1> DEFINE put == [mem[p][u] EXCEPT !.track = f]
<1>1. mem[p][u] \in Memories
      BY Parts
<1>2. put \in Memories /\ put.fill = mem[p][u].fill /\ put.track = f
      BY <1>1 DEF Memories
<1> HIDE DEF put
<1>3. mem \in [Proc -> [Periods -> Memories]]
      BY DEF TypeOK
<1>4. [mem[p] EXCEPT ![u] = put] \in [Periods -> Memories]
      BY <1>2, <1>3
<1>5. Tracked(p, u, f) = [mem EXCEPT ![p] = [mem[p] EXCEPT ![u] = put]]
      BY <1>3 DEF Tracked, put
<1>6. Tracked(p, u, f) \in [Proc -> [Periods -> Memories]]
      BY <1>3, <1>4, <1>5
<1>7. ASSUME NEW q \in Proc, NEW t \in Periods
      PROVE  Tracked(p, u, f)[q][t] = IF q = p /\ t = u THEN put ELSE mem[q][t]
      BY <1>3, <1>5, <1>7
<1> QED BY <1>2, <1>6, <1>7

(* What an undo puts back. *)
Restored(b) ==
    [x \in Player |-> IF x \in job[b].picks /\ Track(b)[x] = job[b].stamp
                      THEN job[b].before[x] ELSE Track(b)[x]]

LEMMA UndoneIs ==
  ASSUME TypeOK, NEW b \in Batch, job[b].proc \in Proc
  PROVE  /\ Restored(b) \in [Player -> Times]
         /\ Undone(b) = Tracked(job[b].proc, job[b].of, Restored(b))
<1>1. job[b].of \in Periods /\ Track(b) \in [Player -> Times] /\ job[b].before \in [Player -> Times]
      BY Parts DEF Track
<1> QED BY <1>1 DEF Restored, Undone, Tracked, Track, TypeOK

(* Memories and batches may be dropped or begun, and a memory read, if no  *)
(* batch that has moved one loses it.                                      *)
LEMMA Narrowed ==
  ASSUME MInv, TypeOK', UNCHANGED <<now, row>>,
         \A b \in Batch :
           \/ job'[b] = job[b]
           \/ job'[b].at = "over"
           \/ job'[b].at = "waiting" /\ job'[b].proc \in Proc /\ job'[b].stamp = now,
         \A b \in Batch : job'[b].at = "decided" =>
           mem'[job[b].proc][job[b].of] = mem[job[b].proc][job[b].of],
         \A p \in Proc, t \in Periods : mem'[p][t].fill = "read" =>
           \/ /\ mem'[p][t] = mem[p][t]
              /\ \A b \in Batch : job[b].at = "decided" /\ job[b].proc = p /\ job[b].of = t =>
                    job'[b] = job[b]
           \/ \A x \in Player : mem'[p][t].track[x] # Never =>
                \E r \in row : r.to = x /\ r.created = mem'[p][t].track[x]
  PROVE  MInv'
<1>1. now \in Nat \ {Never} /\ now' = now /\ row' = row
      BY Parts DEF MInv, TypeOK
<1>2. ASSUME NEW b \in Batch
      PROVE  JobSound(b)'
  <2>1. CASE job'[b] = job[b]
        BY <1>1, <2>1 DEF MInv, JobSound, Track, Cooling
  <2>2. CASE job'[b] # job[b]
        BY <1>1, <2>2 DEF JobSound
  <2> QED BY <2>1, <2>2
<1>3. ASSUME NEW r \in row'
      PROVE  RowSound(r)'
      BY <1>1 DEF MInv, RowSound
<1>4. ASSUME NEW b \in Batch, NEW c \in Batch
      PROVE  Ordered(b, c)'
      BY DEF MInv, Ordered, Together, Before
<1>5. ASSUME NEW p \in Proc, NEW t \in Periods, NEW x \in Player
      PROVE  Backed(p, t, x)'
  <2> SUFFICES ASSUME mem'[p][t].fill = "read", Cooling(mem'[p][t].track[x], now)
               PROVE  \/ \E r \in row : r.to = x /\ mem'[p][t].track[x] \in {r.decided, r.created}
                      \/ \E b \in UnderWay(p)' : /\ job'[b].at = "decided" /\ job'[b].of = t
                                                 /\ x \in job'[b].picks
                                                 /\ job'[b].stamp = mem'[p][t].track[x]
        BY <1>1 DEF Backed
  <2>1. CASE /\ mem'[p][t] = mem[p][t]
             /\ \A b \in Batch : job[b].at = "decided" /\ job[b].proc = p /\ job[b].of = t =>
                   job'[b] = job[b]
    <3>1. Backed(p, t, x)
          BY DEF MInv
    <3> QED BY <2>1, <3>1 DEF Backed, UnderWay
  <2>2. CASE \A y \in Player : mem'[p][t].track[y] # Never =>
               \E r \in row : r.to = y /\ r.created = mem'[p][t].track[y]
        BY <2>2 DEF Cooling
  <2> QED BY <2>1, <2>2
<1> QED BY <1>2, <1>3, <1>4, <1>5 DEF MInv

-----------------------------------------------------------------------------
(* What needs no lease *)

LEMMA InitMInv == Init => MInv
<1> SUFFICES ASSUME Init PROVE MInv
    OBVIOUS
<1>1. TypeOK
      BY Constructed, TimeAssumption DEF Init, TypeOK, Times, Never, Periods
<1>2. ASSUME NEW b \in Batch
      PROVE  job[b].at = "new"
      BY Constructed DEF Init
<1>3. ASSUME NEW p \in Proc, NEW t \in Periods
      PROVE  mem[p][t].fill = "none"
      BY Constructed DEF Init
<1> QED BY <1>1, <1>2, <1>3 DEF MInv, JobSound, Ordered, Together, Backed, Init

LEMMA LaterMInv ==
  ASSUME MInv, TypeOK', UNCHANGED <<mem, job, row>>, now <= now'
  PROVE  MInv'
<1>1. now \in Nat /\ now' \in Nat
      BY Parts, TimeAssumption DEF MInv, TypeOK, Times
<1>2. ASSUME NEW b \in Batch
      PROVE  JobSound(b)'
      BY <1>1, Parts DEF MInv, JobSound, Track, Cooling
<1>3. ASSUME NEW r \in row
      PROVE  RowSound(r)'
      BY <1>1, Parts DEF MInv, RowSound
<1>4. ASSUME NEW b \in Batch, NEW c \in Batch
      PROVE  Ordered(b, c)'
      BY DEF MInv, Ordered, Together, Before
<1>5. ASSUME NEW p \in Proc, NEW t \in Periods, NEW x \in Player
      PROVE  Backed(p, t, x)'
  <2>1. mem[p][t].track[x] \in Nat /\ COOLDOWN \in Nat
        BY Parts, TimeAssumption DEF MInv
  <2>2. Backed(p, t, x)
        BY DEF MInv
  <2> QED BY <1>1, <2>1, <2>2 DEF Backed, Cooling, UnderWay
<1> QED BY <1>2, <1>3, <1>4, <1>5 DEF MInv

LEMMA TickMInv == MInv /\ Tick => MInv'
<1> SUFFICES ASSUME MInv, Tick PROVE MInv'
    OBVIOUS
<1>1. TypeOK'
      BY TimeAssumption DEF MInv, Tick, TypeOK, Times, Never
<1>2. now <= now'
      BY Parts DEF MInv, Tick
<1> QED BY <1>1, <1>2, LaterMInv DEF Tick

LEMMA HandOverType == ASSUME TypeOK, NEW p \in Proc, HandOver(p) PROVE TypeOK'
BY DEF TypeOK, HandOver, Periods

LEMMA LeaseMInv ==
  ASSUME MInv, NEW p \in Proc, HandOver(p) \/ Learn(p)
  PROVE  MInv'
<1>1. TypeOK'
  <2>1. CASE HandOver(p)
        BY <2>1, HandOverType DEF MInv
  <2>2. CASE Learn(p)
        BY <2>2 DEF MInv, TypeOK, Learn
  <2> QED BY <2>1, <2>2
<1>2. now <= now'
      BY Parts DEF MInv, HandOver, Learn
<1> QED BY <1>1, <1>2, LaterMInv DEF HandOver, Learn

LEMMA BeatMInv == ASSUME MInv, NEW p \in Proc, Beat(p) PROVE MInv'
<1> DEFINE forgot == [t \in Periods |-> IF t \in Kept(p) THEN mem[p][t] ELSE NoMemory]
<1>1. mem' = [mem EXCEPT ![p] = forgot]
      BY DEF Beat
<1>2. forgot \in [Periods -> Memories]
      BY Parts, Constructed DEF MInv
<1>3. TypeOK'
      BY <1>1, <1>2 DEF MInv, TypeOK, Beat
<1>4. ASSUME NEW q \in Proc, NEW t \in Periods
      PROVE  mem'[q][t] = IF q = p /\ t \notin Kept(p) THEN NoMemory ELSE mem[q][t]
      BY <1>1, <1>4 DEF MInv, TypeOK
<1>5. ASSUME NEW b \in Batch, job[b].at = "decided"
      PROVE  mem'[job[b].proc][job[b].of] = mem[job[b].proc][job[b].of]
  <2>1. job[b].proc \in Proc /\ job[b].of \in Periods
        BY <1>5, Parts DEF MInv, JobSound
  <2>2. job[b].proc = p => job[b].of \in Kept(p)
        BY <1>5 DEF Kept, UnderWay
  <2> QED BY <1>4, <2>1, <2>2
<1>6. UNCHANGED <<now, job, row>>
      BY DEF Beat
<1> HIDE DEF forgot
<1> QED BY <1>3, <1>4, <1>5, <1>6, Constructed, Narrowed

LEMMA RestartMInv == ASSUME MInv, NEW p \in Proc, Restart(p) PROVE MInv'
<1>1. ASSUME NEW q \in Proc, NEW t \in Periods
      PROVE  mem'[q][t] = IF q = p THEN NoMemory ELSE mem[q][t]
      BY <1>1 DEF MInv, TypeOK, Restart
<1>2. ASSUME NEW b \in Batch
      PROVE  job'[b] = IF b \in UnderWay(p) THEN Over ELSE job[b]
      BY <1>2 DEF Restart
<1>3. TypeOK'
  <2>1. mem' \in [Proc -> [Periods -> Memories]]
        BY Constructed DEF MInv, TypeOK, Restart
  <2>2. job' \in [Batch -> Jobs]
        BY Constructed, Parts DEF MInv, Restart
  <2>3. lease' \in [holder : Proc \cup {NoProc}, period : Periods]
        BY DEF MInv, TypeOK, Restart
  <2> QED BY <2>1, <2>2, <2>3 DEF MInv, TypeOK, Restart, Periods
<1>4. ASSUME NEW b \in Batch, job'[b].at = "decided"
      PROVE  mem'[job[b].proc][job[b].of] = mem[job[b].proc][job[b].of]
  <2>1. job'[b] = job[b] /\ b \notin UnderWay(p)
        BY <1>2, <1>4, Constructed
  <2>2. job[b].proc \in Proc /\ job[b].of \in Periods /\ job[b].proc # p
        BY <1>4, <2>1, Parts DEF MInv, JobSound, UnderWay
  <2> QED BY <1>1, <2>2
<1>5. UNCHANGED <<now, row>>
      BY DEF Restart
<1>6. ASSUME NEW q \in Proc, NEW t \in Periods, mem'[q][t].fill = "read"
      PROVE  /\ mem'[q][t] = mem[q][t]
             /\ \A b \in Batch : job[b].at = "decided" /\ job[b].proc = q /\ job[b].of = t =>
                   job'[b] = job[b]
      BY <1>1, <1>2, <1>6, Constructed DEF UnderWay
<1> QED BY <1>2, <1>3, <1>4, <1>5, <1>6, Constructed, Narrowed

LEMMA ArriveMInv ==
  ASSUME MInv, NEW b \in Batch, NEW p \in Proc, Arrive(b, p)
  PROVE  MInv'
<1> DEFINE u == epoch[p]
<1> DEFINE asked == [mem[p][u] EXCEPT !.fill = IF @ = "none" THEN "asked" ELSE @]
<1> DEFINE begun == [New EXCEPT !.at = "waiting", !.proc = p, !.of = u, !.stamp = now]
<1>1. u \in Periods /\ mem[p][u] \in Memories /\ now \in Times
      BY Parts DEF MInv, TypeOK
<1>2. asked \in Memories /\ asked.fill = (IF mem[p][u].fill = "none" THEN "asked" ELSE mem[p][u].fill)
      /\ (mem[p][u].fill # "none" => asked = mem[p][u])
      BY <1>1 DEF Memories
<1>3. begun \in Jobs /\ begun.at = "waiting" /\ begun.proc = p /\ begun.stamp = now
      BY <1>1, Constructed DEF New, Jobs
<1>4. mem' = [mem EXCEPT ![p] = [mem[p] EXCEPT ![u] = asked]] /\ job' = [job EXCEPT ![b] = begun]
      BY <1>1 DEF Arrive, MInv, TypeOK
<1> HIDE DEF asked, begun
<1>5. mem \in [Proc -> [Periods -> Memories]] /\ job \in [Batch -> Jobs]
      BY DEF MInv, TypeOK
<1>6. [mem[p] EXCEPT ![u] = asked] \in [Periods -> Memories]
      BY <1>1, <1>2, <1>5
<1>7. ASSUME NEW q \in Proc, NEW t \in Periods
      PROVE  mem'[q][t] = IF q = p /\ t = u THEN asked ELSE mem[q][t]
      BY <1>1, <1>4, <1>5, <1>7
<1>8. ASSUME NEW c \in Batch
      PROVE  job'[c] = IF c = b THEN begun ELSE job[c]
      BY <1>4, <1>5
<1>9. TypeOK'
  <2>1. mem' \in [Proc -> [Periods -> Memories]] /\ job' \in [Batch -> Jobs]
        BY <1>3, <1>4, <1>5, <1>6
  <2> QED BY <2>1 DEF MInv, TypeOK, Arrive
<1>10. ASSUME NEW c \in Batch, job'[c].at = "decided"
       PROVE  mem'[job[c].proc][job[c].of] = mem[job[c].proc][job[c].of]
  <2>1. job[c].at = "decided"
        BY <1>3, <1>8, <1>10
  <2>2. job[c].proc \in Proc /\ job[c].of \in Periods /\ mem[job[c].proc][job[c].of].fill = "read"
        BY <2>1, Parts DEF MInv, JobSound
  <2> QED BY <1>2, <1>7, <2>2
<1>11. UNCHANGED <<now, row>>
       BY DEF Arrive
<1>12. ASSUME NEW q \in Proc, NEW t \in Periods, mem'[q][t].fill = "read"
       PROVE  /\ mem'[q][t] = mem[q][t]
              /\ \A c \in Batch : job[c].at = "decided" /\ job[c].proc = q /\ job[c].of = t =>
                    job'[c] = job[c]
  <2>1. job[b].at = "new"
        BY DEF Arrive
  <2> QED BY <1>2, <1>7, <1>8, <1>12, <2>1
<1> QED BY <1>3, <1>8, <1>9, <1>10, <1>11, <1>12, Narrowed

LEMMA FillMInv ==
  ASSUME MInv, NEW p \in Proc, NEW t \in Periods, Fill(p, t)
  PROVE  MInv'
<1>1. PICK last \in [Player -> Times] :
        /\ \A x \in Player : last[x] \in LastWritten(x)
        /\ mem' = [mem EXCEPT ![p][t] = [fill |-> "read", track |-> last]]
      BY DEF Fill
<1>2. mem \in [Proc -> [Periods -> Memories]] /\ [fill |-> "read", track |-> last] \in Memories
      BY DEF MInv, TypeOK, Memories
<1>3. mem' = [mem EXCEPT ![p] = [mem[p] EXCEPT ![t] = [fill |-> "read", track |-> last]]]
      /\ [mem[p] EXCEPT ![t] = [fill |-> "read", track |-> last]] \in [Periods -> Memories]
      BY <1>1, <1>2
<1>4. ASSUME NEW q \in Proc, NEW u \in Periods
      PROVE  mem'[q][u] = IF q = p /\ u = t THEN [fill |-> "read", track |-> last] ELSE mem[q][u]
      BY <1>2, <1>3, <1>4
<1>5. TypeOK'
      BY <1>2, <1>3 DEF MInv, TypeOK, Fill
<1>6. UNCHANGED <<now, job, row>> /\ mem[p][t].fill = "asked"
      BY DEF Fill
<1>7. ASSUME NEW b \in Batch, job[b].at = "decided"
      PROVE  mem'[job[b].proc][job[b].of] = mem[job[b].proc][job[b].of]
  <2>1. job[b].proc \in Proc /\ job[b].of \in Periods /\ mem[job[b].proc][job[b].of].fill = "read"
        BY <1>7, Parts DEF MInv, JobSound
  <2> QED BY <1>4, <1>6, <2>1
<1>8. ASSUME NEW x \in Player, last[x] # Never
      PROVE  \E r \in row : r.to = x /\ r.created = last[x]
  <2>1. Whispered(x) # {} /\ last[x] \in Whispered(x)
        BY <1>1, <1>8 DEF LastWritten
  <2> QED BY <2>1 DEF Whispered
<1>9. ASSUME NEW q \in Proc, NEW u \in Periods
      PROVE  \/ mem'[q][u] = mem[q][u]
             \/ \A x \in Player : mem'[q][u].track[x] # Never =>
                  \E r \in row : r.to = x /\ r.created = mem'[q][u].track[x]
      BY <1>4, <1>8
<1> QED BY <1>5, <1>6, <1>7, <1>9, Narrowed

LEMMA FillFailsMInv ==
  ASSUME MInv, NEW p \in Proc, NEW t \in Periods, FillFails(p, t)
  PROVE  MInv'
<1>1. mem \in [Proc -> [Periods -> Memories]] /\ [mem[p] EXCEPT ![t] = NoMemory] \in [Periods -> Memories]
      /\ mem' = [mem EXCEPT ![p] = [mem[p] EXCEPT ![t] = NoMemory]]
      BY Constructed DEF MInv, TypeOK, FillFails
<1>2. ASSUME NEW q \in Proc, NEW u \in Periods
      PROVE  mem'[q][u] = IF q = p /\ u = t THEN NoMemory ELSE mem[q][u]
      BY <1>1, <1>2
<1>3. ASSUME NEW b \in Batch
      PROVE  job'[b] = IF job[b].at = "waiting" /\ job[b].proc = p /\ job[b].of = t THEN Over ELSE job[b]
      BY <1>3 DEF FillFails
<1>4. TypeOK'
  <2>1. mem' \in [Proc -> [Periods -> Memories]]
        BY <1>1
  <2>2. job' \in [Batch -> Jobs]
        BY Constructed, Parts DEF MInv, FillFails
  <2> QED BY <2>1, <2>2 DEF MInv, TypeOK, FillFails
<1>5. UNCHANGED <<now, row>> /\ mem[p][t].fill = "asked"
      BY DEF FillFails
<1>6. ASSUME NEW b \in Batch, job[b].at = "decided"
      PROVE  mem'[job[b].proc][job[b].of] = mem[job[b].proc][job[b].of] /\ job'[b] = job[b]
  <2>1. job[b].proc \in Proc /\ job[b].of \in Periods /\ mem[job[b].proc][job[b].of].fill = "read"
        BY <1>6, Parts DEF MInv, JobSound
  <2> QED BY <1>2, <1>3, <1>5, <1>6, <2>1
<1>7. ASSUME NEW b \in Batch, job'[b].at = "decided"
      PROVE  job[b].at = "decided"
      BY <1>3, <1>7, Constructed
<1> QED BY <1>2, <1>3, <1>4, <1>5, <1>6, <1>7, Constructed, Narrowed

(* A batch that picked players, and where it left the memory. *)
Picked(b, P) ==
    /\ job[b].at = "waiting" /\ job[b].proc \in Proc /\ P \subseteq Player
    /\ mem[job[b].proc][job[b].of].fill = "read"
    /\ \A x \in P : ~Cooling(Track(b)[x], job[b].stamp)
    /\ \A c \in Batch \ {b} : job'[c] = job[c]
    /\ job'[b].at = "decided" /\ job'[b].proc = job[b].proc /\ job'[b].of = job[b].of
    /\ job'[b].stamp = job[b].stamp /\ job'[b].picks = P
    /\ \A x \in P : job'[b].before[x] = Track(b)[x]
    /\ \A q \in Proc, t \in Periods : mem'[q][t].fill = mem[q][t].fill
    /\ \A q \in Proc, t \in Periods, x \in Player :
         mem'[q][t].track[x] = IF q = job[b].proc /\ t = job[b].of /\ x \in P THEN job[b].stamp
                               ELSE mem[q][t].track[x]
    /\ UNCHANGED <<now, lease, since, epoch, row>>

LEMMA DecideIs ==
  ASSUME MInv, NEW b \in Batch, NEW deaths \in SUBSET Player, Decide(b, deaths)
  PROVE  /\ TypeOK'
         /\ \/ UNCHANGED <<now, lease, since, epoch, mem, row>> /\ job' = [job EXCEPT ![b] = Over]
            \/ \E P \in SUBSET Player : Picked(b, P)
<1> DEFINE P == {x \in deaths : ~Cooling(Track(b)[x], job[b].stamp)}
<1> DEFINE old == [x \in Player |-> IF x \in P THEN Track(b)[x] ELSE Never]
<1> DEFINE moved == [x \in Player |-> IF x \in P THEN job[b].stamp ELSE Track(b)[x]]
<1> DEFINE done == [job[b] EXCEPT !.at = "decided", !.picks = P, !.before = old]
<1>1. /\ job[b].proc \in Proc /\ job[b].of \in Periods /\ job[b].stamp \in Times
      /\ Track(b) \in [Player -> Times] /\ job[b] \in Jobs /\ P \in SUBSET Player
      BY Parts DEF Decide, MInv, JobSound, Track
<1>2. old \in [Player -> Times] /\ moved \in [Player -> Times]
      BY <1>1, Constructed
<1>3. CASE P = {}
  <2>1. UNCHANGED <<now, lease, since, epoch, mem, row>> /\ job' = [job EXCEPT ![b] = Over]
        BY <1>3 DEF Decide
  <2> QED BY <2>1, Constructed DEF MInv, TypeOK
<1>4. CASE P # {}
  <2>1. job' = [job EXCEPT ![b] = done] /\ mem' = Tracked(job[b].proc, job[b].of, moved)
        BY <1>1, <1>4 DEF Decide, MInv, TypeOK, Tracked, Track
  <2>2. done \in Jobs /\ done.at = "decided" /\ done.proc = job[b].proc /\ done.of = job[b].of
        /\ done.stamp = job[b].stamp /\ done.picks = P /\ done.before = old
        BY <1>1, <1>2 DEF Jobs
  <2>3. \A x \in P : old[x] = Track(b)[x]
        BY <1>1
  <2>4. TypeOK /\ job \in [Batch -> Jobs]
        BY DEF MInv, TypeOK
  <2> HIDE DEF done
  <2>5. job' \in [Batch -> Jobs] /\ job'[b] = done /\ \A c \in Batch \ {b} : job'[c] = job[c]
        BY <2>1, <2>2, <2>4
  <2>6. \A x \in P : ~Cooling(Track(b)[x], job[b].stamp)
        OBVIOUS
  <2> HIDE DEF old, P, moved
  <2>7. /\ mem' \in [Proc -> [Periods -> Memories]]
        /\ \A q \in Proc, t \in Periods :
             /\ mem'[q][t].fill = mem[q][t].fill
             /\ mem'[q][t].track = IF q = job[b].proc /\ t = job[b].of THEN moved ELSE mem[q][t].track
        BY <1>1, <1>2, <2>1, <2>4, TrackedIs
  <2>8. TypeOK'
        BY <2>4, <2>5, <2>7 DEF TypeOK, Decide
  <2>9. ASSUME NEW q \in Proc, NEW t \in Periods, NEW x \in Player
        PROVE  mem'[q][t].track[x] = IF q = job[b].proc /\ t = job[b].of /\ x \in P THEN job[b].stamp
                                     ELSE mem[q][t].track[x]
    <3>1. CASE q = job[b].proc /\ t = job[b].of
      <4>1. mem'[q][t].track = moved /\ mem[q][t].track = Track(b)
            BY <3>1, <2>7 DEF Track
      <4> QED BY <3>1, <4>1 DEF moved
    <3>2. CASE ~(q = job[b].proc /\ t = job[b].of)
          BY <3>2, <2>7
    <3> QED BY <3>1, <3>2
  <2>10. UNCHANGED <<now, lease, since, epoch, row>> /\ job[b].at = "waiting"
         /\ mem[job[b].proc][job[b].of].fill = "read"
         BY DEF Decide
  <2> QED BY <1>1, <2>2, <2>3, <2>5, <2>7, <2>8, <2>9, <2>6, <2>10 DEF Picked
<1> QED BY <1>3, <1>4

(* Whom it picked had left the cooldown, so it came a cooldown after every *)
(* batch that moved them before.                                           *)
LEMMA PickedMInv ==
  ASSUME MInv, TypeOK', NEW b \in Batch, NEW P \in SUBSET Player, Picked(b, P)
  PROVE  MInv'
<1>1. /\ now \in Nat /\ COOLDOWN \in Nat \ {0} /\ job[b].proc \in Proc /\ job[b].of \in Periods
      /\ job[b].stamp \in Nat \ {Never} /\ job[b].stamp <= now /\ now' = now /\ row' = row
      BY Parts, TimeAssumption DEF MInv, JobSound, Picked, Never
<1>2. ASSUME NEW c \in Batch \ {b}
      PROVE  job'[c] = job[c]
      BY DEF Picked
<1>3. ASSUME NEW c \in Batch, job[c].at = "decided", job[c].proc = job[b].proc, job[c].of = job[b].of,
             NEW x \in P, x \in job[c].picks
      PROVE  /\ job[c].stamp <= Track(b)[x] /\ job[c].stamp + COOLDOWN <= job[b].stamp
             /\ Track(b)[x] = Track(c)[x] /\ job[c].stamp \in Nat
  <2>1. job[c].stamp <= Track(c)[x] /\ job[c].stamp # Never /\ job[c].stamp \in Nat
        BY <1>3, Parts DEF MInv, JobSound
  <2>2. Track(c)[x] = Track(b)[x] /\ Track(b)[x] \in Nat /\ ~Cooling(Track(b)[x], job[b].stamp)
        BY <1>1, <1>3, Parts DEF MInv, Track, Picked
  <2> QED BY <1>1, <2>1, <2>2 DEF Cooling, Never
<1>4. ASSUME NEW c \in Batch
      PROVE  JobSound(c)'
  <2>1. CASE c = b
    <3>1. ASSUME NEW x \in P
          PROVE  Track(b)'[x] = job[b].stamp
          BY <1>1, <3>1 DEF Picked, Track
    <3> QED BY <1>1, <2>1, <3>1 DEF JobSound, Picked, Cooling
  <2>2. CASE c # b
    <3>1. JobSound(c) /\ job'[c] = job[c]
          BY <1>2, <2>2 DEF MInv
    <3>2. ASSUME job[c].at = "decided"
          PROVE  /\ mem'[job[c].proc][job[c].of].fill = "read"
                 /\ \A x \in job[c].picks : job[c].stamp <= Track(c)'[x]
      <4>1. job[c].proc \in Proc /\ job[c].of \in Periods /\ job[c].picks \subseteq Player
            BY <3>1, <3>2, Parts DEF MInv, JobSound
      <4>2. mem'[job[c].proc][job[c].of].fill = "read"
            BY <3>1, <3>2, <4>1 DEF Picked, JobSound
      <4>3. ASSUME NEW x \in job[c].picks
            PROVE  job[c].stamp <= Track(c)'[x]
        <5>1. Track(c)'[x] = IF job[c].proc = job[b].proc /\ job[c].of = job[b].of /\ x \in P
                             THEN job[b].stamp ELSE Track(c)[x]
              BY <3>1, <4>1, <4>3 DEF Picked, Track
        <5>2. job[c].stamp <= Track(c)[x]
              BY <3>1, <3>2, <4>3 DEF JobSound
        <5>3. CASE job[c].proc = job[b].proc /\ job[c].of = job[b].of /\ x \in P
              BY <1>1, <1>3, <3>2, <4>3, <5>1, <5>3
        <5>4. CASE ~(job[c].proc = job[b].proc /\ job[c].of = job[b].of /\ x \in P)
              BY <5>1, <5>2, <5>4
        <5> QED BY <5>3, <5>4
      <4> QED BY <4>2, <4>3
    <3> QED BY <1>1, <3>1, <3>2 DEF JobSound
  <2> QED BY <2>1, <2>2
<1>5. ASSUME NEW r \in row'
      PROVE  RowSound(r)'
      BY <1>1 DEF MInv, RowSound
<1>6. ASSUME NEW c \in Batch \ {b}, job[c].at = "decided", job[c].proc = job[b].proc, job[c].of = job[b].of,
             NEW x \in P, x \in job[c].picks
      PROVE  Before(c, b, x)'
      BY <1>2, <1>3, <1>6 DEF Picked, Before
<1>7. ASSUME NEW c \in Batch, NEW d \in Batch
      PROVE  Ordered(c, d)'
  <2>1. CASE c # b /\ d # b
    <3>1. Ordered(c, d) /\ job'[c] = job[c] /\ job'[d] = job[d]
          BY <1>2, <2>1 DEF MInv
    <3> QED BY <3>1 DEF Ordered, Together, Before
  <2>2. CASE c = b /\ d # b
        BY <1>2, <1>6, <2>2 DEF Ordered, Together, Picked
  <2>3. CASE c # b /\ d = b
        BY <1>2, <1>6, <2>3 DEF Ordered, Together, Picked
  <2>4. CASE c = d
        BY <2>4 DEF Ordered, Together
  <2> QED BY <2>1, <2>2, <2>3, <2>4
<1>8. ASSUME NEW p \in Proc, NEW t \in Periods, NEW x \in Player
      PROVE  Backed(p, t, x)'
  <2>1. CASE p = job[b].proc /\ t = job[b].of /\ x \in P
    <3>1. mem'[p][t].track[x] = job[b].stamp
          BY <2>1 DEF Picked
    <3> QED BY <2>1, <3>1 DEF Backed, Picked, UnderWay
  <2>2. CASE ~(p = job[b].proc /\ t = job[b].of /\ x \in P)
    <3>1. mem'[p][t].track[x] = mem[p][t].track[x] /\ mem'[p][t].fill = mem[p][t].fill
          BY <2>2 DEF Picked
    <3>2. ASSUME NEW c \in UnderWay(p), job[c].at = "decided"
          PROVE  c \in UnderWay(p)' /\ job'[c] = job[c]
          BY <1>2, <3>2 DEF Picked, UnderWay
    <3>3. Backed(p, t, x)
          BY DEF MInv
    <3> QED BY <1>1, <3>1, <3>2, <3>3 DEF Backed
  <2> QED BY <2>1, <2>2
<1> QED BY <1>4, <1>5, <1>7, <1>8 DEF MInv

LEMMA DecideMInv ==
  ASSUME MInv, NEW b \in Batch, NEW deaths \in SUBSET Player, Decide(b, deaths)
  PROVE  MInv'
<1>1. CASE UNCHANGED <<now, lease, since, epoch, mem, row>> /\ job' = [job EXCEPT ![b] = Over]
  <2>1. \A c \in Batch : job'[c] = IF c = b THEN Over ELSE job[c]
        BY <1>1 DEF MInv, TypeOK
  <2>2. job[b].at = "waiting"
        BY DEF Decide
  <2> QED BY <1>1, <2>1, <2>2, DecideIs, Constructed, Narrowed
<1>2. CASE \E P \in SUBSET Player : Picked(b, P)
      BY <1>2, DecideIs, PickedMInv
<1> QED BY <1>1, <1>2, DecideIs

LEMMA WrittenIs ==
  ASSUME MInv, NEW b \in Batch, job[b].at = "decided", NEW answer \in {"heard", "lost"}
  PROVE  /\ Written(b, answer) \subseteq Rows
         /\ \A r \in Written(b, answer) :
              /\ r.to \in job[b].picks /\ r.decided = job[b].stamp /\ r.created = now
              /\ r.answer = answer /\ r.by = b /\ r.old = FromOld(b) /\ RowSound(r)
         /\ \A x \in job[b].picks : \E r \in Written(b, answer) : r.to = x /\ r.decided = job[b].stamp
         /\ \A r, s \in Written(b, answer) : r.to = s.to => r = s
<1>1. /\ job[b].picks \subseteq Player /\ job[b].stamp \in Times /\ now \in Times /\ now \in Nat
      /\ job[b].stamp # Never /\ job[b].stamp <= now
      BY Parts DEF MInv, JobSound
<1>2. ASSUME NEW r \in Written(b, answer)
      PROVE  /\ r \in Rows /\ r.to \in job[b].picks /\ r.decided = job[b].stamp /\ r.created = now
             /\ r.answer = answer /\ r.by = b /\ r.old = FromOld(b)
  <2> DEFINE old == FromOld(b)
  <2>1. old \in BOOLEAN
        BY DEF FromOld
  <2>2. r \in {[to |-> x, by |-> b, decided |-> job[b].stamp, created |-> now,
                answer |-> answer, old |-> old] : x \in job[b].picks}
        BY <1>2 DEF Written
  <2> HIDE DEF old
  <2>3. /\ r \in Rows /\ r.to \in job[b].picks /\ r.decided = job[b].stamp /\ r.created = now
        /\ r.answer = answer /\ r.by = b /\ r.old = old
        BY <1>1, <2>1, <2>2 DEF Rows
  <2> QED BY <2>3 DEF old
<1>3. ASSUME NEW x \in job[b].picks
      PROVE  \E r \in Written(b, answer) : r.to = x /\ r.decided = job[b].stamp
  <2> DEFINE entry == [to |-> x, by |-> b, decided |-> job[b].stamp, created |-> now,
                       answer |-> answer, old |-> FromOld(b)]
  <2>1. entry \in Written(b, answer) /\ entry.to = x /\ entry.decided = job[b].stamp
        BY DEF Written
  <2> HIDE DEF entry
  <2> QED BY <2>1
<1>4. ASSUME NEW r \in Written(b, answer), NEW s \in Written(b, answer), r.to = s.to
      PROVE  r = s
  <2> DEFINE entry(x) == [to |-> x, by |-> b, decided |-> job[b].stamp, created |-> now,
                          answer |-> answer, old |-> FromOld(b)]
  <2>1. PICK x \in job[b].picks : r = entry(x)
        BY DEF Written
  <2>2. PICK y \in job[b].picks : s = entry(y)
        BY DEF Written
  <2>3. x = y
        BY <1>4, <2>1, <2>2
  <2> QED BY <2>1, <2>2, <2>3
<1> QED BY <1>1, <1>2, <1>3, <1>4 DEF RowSound

LEMMA CommitMInv == ASSUME MInv, NEW b \in Batch, Commit(b) PROVE MInv'
<1>1. /\ job[b].at = "decided" /\ row' = row \cup Written(b, "heard") /\ job' = [job EXCEPT ![b] = Over]
      /\ UNCHANGED <<now, lease, since, epoch, mem>>
      BY DEF Commit
<1>2. \A c \in Batch : job'[c] = IF c = b THEN Over ELSE job[c]
      BY <1>1 DEF MInv, TypeOK
<1>3. TypeOK'
      BY <1>1, WrittenIs, Constructed DEF MInv, TypeOK
<1>4. ASSUME NEW c \in Batch
      PROVE  JobSound(c)'
      BY <1>1, <1>2, Constructed DEF MInv, JobSound, Track, Cooling
<1>5. ASSUME NEW r \in row'
      PROVE  RowSound(r)'
      BY <1>1, WrittenIs DEF MInv, RowSound
<1>6. ASSUME NEW c \in Batch, NEW d \in Batch
      PROVE  Ordered(c, d)'
      BY <1>2, Constructed DEF MInv, Ordered, Together, Before
<1>7. ASSUME NEW p \in Proc, NEW t \in Periods, NEW x \in Player
      PROVE  Backed(p, t, x)'
  <2>1. Backed(p, t, x)
        BY DEF MInv
  <2>2. ASSUME x \in job[b].picks
        PROVE  \E r \in row' : r.to = x /\ r.decided = job[b].stamp
    <3>1. \E r \in Written(b, "heard") : r.to = x /\ r.decided = job[b].stamp
          BY <1>1, <2>2, WrittenIs
    <3> QED BY <1>1, <3>1
  <2>3. ASSUME NEW c \in UnderWay(p), c # b
        PROVE  c \in UnderWay(p)' /\ job'[c] = job[c]
        BY <1>2, <2>3 DEF UnderWay
  <2> QED BY <1>1, <2>1, <2>2, <2>3 DEF Backed
<1> QED BY <1>3, <1>4, <1>5, <1>6, <1>7 DEF MInv

(* An undo puts back what was no longer cooling when the batch picked, and *)
(* takes back nobody a later batch has moved on.                           *)
LEMMA UndoMInv ==
  ASSUME MInv, TypeOK', NEW b \in Batch, job[b].at = "decided",
         mem' = Undone(b), job' = [job EXCEPT ![b] = Over], now' = now,
         row \subseteq row', \A r \in row' : RowSound(r)
  PROVE  MInv'
<1>1. /\ now \in Nat /\ COOLDOWN \in Nat \ {0} /\ job[b].proc \in Proc /\ job[b].of \in Periods
      /\ job[b].stamp \in Nat \ {Never} /\ job[b].stamp <= now
      BY Parts, TimeAssumption DEF MInv, JobSound, Never
<1>2. \A c \in Batch : job'[c] = IF c = b THEN Over ELSE job[c]
      BY DEF MInv, TypeOK
<1>3. ASSUME NEW q \in Proc, NEW t \in Periods
      PROVE  /\ mem'[q][t].fill = mem[q][t].fill
             /\ mem'[q][t].track = IF q = job[b].proc /\ t = job[b].of THEN Restored(b)
                                   ELSE mem[q][t].track
      BY <1>1, UndoneIs, TrackedIs DEF MInv
<1>4. ASSUME NEW x \in Player
      PROVE  Restored(b)[x] = IF x \in job[b].picks /\ Track(b)[x] = job[b].stamp
                              THEN job[b].before[x] ELSE Track(b)[x]
      BY DEF Restored
<1>5. ASSUME NEW q \in Proc, NEW t \in Periods, NEW x \in Player
      PROVE  mem'[q][t].track[x] =
               IF q = job[b].proc /\ t = job[b].of /\ x \in job[b].picks /\ mem[q][t].track[x] = job[b].stamp
               THEN job[b].before[x] ELSE mem[q][t].track[x]
      BY <1>3, <1>4 DEF Track
<1>6. ASSUME NEW c \in Batch
      PROVE  JobSound(c)'
  <2>1. CASE c = b
        BY <1>2, <2>1, Constructed DEF JobSound
  <2>2. CASE c # b
    <3>1. JobSound(c) /\ job'[c] = job[c] /\ job[c].stamp \in Nat
          BY <1>2, <2>2, Parts DEF MInv
    <3>2. ASSUME job[c].at = "decided"
          PROVE  /\ mem'[job[c].proc][job[c].of].fill = "read"
                 /\ \A x \in job[c].picks : job[c].stamp <= Track(c)'[x]
      <4>1. job[c].proc \in Proc /\ job[c].of \in Periods /\ job[c].picks \subseteq Player
            BY <3>1, <3>2, Parts DEF MInv, JobSound
      <4>2. mem'[job[c].proc][job[c].of].fill = "read"
            BY <1>3, <3>1, <3>2, <4>1 DEF JobSound
      <4>3. ASSUME NEW x \in job[c].picks
            PROVE  job[c].stamp <= Track(c)'[x]
        <5>1. Track(c)'[x] = mem'[job[c].proc][job[c].of].track[x]
              BY <3>1 DEF Track
        <5>2. job[c].stamp <= Track(c)[x]
              BY <3>1, <3>2, <4>3 DEF JobSound
        <5>3. CASE /\ job[c].proc = job[b].proc /\ job[c].of = job[b].of
                   /\ x \in job[b].picks /\ Track(c)[x] = job[b].stamp
          <6>1. Before(b, c, x) \/ Before(c, b, x)
                BY <2>2, <3>2, <4>3, <5>3 DEF MInv, Ordered, Together
          <6>2. ~Before(b, c, x)
                BY <1>1, <3>1, <5>2, <5>3 DEF Before
          <6>3. Track(c)'[x] = job[b].before[x]
                BY <1>5, <4>1, <5>1, <5>3 DEF Track
          <6> QED BY <6>1, <6>2, <6>3 DEF Before
        <5>4. CASE ~(/\ job[c].proc = job[b].proc /\ job[c].of = job[b].of
                     /\ x \in job[b].picks /\ Track(c)[x] = job[b].stamp)
          <6>1. Track(c)'[x] = Track(c)[x]
                BY <1>5, <4>1, <5>1, <5>4 DEF Track
          <6> QED BY <5>2, <6>1
        <5> QED BY <5>3, <5>4
      <4> QED BY <4>2, <4>3
    <3> QED BY <1>1, <3>1, <3>2 DEF JobSound
  <2> QED BY <2>1, <2>2
<1>7. ASSUME NEW r \in row'
      PROVE  RowSound(r)'
      BY DEF RowSound
<1>8. ASSUME NEW c \in Batch, NEW d \in Batch
      PROVE  Ordered(c, d)'
      BY <1>2, Constructed DEF MInv, Ordered, Together, Before
<1>9. ASSUME NEW p \in Proc, NEW t \in Periods, NEW x \in Player
      PROVE  Backed(p, t, x)'
  <2>1. Backed(p, t, x) /\ mem'[p][t].fill = mem[p][t].fill /\ mem[p][t].track[x] \in Nat
        BY <1>3, Parts DEF MInv
  <2>2. CASE /\ p = job[b].proc /\ t = job[b].of /\ x \in job[b].picks
             /\ mem[p][t].track[x] = job[b].stamp
    <3>1. mem'[p][t].track[x] = job[b].before[x] /\ job[b].before[x] \in Nat
          BY <1>5, <2>2, Parts DEF MInv
    <3>2. ~Cooling(job[b].before[x], job[b].stamp)
          BY <2>2 DEF MInv, JobSound
    <3>3. ~Cooling(mem'[p][t].track[x], now)
          BY <1>1, <3>1, <3>2 DEF Cooling
    <3> QED BY <3>3 DEF Backed, Cooling
  <2>3. CASE ~(/\ p = job[b].proc /\ t = job[b].of /\ x \in job[b].picks
               /\ mem[p][t].track[x] = job[b].stamp)
    <3>1. mem'[p][t].track[x] = mem[p][t].track[x]
          BY <1>5, <2>3
    <3>2. ASSUME NEW c \in UnderWay(p), c # b
          PROVE  c \in UnderWay(p)' /\ job'[c] = job[c]
          BY <1>2, <3>2 DEF UnderWay
    <3>3. b \in UnderWay(p) => job[b].proc = p
          BY DEF UnderWay
    <3> QED BY <2>1, <2>3, <3>1, <3>2, <3>3 DEF Backed, Cooling
  <2> QED BY <2>2, <2>3
<1> QED BY <1>6, <1>7, <1>8, <1>9 DEF MInv

LEMMA UndoType ==
  ASSUME MInv, NEW b \in Batch, Fail(b) \/ CommitUnheard(b)
  PROVE  /\ TypeOK' /\ job[b].at = "decided" /\ job[b].proc \in Proc
         /\ mem' = Undone(b) /\ job' = [job EXCEPT ![b] = Over]
         /\ UNCHANGED <<now, lease, since, epoch>>
         /\ row' = row \/ row' = row \cup Written(b, "lost")
<1>1. /\ job[b].at = "decided" /\ mem' = Undone(b) /\ job' = [job EXCEPT ![b] = Over]
      /\ UNCHANGED <<now, lease, since, epoch>>
      /\ row' = row \/ row' = row \cup Written(b, "lost")
      BY DEF Fail, CommitUnheard
<1>2. job[b].proc \in Proc /\ job[b].of \in Periods
      BY <1>1, Parts DEF MInv, JobSound
<1>3. mem' \in [Proc -> [Periods -> Memories]]
      BY <1>1, <1>2, UndoneIs, TrackedIs DEF MInv
<1>4. row' \subseteq Rows
      BY <1>1, WrittenIs DEF MInv, TypeOK
<1>5. job' \in [Batch -> Jobs]
      BY <1>1, Constructed DEF MInv, TypeOK
<1> QED BY <1>1, <1>2, <1>3, <1>4, <1>5 DEF MInv, TypeOK

LEMMA BackMInv ==
  ASSUME MInv, NEW b \in Batch, Fail(b) \/ CommitUnheard(b)
  PROVE  MInv'
<1>1. row \subseteq row' /\ \A r \in row' : RowSound(r)
      BY UndoType, WrittenIs DEF MInv
<1> QED BY <1>1, UndoType, UndoMInv

LEMMA NextMInv == MInv /\ [Next]_vars => MInv'
<1> SUFFICES ASSUME MInv, [Next]_vars PROVE MInv'
    OBVIOUS
<1>1. ASSUME NEW p \in Proc, Worker(p)
      PROVE  MInv'
      BY <1>1, LeaseMInv, BeatMInv, RestartMInv, FillMInv, FillFailsMInv DEF Worker
<1>2. ASSUME NEW b \in Batch, Handle(b)
      PROVE  MInv'
      BY <1>2, ArriveMInv, DecideMInv, CommitMInv, BackMInv DEF Handle
<1>3. CASE UNCHANGED vars
  <2>1. TypeOK'
        BY <1>3 DEF vars, MInv, TypeOK
  <2>2. now <= now'
        BY <1>3, Parts DEF vars, MInv
  <2> QED BY <1>3, <2>1, <2>2, LaterMInv DEF vars
<1> QED BY <1>1, <1>2, <1>3, TickMInv DEF Next

-----------------------------------------------------------------------------
(* Periods are counted *)

BInv == \A p \in Proc : Behind(p)

LEMMA PeriodsAre ==
  ASSUME TypeOK
  PROVE  /\ lease.period \in Nat /\ lease.period \in Periods
         /\ \A p \in Proc : /\ since[p] \in Nat /\ since[p] \in Periods
                            /\ epoch[p] \in Nat /\ epoch[p] \in Periods
         /\ \A b \in Batch : job[b].of \in Nat
<1>1. Periods \subseteq Nat
      BY PeriodAssumption DEF Periods, NoPeriod
<1>2. \A b \in Batch : job[b].of \in Periods
      BY Parts
<1> QED BY <1>1, <1>2 DEF TypeOK

LEMMA SamePeriods ==
  ASSUME TypeOK, BInv, UNCHANGED <<lease, since, epoch>>,
         \A b \in Batch : \/ job'[b].at \in {"new", "over"}
                          \/ /\ job[b].at \in {"waiting", "decided"}
                             /\ job'[b].proc = job[b].proc /\ job'[b].of = job[b].of
                          \/ job'[b].of = epoch[job'[b].proc]
  PROVE  BInv'
<1> SUFFICES ASSUME NEW p \in Proc PROVE Behind(p)'
    BY DEF BInv
<1>1. Behind(p) /\ epoch[p] \in Nat /\ lease.period \in Nat
      BY PeriodsAre DEF BInv
<1>2. ASSUME NEW b \in UnderWay(p)'
      PROVE  job'[b].of <= lease.period /\ (job'[b].of = lease.period => epoch[p] = lease.period)
  <2>1. b \in Batch /\ job'[b].proc = p /\ job'[b].at \in {"waiting", "decided"}
        BY <1>2 DEF UnderWay
  <2>2. CASE /\ job[b].at \in {"waiting", "decided"}
             /\ job'[b].proc = job[b].proc /\ job'[b].of = job[b].of
    <3>1. b \in UnderWay(p)
          BY <2>1, <2>2 DEF UnderWay
    <3> QED BY <1>1, <2>2, <3>1 DEF Behind
  <2>3. CASE job'[b].of = epoch[job'[b].proc]
        BY <1>1, <2>1, <2>3 DEF Behind
  <2> QED BY <2>1, <2>2, <2>3
<1> QED BY <1>1, <1>2 DEF Behind

LEMMA WorkerBInv == ASSUME MInv, BInv, NEW p \in Proc, Worker(p) PROVE BInv'
<1>1. TypeOK /\ lease.period \in Nat /\ lease.period \in Periods
      BY PeriodsAre DEF MInv
<1>2. ASSUME NEW q \in Proc
      PROVE  /\ Behind(q) /\ since[q] \in Nat /\ epoch[q] \in Nat
             /\ \A b \in UnderWay(q) : job[b].of \in Nat
      BY <1>1, PeriodsAre DEF BInv, UnderWay
<1>3. CASE HandOver(p)
  <2>1. /\ lease'.period = lease.period + 1
        /\ UNCHANGED <<since, epoch, job>>
        BY <1>3 DEF HandOver
  <2> SUFFICES ASSUME NEW q \in Proc PROVE Behind(q)'
      BY DEF BInv
  <2>2. UnderWay(q)' = UnderWay(q)
        BY <2>1 DEF UnderWay
  <2> QED BY <1>1, <1>2, <2>1, <2>2 DEF Behind
<1>4. CASE Learn(p)
  <2>1. since' = [since EXCEPT ![p] = lease.period] /\ UNCHANGED <<lease, epoch, job>>
        BY <1>4 DEF Learn
  <2> SUFFICES ASSUME NEW q \in Proc PROVE Behind(q)'
      BY DEF BInv
  <2>2. UnderWay(q)' = UnderWay(q)
        BY <2>1 DEF UnderWay
  <2>3. since'[q] = IF q = p THEN lease.period ELSE since[q]
        BY <1>1, <2>1 DEF TypeOK
  <2> QED BY <1>1, <1>2, <2>1, <2>2, <2>3 DEF Behind
<1>5. CASE Beat(p)
  <2>1. epoch' = [epoch EXCEPT ![p] = since[p]] /\ UNCHANGED <<lease, since, job>>
        BY <1>5 DEF Beat
  <2> SUFFICES ASSUME NEW q \in Proc PROVE Behind(q)'
      BY DEF BInv
  <2>2. UnderWay(q)' = UnderWay(q)
        BY <2>1 DEF UnderWay
  <2>3. epoch'[q] = IF q = p THEN since[p] ELSE epoch[q]
        BY <1>1, <2>1 DEF TypeOK
  <2> QED BY <1>1, <1>2, <2>1, <2>2, <2>3 DEF Behind
<1>6. CASE Restart(p)
  <2>1. /\ lease'.period = lease.period
        /\ \A q \in Proc : /\ since'[q] = IF q = p THEN NoPeriod ELSE since[q]
                           /\ epoch'[q] = IF q = p THEN NoPeriod ELSE epoch[q]
        /\ \A b \in Batch : job'[b] = IF b \in UnderWay(p) THEN Over ELSE job[b]
        BY <1>1, <1>6 DEF Restart, TypeOK
  <2> SUFFICES ASSUME NEW q \in Proc PROVE Behind(q)'
      BY DEF BInv
  <2>2. CASE q = p
    <3>1. UnderWay(p)' = {}
          BY <2>1, Constructed DEF UnderWay
    <3> QED BY <1>1, <2>1, <2>2, <3>1 DEF Behind, NoPeriod
  <2>3. CASE q # p
    <3>1. \A b \in UnderWay(q)' : b \in UnderWay(q) /\ job'[b] = job[b]
          BY <2>1, <2>3, Constructed DEF UnderWay
    <3> QED BY <1>2, <2>1, <2>3, <3>1 DEF Behind
  <2> QED BY <2>2, <2>3
<1>7. ASSUME NEW t \in Periods, Fill(p, t) \/ FillFails(p, t)
      PROVE  BInv'
  <2>1. UNCHANGED <<lease, since, epoch>> /\ \A b \in Batch : job'[b] = job[b] \/ job'[b].at = "over"
        BY <1>7, Constructed DEF Fill, FillFails
  <2>2. \A b \in Batch : job[b].at \in {"new", "over", "waiting", "decided"}
        BY <1>1, Parts DEF Jobs
  <2> QED BY <1>1, <2>1, <2>2, SamePeriods
<1> QED BY <1>3, <1>4, <1>5, <1>6, <1>7 DEF Worker

LEMMA HandleBInv == ASSUME MInv, BInv, NEW b \in Batch, Handle(b) PROVE BInv'
<1>1. TypeOK /\ job \in [Batch -> Jobs] /\ \A c \in Batch : job[c].at \in {"new", "over", "waiting", "decided"}
      BY Parts DEF MInv, TypeOK, Jobs
<1>2. UNCHANGED <<lease, since, epoch>> /\ \A c \in Batch \ {b} : job'[c] = job[c]
      BY <1>1 DEF Handle, Arrive, Decide, Commit, Fail, CommitUnheard
<1>3. CASE \E p \in Proc : Arrive(b, p)
  <2>1. job'[b].of = epoch[job'[b].proc]
        BY <1>1, <1>3 DEF Arrive, New
  <2> QED BY <1>1, <1>2, <2>1, SamePeriods
<1>4. CASE \E deaths \in SUBSET Player : Decide(b, deaths)
  <2>1. /\ job[b].at = "waiting"
        /\ \/ job'[b].at = "over"
           \/ job'[b].proc = job[b].proc /\ job'[b].of = job[b].of
    <3>1. PICK deaths \in SUBSET Player : Decide(b, deaths)
          BY <1>4
    <3>2. CASE job' = [job EXCEPT ![b] = Over]
          BY <1>1, <3>1, <3>2, Constructed DEF Decide
    <3>3. CASE job' # [job EXCEPT ![b] = Over]
      <4>1. \E P \in SUBSET Player : Picked(b, P)
            BY <3>1, <3>3, DecideIs
      <4> QED BY <3>1, <4>1 DEF Decide, Picked
    <3> QED BY <3>2, <3>3
  <2> QED BY <1>1, <1>2, <2>1, SamePeriods
<1>5. CASE Commit(b) \/ Fail(b) \/ CommitUnheard(b)
  <2>1. job'[b].at = "over"
        BY <1>1, <1>5, Constructed DEF Commit, Fail, CommitUnheard
  <2> QED BY <1>1, <1>2, <2>1, SamePeriods
<1> QED BY <1>3, <1>4, <1>5 DEF Handle

LEMMA NextBInv == MInv /\ BInv /\ [Next]_vars => BInv'
<1> SUFFICES ASSUME MInv, BInv, [Next]_vars PROVE BInv'
    OBVIOUS
<1>1. CASE UNCHANGED <<lease, since, epoch, job>>
      BY <1>1 DEF BInv, Behind, UnderWay
<1> QED BY <1>1, WorkerBInv, HandleBInv DEF Next, Tick, vars

LEMMA InitBInv == Init => BInv
<1> SUFFICES ASSUME Init, NEW p \in Proc PROVE Behind(p)
    BY DEF BInv
<1>1. UnderWay(p) = {}
      BY Constructed DEF Init, UnderWay
<1> QED BY <1>1 DEF Init, Behind, NoPeriod

-----------------------------------------------------------------------------
(* Under the lease, in the memory of its period *)

LInv ==
    /\ \A p \in Proc : Covered(p)
    /\ \A b \in Batch : Spaced(b)
    /\ OnceUnlessOld

(* A step that writes nothing that counts, gives nobody a memory of the    *)
(* period and no batch of it whispers to write.                            *)
Keeps(p) ==
    Owns(p)' /\ mem'[p][epoch'[p]].fill = "read" =>
        Owns(p) /\ mem'[p][epoch'[p]] = mem[p][epoch[p]]
Drops(b) == job'[b].at = "decided" /\ Fresh(b)' => job'[b] = job[b] /\ Fresh(b)

LEMMA OnceIs ==
  OnceUnlessOld <=> \A r, s \in row : Counts(r) /\ Counts(s) /\ r # s /\ r.to = s.to => Apart(r, s)
BY DEF OnceUnlessOld, AllApart, Counts

LEMMA OnceWas ==
  ASSUME OnceUnlessOld, \A r \in row' : Counts(r) => r \in row
  PROVE  OnceUnlessOld'
BY DEF OnceUnlessOld, AllApart, Counts, Apart

LEMMA Untouched ==
  ASSUME LInv, \A r \in row' : Counts(r) => r \in row,
         \A p \in Proc : Keeps(p), \A b \in Batch : Drops(b)
  PROVE  LInv'
<1>1. ASSUME NEW p \in Proc
      PROVE  Covered(p)'
      BY DEF LInv, Covered, Keeps, Counts
<1>2. ASSUME NEW b \in Batch
      PROVE  Spaced(b)'
      BY DEF LInv, Spaced, Drops, Counts
<1>3. OnceUnlessOld'
      BY OnceWas DEF LInv
<1> QED BY <1>1, <1>2, <1>3 DEF LInv

LEMMA InitLInv == Init => LInv
<1> SUFFICES ASSUME Init PROVE LInv
    OBVIOUS
<1>1. lease.holder \notin Proc /\ row = {} /\ \A b \in Batch : job[b].at = "new"
      BY Constructed, NamesAssumption DEF Init
<1> QED BY <1>1, OnceIs DEF LInv, Covered, Owns, Spaced

(* A batch at work and of the lease's period is in its process' hands.     *)
LEMMA FreshIs ==
  ASSUME MInv, BInv, NEW b \in Batch, job[b].at \in {"waiting", "decided"}, ~FromOld(b)
  PROVE  /\ job[b].proc \in Proc /\ b \in UnderWay(job[b].proc)
         /\ job[b].of = lease.period /\ epoch[job[b].proc] = lease.period
<1>1. job[b].proc \in Proc /\ b \in UnderWay(job[b].proc)
      BY DEF MInv, JobSound, UnderWay
<1> QED BY <1>1 DEF BInv, Behind, FromOld

LEMMA HandOverLInv ==
  ASSUME MInv, BInv, LInv, NEW p \in Proc, HandOver(p)
  PROVE  LInv'
<1>1. /\ lease'.holder = p /\ lease'.period = lease.period + 1 /\ lease.period \in Nat
      /\ UNCHANGED <<now, since, epoch, mem, job, row>>
      BY PeriodsAre DEF MInv, HandOver
<1>2. ASSUME NEW q \in Proc
      PROVE  ~Owns(q)'
      BY <1>1, PeriodsAre DEF Owns, BInv, Behind, MInv
<1>3. ASSUME NEW b \in Batch, job[b].at = "decided"
      PROVE  ~Fresh(b)'
  <2>1. job[b].of \in Nat /\ job[b].of <= lease.period
        BY <1>3, PeriodsAre DEF BInv, Behind, MInv, JobSound, UnderWay
  <2> QED BY <1>1, <2>1 DEF Fresh, FromOld
<1> QED BY <1>1, <1>2, <1>3, Untouched DEF Keeps, Drops

LEMMA LearnLInv == ASSUME MInv, BInv, LInv, NEW p \in Proc, Learn(p) PROVE LInv'
<1>1. UNCHANGED <<now, lease, epoch, mem, job, row>>
      BY DEF Learn
<1> QED BY <1>1, Untouched DEF Keeps, Drops, Owns, Fresh, FromOld

LEMMA BeatLInv == ASSUME MInv, BInv, LInv, NEW p \in Proc, Beat(p) PROVE LInv'
<1>1. /\ since[p] # epoch[p] /\ epoch' = [epoch EXCEPT ![p] = since[p]]
      /\ UNCHANGED <<now, lease, since, job, row>>
      BY DEF Beat
<1>2. /\ mem \in [Proc -> [Periods -> Memories]]
      /\ epoch \in [Proc -> Periods] /\ since \in [Proc -> Periods] /\ since[p] \in Periods
      BY DEF MInv, TypeOK
<1>3. \A q \in Proc \ {p} : epoch'[q] = epoch[q] /\ mem'[q] = mem[q]
      BY <1>1, <1>2 DEF Beat
<1>4. epoch'[p] = since[p]
      BY <1>1, <1>2
<1>5. ASSUME Owns(p)'
      PROVE  mem'[p][epoch'[p]] = NoMemory
  <2>1. since[p] = lease.period /\ epoch[p] # lease.period
        BY <1>1, <1>4, <1>5 DEF Owns
  <2>2. since[p] \notin Kept(p)
        BY <2>1 DEF Kept, BInv, Behind
  <2> QED BY <1>2, <1>4, <2>2 DEF Beat
<1>6. ASSUME NEW q \in Proc
      PROVE  Keeps(q)
      BY <1>1, <1>3, <1>5, Constructed DEF Keeps, Owns
<1>7. \A b \in Batch : Drops(b)
      BY <1>1 DEF Drops, Fresh, FromOld
<1> QED BY <1>1, <1>6, <1>7, Untouched

LEMMA RestartLInv == ASSUME MInv, BInv, LInv, NEW p \in Proc, Restart(p) PROVE LInv'
<1>1. /\ lease'.holder = IF lease.holder = p THEN NoProc ELSE lease.holder
      /\ lease'.period = lease.period
      /\ UNCHANGED <<now, row>>
      BY DEF MInv, TypeOK, Restart
<1>2. \A q \in Proc \ {p} : epoch'[q] = epoch[q] /\ mem'[q] = mem[q]
      BY DEF MInv, TypeOK, Restart
<1>3. \A b \in Batch : job'[b] = IF b \in UnderWay(p) THEN Over ELSE job[b]
      BY DEF Restart
<1>4. ASSUME NEW q \in Proc
      PROVE  Keeps(q)
      BY <1>1, <1>2, NamesAssumption DEF Keeps, Owns
<1>5. ASSUME NEW b \in Batch
      PROVE  Drops(b)
  <2> SUFFICES ASSUME job'[b].at = "decided", Fresh(b)' PROVE job'[b] = job[b] /\ Fresh(b)
      BY DEF Drops
  <2>1. job'[b] = job[b]
        BY <1>3, Constructed
  <2>2. job[b].proc \in Proc
        BY <2>1 DEF MInv, JobSound
  <2> QED BY <1>1, <2>1, <2>2, NamesAssumption DEF Fresh, FromOld
<1> QED BY <1>1, <1>4, <1>5, Untouched

LEMMA ArriveLInv ==
  ASSUME MInv, LInv, NEW b \in Batch, NEW p \in Proc, Arrive(b, p)
  PROVE  LInv'
<1>1. UNCHANGED <<now, lease, since, epoch, row>>
      BY DEF Arrive
<1>2. epoch[p] \in Periods /\ mem \in [Proc -> [Periods -> Memories]] /\ job \in [Batch -> Jobs]
      BY DEF MInv, TypeOK
<1>3. (\A c \in Batch \ {b} : job'[c] = job[c]) /\ job'[b].at = "waiting"
      BY <1>2 DEF Arrive, New
<1>4. ASSUME NEW q \in Proc, NEW t \in Periods, mem'[q][t].fill = "read"
      PROVE  mem'[q][t] = mem[q][t]
  <2> DEFINE asked == [mem[p][epoch[p]] EXCEPT !.fill = IF @ = "none" THEN "asked" ELSE @]
  <2>1. mem[p][epoch[p]] \in Memories
        BY <1>2
  <2>2. asked.fill = "read" => asked = mem[p][epoch[p]]
        BY <2>1 DEF Memories
  <2>3. mem' = [mem EXCEPT ![p] = [mem[p] EXCEPT ![epoch[p]] = asked]]
        BY <1>2 DEF Arrive
  <2> HIDE DEF asked
  <2>4. mem'[q][t] = IF q = p /\ t = epoch[p] THEN asked ELSE mem[q][t]
        BY <1>2, <2>3
  <2> QED BY <1>4, <2>2, <2>4
<1>5. ASSUME NEW q \in Proc
      PROVE  Keeps(q)
  <2>1. epoch[q] \in Periods
        BY DEF MInv, TypeOK
  <2> QED BY <1>1, <1>4, <2>1 DEF Keeps, Owns
<1>6. ASSUME NEW c \in Batch
      PROVE  Drops(c)
      BY <1>1, <1>3 DEF Drops, Fresh, FromOld
<1> QED BY <1>1, <1>5, <1>6, Untouched

(* A memory read from the table knows of every row there is. *)
LEMMA FillLInv ==
  ASSUME MInv, LInv, NEW p \in Proc, NEW t \in Periods, Fill(p, t)
  PROVE  LInv'
<1>1. PICK last \in [Player -> Times] :
        /\ \A x \in Player : last[x] \in LastWritten(x)
        /\ mem' = [mem EXCEPT ![p][t] = [fill |-> "read", track |-> last]]
      BY DEF Fill
<1>2. UNCHANGED <<now, lease, since, epoch, job, row>>
      BY DEF Fill
<1>3. mem \in [Proc -> [Periods -> Memories]]
      BY DEF MInv, TypeOK
<1>4. ASSUME NEW q \in Proc, NEW u \in Periods
      PROVE  mem'[q][u] = IF q = p /\ u = t THEN [fill |-> "read", track |-> last] ELSE mem[q][u]
      BY <1>1, <1>3, <1>4
<1>5. ASSUME NEW r \in row
      PROVE  r.decided <= last[r.to]
  <2>1. r.to \in Player /\ r.decided \in Nat /\ r.created \in Nat /\ r.decided <= r.created
        BY Parts DEF MInv, RowSound
  <2>2. r.created \in Whispered(r.to)
        BY DEF Whispered
  <2>3. last[r.to] \in Nat /\ r.created <= last[r.to]
    <3>1. last[r.to] \in Nat
          BY <2>1, Parts DEF MInv
    <3>2. last[r.to] \in LastWritten(r.to)
          BY <1>1, <2>1
    <3>3. last[r.to] \in {v \in Whispered(r.to) : \A w \in Whispered(r.to) : w <= v}
          BY <2>2, <3>2 DEF LastWritten
    <3> QED BY <2>2, <3>1, <3>3
  <2> QED BY <2>1, <2>3
<1>6. ASSUME NEW q \in Proc
      PROVE  Covered(q)'
  <2>2. epoch[q] \in Periods
        BY DEF MInv, TypeOK
  <2>3. CASE q = p /\ epoch[q] = t
    <3>1. mem'[q][epoch[q]].track = last
          BY <1>4, <2>2, <2>3
    <3> QED BY <1>2, <1>5, <3>1 DEF Covered
  <2>4. CASE ~(q = p /\ epoch[q] = t)
    <3>1. mem'[q][epoch[q]] = mem[q][epoch[q]]
          BY <1>4, <2>2, <2>4
    <3> QED BY <1>2, <3>1 DEF LInv, Covered, Owns
  <2> QED BY <2>3, <2>4
<1>7. ASSUME NEW b \in Batch
      PROVE  Spaced(b)'
      BY <1>2 DEF LInv, Spaced, Fresh, FromOld
<1>8. OnceUnlessOld'
      BY <1>2, OnceWas DEF LInv
<1> QED BY <1>6, <1>7, <1>8 DEF LInv

LEMMA FillFailsLInv ==
  ASSUME MInv, LInv, NEW p \in Proc, NEW t \in Periods, FillFails(p, t)
  PROVE  LInv'
<1>1. UNCHANGED <<now, lease, since, epoch, row>>
      BY DEF FillFails
<1>2. ASSUME NEW q \in Proc, NEW u \in Periods
      PROVE  mem'[q][u] = IF q = p /\ u = t THEN NoMemory ELSE mem[q][u]
      BY DEF MInv, TypeOK, FillFails
<1>3. ASSUME NEW q \in Proc
      PROVE  Keeps(q)
  <2>1. epoch[q] \in Periods
        BY DEF MInv, TypeOK
  <2> QED BY <1>1, <1>2, <2>1, Constructed DEF Keeps, Owns
<1>4. \A b \in Batch : Drops(b)
      BY <1>1, Constructed DEF FillFails, Drops, Fresh, FromOld
<1> QED BY <1>1, <1>3, <1>4, Untouched

(* Whom a batch of the period picked had left the cooldown of every        *)
(* whisper that counts.                                                    *)
LEMMA PickedLInv ==
  ASSUME MInv, BInv, LInv, NEW b \in Batch, NEW P \in SUBSET Player, Picked(b, P)
  PROVE  LInv'
<1>1. /\ COOLDOWN \in Nat \ {0} /\ job[b].proc \in Proc /\ job[b].of \in Periods
      /\ job[b].stamp \in Nat /\ job[b].at = "waiting"
      /\ UNCHANGED <<now, lease, since, epoch, row>>
      BY Parts, TimeAssumption DEF MInv, Picked
<1>2. ASSUME NEW c \in Batch \ {b}
      PROVE  job'[c] = job[c]
      BY DEF Picked
<1>3. ASSUME NEW p \in Proc, Owns(p), mem[p][epoch[p]].fill = "read",
             NEW r \in row, Counts(r)
      PROVE  r.decided <= mem[p][epoch[p]].track[r.to]
      BY <1>3 DEF LInv, Covered
<1>4. ASSUME NEW p \in Proc
      PROVE  Covered(p)'
  <2> SUFFICES ASSUME Owns(p), mem'[p][epoch[p]].fill = "read", NEW r \in row, Counts(r)
               PROVE  r.decided <= mem'[p][epoch[p]].track[r.to]
      BY <1>1 DEF Covered, Owns, Counts
  <2>1. epoch[p] \in Periods /\ r.to \in Player /\ r.decided \in Nat /\ r.decided # Never
        BY Parts DEF MInv, TypeOK, RowSound
  <2>2. mem[p][epoch[p]].fill = "read" /\ mem[p][epoch[p]].track[r.to] \in Nat
        BY <2>1, Parts DEF MInv, Picked
  <2>3. r.decided <= mem[p][epoch[p]].track[r.to]
        BY <1>3, <2>2
  <2>4. CASE p = job[b].proc /\ epoch[p] = job[b].of /\ r.to \in P
    <3>1. mem'[p][epoch[p]].track[r.to] = job[b].stamp
          BY <2>1, <2>4 DEF Picked
    <3>2. ~Cooling(mem[p][epoch[p]].track[r.to], job[b].stamp)
          BY <2>4 DEF Picked, Track
    <3> QED BY <1>1, <2>1, <2>2, <2>3, <3>1, <3>2 DEF Cooling, Never
  <2>5. CASE ~(p = job[b].proc /\ epoch[p] = job[b].of /\ r.to \in P)
    <3>1. mem'[p][epoch[p]].track[r.to] = mem[p][epoch[p]].track[r.to]
          BY <2>1, <2>5 DEF Picked
    <3> QED BY <2>3, <3>1
  <2> QED BY <2>4, <2>5
<1>5. ASSUME NEW c \in Batch
      PROVE  Spaced(c)'
  <2>1. CASE c # b
        BY <1>1, <1>2, <2>1 DEF LInv, Spaced, Fresh, FromOld, Counts
  <2>2. CASE c = b
    <3>1. job'[b].proc = job[b].proc /\ job'[b].of = job[b].of /\ job'[b].picks = P
          BY DEF Picked
    <3> SUFFICES ASSUME Fresh(b), NEW x \in P, NEW r \in row, r.to = x, Counts(r)
                 PROVE  r.decided <= job'[b].before[x]
        BY <1>1, <2>2, <3>1 DEF Spaced, Fresh, FromOld, Counts
    <3>2. Owns(job[b].proc) /\ job[b].of = epoch[job[b].proc]
          BY <1>1, FreshIs DEF Fresh, Owns
    <3>3. job'[b].before[x] = mem[job[b].proc][epoch[job[b].proc]].track[x]
          BY <3>2 DEF Picked, Track
    <3>4. mem[job[b].proc][epoch[job[b].proc]].fill = "read"
          BY <3>2 DEF Picked
    <3> QED BY <1>1, <1>3, <3>2, <3>3, <3>4
  <2> QED BY <2>1, <2>2
<1>6. OnceUnlessOld'
      BY <1>1, OnceWas DEF LInv
<1> QED BY <1>4, <1>5, <1>6 DEF LInv

LEMMA DecideLInv ==
  ASSUME MInv, BInv, LInv, NEW b \in Batch, NEW deaths \in SUBSET Player, Decide(b, deaths)
  PROVE  LInv'
<1>1. CASE UNCHANGED <<now, lease, since, epoch, mem, row>> /\ job' = [job EXCEPT ![b] = Over]
  <2>1. \A p \in Proc : Keeps(p)
        BY <1>1 DEF Keeps, Owns
  <2>2. \A c \in Batch : Drops(c)
        BY <1>1, Constructed DEF Drops, MInv, TypeOK, Fresh, FromOld
  <2> QED BY <1>1, <2>1, <2>2, Untouched
<1>2. CASE \E P \in SUBSET Player : Picked(b, P)
      BY <1>2, PickedLInv
<1> QED BY <1>1, <1>2, DecideIs

LEMMA CommitLInv == ASSUME MInv, BInv, LInv, NEW b \in Batch, Commit(b) PROVE LInv'
<1>1. /\ job[b].at = "decided" /\ row' = row \cup Written(b, "heard") /\ job' = [job EXCEPT ![b] = Over]
      /\ lease.holder = job[b].proc /\ job[b].proc \in Proc
      /\ UNCHANGED <<now, lease, since, epoch, mem>>
      BY DEF Commit, Writes, MInv, JobSound
<1>2. \A c \in Batch : job'[c] = IF c = b THEN Over ELSE job[c]
      BY <1>1 DEF MInv, TypeOK
<1>3. ASSUME NEW r \in Written(b, "heard")
      PROVE  r.to \in job[b].picks /\ r.decided = job[b].stamp /\ (Counts(r) <=> ~FromOld(b))
      BY <1>1, WrittenIs DEF MInv, Counts
<1>4. CASE FromOld(b)
  <2>1. \A p \in Proc : Keeps(p)
        BY <1>1 DEF Keeps, Owns
  <2>2. \A c \in Batch : Drops(c)
        BY <1>1, <1>2, Constructed DEF Drops, Fresh, FromOld
  <2> QED BY <1>1, <1>3, <1>4, <2>1, <2>2, Untouched
<1>5. CASE ~FromOld(b)
  <2>1. /\ COOLDOWN \in Nat \ {0} /\ job[b].stamp \in Nat /\ job[b].of = lease.period
        /\ Owns(job[b].proc) /\ Fresh(b)
        BY <1>1, <1>5, FreshIs, Parts, TimeAssumption DEF MInv, Owns, Fresh
  <2>2. ASSUME NEW p \in Proc
        PROVE  Covered(p)'
    <3> SUFFICES ASSUME Owns(p), mem[p][epoch[p]].fill = "read", NEW r \in row', Counts(r)
                 PROVE  r.decided <= mem[p][epoch[p]].track[r.to]
        BY <1>1 DEF Covered, Owns, Counts
    <3>1. CASE r \in row
          BY <3>1 DEF LInv, Covered
    <3>2. CASE r \in Written(b, "heard")
      <4>1. p = job[b].proc /\ job[b].of = epoch[p]
            BY <1>1, <2>1 DEF Owns
      <4>2. job[b].stamp <= Track(b)[r.to]
            BY <1>1, <1>3, <3>2 DEF MInv, JobSound
      <4> QED BY <1>3, <3>2, <4>1, <4>2 DEF Track
    <3> QED BY <1>1, <3>1, <3>2
  <2>3. ASSUME NEW c \in Batch
        PROVE  Spaced(c)'
    <3> SUFFICES ASSUME c # b, job[c].at = "decided", Fresh(c),
                        NEW x \in job[c].picks, NEW r \in row', r.to = x, Counts(r)
                 PROVE  r.decided <= job[c].before[x] \/ job[c].stamp + COOLDOWN <= r.decided
        BY <1>1, <1>2, Constructed DEF Spaced, Fresh, FromOld, Counts
    <3>1. CASE r \in row
          BY <3>1 DEF LInv, Spaced
    <3>2. CASE r \in Written(b, "heard")
      <4>1. x \in job[b].picks /\ r.decided = job[b].stamp
            BY <1>3, <3>2
      <4>2. Together(b, c)
            BY <1>1, <2>1 DEF Together, Fresh, FromOld
      <4>3. Before(b, c, x) \/ Before(c, b, x)
            BY <4>1, <4>2 DEF MInv, Ordered
      <4> QED BY <4>1, <4>3 DEF Before
    <3> QED BY <1>1, <3>1, <3>2
  <2>4. ASSUME NEW r \in Written(b, "heard"), NEW s \in row, r.to = s.to, Counts(s)
        PROVE  Apart(r, s)
    <3>1. r.to \in job[b].picks /\ r.decided = job[b].stamp /\ r.to \in Player
          BY <1>3, Parts DEF MInv
    <3>2. s.decided <= job[b].before[r.to] \/ job[b].stamp + COOLDOWN <= s.decided
          BY <1>1, <2>1, <2>4, <3>1 DEF LInv, Spaced
    <3>3. ~Cooling(job[b].before[r.to], job[b].stamp)
          BY <1>1, <3>1 DEF MInv, JobSound
    <3>4. s.decided \in Nat /\ s.decided # Never /\ job[b].before[r.to] \in Nat
          BY <3>1, Parts DEF MInv, RowSound
    <3> QED BY <2>1, <3>1, <3>2, <3>3, <3>4 DEF Apart, Cooling, Never
  <2>5. ASSUME NEW r \in row', NEW s \in row', Counts(r), Counts(s), r # s, r.to = s.to
        PROVE  Apart(r, s)
    <3>1. CASE r \in row /\ s \in row
          BY <2>5, <3>1, OnceIs DEF LInv
    <3>2. CASE r \in Written(b, "heard") /\ s \in row
          BY <2>4, <2>5, <3>2
    <3>3. CASE r \in row /\ s \in Written(b, "heard")
          BY <2>4, <2>5, <3>3 DEF Apart
    <3>4. CASE r \in Written(b, "heard") /\ s \in Written(b, "heard")
          BY <1>1, <2>5, <3>4, WrittenIs
    <3> QED BY <1>1, <3>1, <3>2, <3>3, <3>4
  <2>6. OnceUnlessOld'
        BY <2>5 DEF OnceUnlessOld, AllApart, Counts, Apart
  <2> QED BY <2>2, <2>3, <2>6 DEF LInv
<1> QED BY <1>4, <1>5

(* An undo takes back nobody the memory knows a whisper of.                *)
LEMMA BackLInv ==
  ASSUME MInv, BInv, LInv, NEW b \in Batch, Fail(b) \/ CommitUnheard(b)
  PROVE  LInv'
<1>1. /\ job[b].at = "decided" /\ job[b].proc \in Proc /\ job[b].of \in Periods
      /\ mem' = Undone(b) /\ job' = [job EXCEPT ![b] = Over]
      /\ UNCHANGED <<now, lease, since, epoch>>
      BY UndoType, Parts DEF MInv
<1>2. \A c \in Batch : job'[c] = IF c = b THEN Over ELSE job[c]
      BY <1>1 DEF MInv, TypeOK
<1>3. ASSUME NEW r \in row', Counts(r)
      PROVE  r \in row
  <2>1. row' = row \/ row' = row \cup Written(b, "lost")
        BY UndoType
  <2>2. \A s \in Written(b, "lost") : s.answer = "lost"
        BY <1>1, WrittenIs
  <2> QED BY <1>3, <2>1, <2>2 DEF Counts
<1>4. COOLDOWN \in Nat \ {0} /\ job[b].stamp \in Nat
      BY Parts, TimeAssumption DEF MInv
<1>5. ASSUME NEW p \in Proc
      PROVE  Covered(p)'
  <2> SUFFICES ASSUME Owns(p), mem'[p][epoch[p]].fill = "read", NEW r \in row', Counts(r)
               PROVE  r.decided <= mem'[p][epoch[p]].track[r.to]
      BY <1>1 DEF Covered, Owns, Counts
  <2>1. r \in row /\ r.to \in Player /\ r.decided \in Nat
        BY <1>3, Parts DEF MInv
  <2>2. epoch[p] \in Periods
        BY DEF MInv, TypeOK
  <2>3. /\ mem'[p][epoch[p]].fill = mem[p][epoch[p]].fill
        /\ mem'[p][epoch[p]].track = IF p = job[b].proc /\ epoch[p] = job[b].of THEN Restored(b)
                                     ELSE mem[p][epoch[p]].track
        BY <1>1, <2>2, UndoneIs, TrackedIs DEF MInv
  <2>4. r.decided <= mem[p][epoch[p]].track[r.to]
        BY <2>1, <2>3 DEF LInv, Covered
  <2>5. CASE /\ p = job[b].proc /\ epoch[p] = job[b].of
             /\ r.to \in job[b].picks /\ Track(b)[r.to] = job[b].stamp
    <3>1. mem'[p][epoch[p]].track[r.to] = job[b].before[r.to]
          BY <2>1, <2>3, <2>5 DEF Restored
    <3>2. r.decided <= job[b].before[r.to] \/ job[b].stamp + COOLDOWN <= r.decided
          BY <1>1, <2>1, <2>5 DEF LInv, Spaced, Owns, Fresh, FromOld
    <3>3. r.decided <= job[b].stamp
          BY <2>4, <2>5 DEF Track
    <3> QED BY <1>4, <2>1, <3>1, <3>2, <3>3
  <2>6. CASE ~(/\ p = job[b].proc /\ epoch[p] = job[b].of
               /\ r.to \in job[b].picks /\ Track(b)[r.to] = job[b].stamp)
    <3>1. CASE p = job[b].proc /\ epoch[p] = job[b].of
      <4>1. Restored(b)[r.to] = Track(b)[r.to]
            BY <2>1, <2>6, <3>1 DEF Restored
      <4> QED BY <2>3, <2>4, <3>1, <4>1 DEF Track
    <3>2. CASE ~(p = job[b].proc /\ epoch[p] = job[b].of)
          BY <2>3, <2>4, <3>2
    <3> QED BY <3>1, <3>2
  <2> QED BY <2>5, <2>6
<1>6. ASSUME NEW c \in Batch
      PROVE  Spaced(c)'
      BY <1>1, <1>2, <1>3, Constructed DEF LInv, Spaced, Fresh, FromOld, Counts
<1>7. OnceUnlessOld'
      BY <1>3, OnceWas DEF LInv
<1> QED BY <1>5, <1>6, <1>7 DEF LInv

-----------------------------------------------------------------------------
(* Theorems *)

IInv == MInv /\ BInv /\ LInv

LEMMA NextIInv == IInv /\ [Next]_vars => IInv'
<1> SUFFICES ASSUME MInv, BInv, LInv, [Next]_vars PROVE LInv'
    BY NextMInv, NextBInv DEF IInv
<1>1. ASSUME NEW p \in Proc, Worker(p)
      PROVE  LInv'
      BY <1>1, HandOverLInv, LearnLInv, BeatLInv, RestartLInv, FillLInv, FillFailsLInv DEF Worker
<1>2. ASSUME NEW b \in Batch, Handle(b)
      PROVE  LInv'
      BY <1>2, ArriveLInv, DecideLInv, CommitLInv, BackLInv DEF Handle
<1>3. ASSUME UNCHANGED <<lease, since, epoch, mem, job, row>>
      PROVE  LInv'
  <2>1. \A p \in Proc : Keeps(p)
        BY <1>3 DEF Keeps, Owns
  <2>2. \A b \in Batch : Drops(b)
        BY <1>3 DEF Drops, Fresh, FromOld
  <2> QED BY <1>3, <2>1, <2>2, Untouched
<1> QED BY <1>1, <1>2, <1>3 DEF Next, Tick, vars

(* Every variable keeps its type. *)
THEOREM TypeCorrect == Spec => []TypeOK
<1>1. MInv => TypeOK
      BY DEF MInv
<1> QED BY InitMInv, NextMInv, <1>1, PTL DEF Spec

(* Whoever the worker holds to be cooling has a whisper written or a batch *)
(* about to write it, also when batches outlive the lease: an undo puts    *)
(* back what was there before, and nothing a later batch put.              *)
THEOREM CoolingBacked == Spec => []CoolingIsBacked
<1>1. MInv => CoolingIsBacked
  <2> SUFFICES ASSUME MInv, NEW p \in Proc, NEW x \in Player
               PROVE  Backed(p, epoch[p], x) /\ epoch[p] \in Periods
      BY DEF CoolingIsBacked, Backed
  <2> QED BY DEF MInv, TypeOK
<1> QED BY InitMInv, NextMInv, <1>1, PTL DEF Spec

(* A player is whispered to once in a cooldown, across batches under way   *)
(* at once, failed writes, restarts and changes of the owner, but for what *)
(* was decided from the memory of an earlier period than it was written    *)
(* in, or written without an answer.                                       *)
THEOREM CooldownsHold == Spec => []OnceUnlessOld
<1>1. Init => IInv
      BY InitMInv, InitBInv, InitLInv DEF IInv
<1>2. IInv => OnceUnlessOld
      BY DEF IInv, LInv
<1> QED BY <1>1, <1>2, NextIInv, PTL DEF Spec
=============================================================================
