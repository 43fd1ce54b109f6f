---------------------------- MODULE OutboxProofs ----------------------------
(***************************************************************************)
(* The outbox for any number of workers, servers and rows: what is in a    *)
(* worker's hands has not been sent yet, until the step that sends it.     *)
(***************************************************************************)
EXTENDS Outbox, TLAPS

Record == [state : {"absent", "pending", "sending"} \cup Done,
           lease : {"none", "running", "lapsed"}, due : BOOLEAN]
Process == [up : {"running", "stopped", "gone"}, believes : BOOLEAN,
            claiming : BOOLEAN, got : SUBSET Row]
Chains == [rows : SUBSET Row, all : SUBSET Row, at : Steps,
           out : Done \cup {"none"}, refused : BOOLEAN]

(* An outcome tells the truth about a row. *)
Truthful(r, out) ==
    /\ out = "delivered" => kind[r] = "flag" \/ sends[r] = 1
    /\ out = "skipped" => sends[r] = 0

RowSound(r) ==
    /\ sends[r] \in {0, 1}
    /\ kind[r] = "flag" => sends[r] = 0
    /\ row[r].state \in {"absent", "pending"} => sends[r] = 0
    /\ Truthful(r, row[r].state)

(* Taken by a claim and not sent: another worker's sweep may have counted  *)
(* it unknown all the same.                                                *)
Untouched(r) == row[r].state \in {"sending", "unknown"} /\ sends[r] = 0

GotSound(p) ==
    /\ ~proc[p].claiming => proc[p].got = {}
    /\ \A r \in proc[p].got : Untouched(r) /\ chain[p][ServerOf[r]].rows = {}

(* Of a chain only the oldest row may have been sent, and then its outcome *)
(* is about to be recorded.                                                *)
ChainSound(p, s) ==
    /\ chain[p][s].at = "finish" => chain[p][s].out \in Done
    /\ \A r \in chain[p][s].rows :
         /\ ServerOf[r] = s
         /\ row[r].state \notin {"absent", "pending"}
         /\ At(p, r, "finish") => Truthful(r, chain[p][s].out)
         /\ ~At(p, r, "finish") => Untouched(r)

IInv ==
    /\ TypeOK
    /\ OneHandler
    /\ \A r \in Row : RowSound(r)
    /\ \A p \in Proc : GotSound(p)
    /\ \A p \in Proc, s \in Server : ChainSound(p, s)

-----------------------------------------------------------------------------
(* Types *)

LEMMA Parts ==
  ASSUME TypeOK, NEW p \in Proc, NEW s \in Server
  PROVE  /\ proc \in [Proc -> Process] /\ proc[p] \in Process
         /\ proc[p].got \subseteq Row /\ proc[p].claiming \in BOOLEAN
         /\ chain \in [Proc -> [Server -> Chains]] /\ chain[p] \in [Server -> Chains]
         /\ chain[p][s] \in Chains /\ chain[p][s].rows \subseteq Row
         /\ NoChain \in Chains /\ NoChain.rows = {} /\ NoChain.at = "none"
  BY DEF TypeOK, Process, Chains, NoChain, Steps

LEMMA HandParts ==
  ASSUME TypeOK, NEW p \in Proc
  PROVE  /\ proc \in [Proc -> Process] /\ proc[p] \in Process
         /\ proc[p].got \subseteq Row /\ proc[p].claiming \in BOOLEAN /\ proc[p].believes \in BOOLEAN
         /\ row \in [Row -> Record]
  BY DEF TypeOK, Process, Record

LEMMA RowParts ==
  ASSUME TypeOK, NEW r \in Row
  PROVE  /\ row \in [Row -> Record] /\ row[r] \in Record
         /\ row[r].state \in {"absent", "pending", "sending"} \cup Done
         /\ ServerOf[r] \in Server /\ r \in Nat
  BY RowAssumption DEF TypeOK, Record

(* A process that learns it lost its lease keeps its hands as they are. *)
LEMMA Disowned ==
  ASSUME TypeOK, NEW p \in Proc
  PROVE  /\ Disown(p) \in [Proc -> Process]
         /\ \A q \in Proc : /\ Disown(p)[q].got = proc[q].got
                            /\ Disown(p)[q].claiming = proc[q].claiming
<1>1. proc \in [Proc -> Process]
      BY DEF TypeOK, Process
<1> QED BY <1>1 DEF Disown, Process

(* One chain is replaced. *)
LEMMA ChainUpdate ==
  ASSUME TypeOK, NEW p \in Proc, NEW s \in Server, NEW c \in Chains,
         chain' = [chain EXCEPT ![p][s] = c]
  PROVE  /\ chain' \in [Proc -> [Server -> Chains]]
         /\ \A q \in Proc, t \in Server :
               chain'[q][t] = IF q = p /\ t = s THEN c ELSE chain[q][t]
<1>1. chain \in [Proc -> [Server -> Chains]]
      BY DEF TypeOK, Chains
<1> QED BY <1>1

LEMMA StateUpdate ==
  ASSUME TypeOK, NEW r \in Row, NEW new \in Record
  PROVE  /\ Update(r, new) \in [Row -> Record]
         /\ \A q \in Row : Update(r, new)[q] = IF q = r /\ row[r].state = "sending"
                                               THEN new ELSE row[q]
<1>1. row \in [Row -> Record]
      BY DEF TypeOK, Record
<1> QED BY <1>1 DEF Update

LEMMA PutBackType ==
  ASSUME TypeOK, NEW rows
  PROVE  /\ PutBack(rows) \in [Row -> Record]
         /\ \A q \in Row : PutBack(rows)[q].state = IF q \in rows /\ row[q].state = "sending"
                                                    THEN "pending" ELSE row[q].state
<1>1. row \in [Row -> Record]
      BY DEF TypeOK, Record
<1>2. Pending \in Record /\ Pending.state = "pending"
      BY DEF Pending, Record
<1> QED BY <1>1, <1>2 DEF PutBack

-----------------------------------------------------------------------------
(* Hands *)

(* What a step may do to a row that stays in somebody's hands: another     *)
(* worker's sweep counts it unknown.                                       *)
Quiet(r) == /\ sends'[r] = sends[r]
            /\ \/ row'[r].state = row[r].state
               \/ row[r].state = "sending" /\ row'[r].state = "unknown"

LEMMA HandledIsHeld ==
  ASSUME IInv, NEW p \in Proc, NEW s \in Server, NEW r \in chain[p][s].rows
  PROVE  r \in Row /\ Handles(p, r) /\ ServerOf[r] = s
  BY Parts DEF IInv, ChainSound, Handles

LEMMA ChainStays ==
  ASSUME IInv, kind' = kind, NEW p \in Proc, NEW s \in Server,
         chain'[p][s] = chain[p][s],
         \A r \in chain[p][s].rows : Quiet(r)
  PROVE  ChainSound(p, s)'
<1> DEFINE c == chain[p][s]
<1>1. ChainSound(p, s)
      BY DEF IInv
<1>2. ASSUME NEW r \in c.rows
      PROVE  /\ ServerOf[r] = s
             /\ At(p, r, "finish")' = At(p, r, "finish")
             /\ row[r].state \notin {"absent", "pending"}
             /\ row'[r].state \notin {"absent", "pending"}
             /\ At(p, r, "finish") => Truthful(r, c.out)'
             /\ ~At(p, r, "finish") => Untouched(r)'
  <2>1. ServerOf[r] = s /\ Quiet(r) /\ row[r].state \notin {"absent", "pending"}
        BY <1>1 DEF ChainSound
  <2>2. At(p, r, "finish")' = At(p, r, "finish")
        BY <2>1 DEF At, First
  <2>3. row'[r].state \notin {"absent", "pending"}
        BY <2>1 DEF Quiet
  <2>4. At(p, r, "finish") => Truthful(r, c.out)'
        BY <1>1, <2>1 DEF ChainSound, Truthful, Quiet
  <2>5. ~At(p, r, "finish") => Untouched(r)'
        BY <1>1, <2>1 DEF ChainSound, Untouched, Quiet
  <2> QED BY <2>1, <2>2, <2>3, <2>4, <2>5
<1>3. c.at = "finish" => c.out \in Done
      BY <1>1 DEF ChainSound
<1> QED BY <1>2, <1>3 DEF ChainSound, Truthful

LEMMA NoChainSound ==
  ASSUME NEW p \in Proc, NEW s \in Server, chain'[p][s] = NoChain
  PROVE  ChainSound(p, s)'
  BY DEF ChainSound, NoChain

LEMMA GotStays ==
  ASSUME IInv, NEW p \in Proc, proc'[p].claiming = proc[p].claiming, proc'[p].got = proc[p].got,
         \A r \in proc[p].got : Quiet(r) /\ chain'[p][ServerOf[r]].rows = {}
  PROVE  GotSound(p)'
<1>1. GotSound(p)
      BY DEF IInv
<1> QED BY <1>1 DEF GotSound, Untouched, Quiet

(* Steps after which nobody has a row he had not, and rows still in hands  *)
(* are as they were.                                                       *)
LEMMA LettingGo ==
  ASSUME IInv, TypeOK', kind' = kind,
         \A r \in Row : RowSound(r)',
         \A p \in Proc : \/ proc'[p].got = proc[p].got /\ proc'[p].claiming = proc[p].claiming
                         \/ proc'[p].got = {},
         \A p \in Proc, s \in Server : chain'[p][s] \in {chain[p][s], NoChain},
         \A p \in Proc, r \in Row : Handles(p, r)' => Quiet(r)
  PROVE  IInv'
<1>t. TypeOK
      BY DEF IInv
<1>1. ASSUME NEW p \in Proc, NEW s \in Server PROVE ChainSound(p, s)'
  <2>1. CASE chain'[p][s] = NoChain
        BY <2>1, NoChainSound
  <2>2. CASE chain'[p][s] = chain[p][s]
    <3>1. ASSUME NEW r \in chain[p][s].rows PROVE Quiet(r)
      <4>1. r \in Row /\ ServerOf[r] = s
            BY HandledIsHeld
      <4>2. Handles(p, r)'
            BY <2>2, <4>1 DEF Handles
      <4> QED BY <4>1, <4>2
    <3> QED BY <2>2, <3>1, ChainStays
  <2> QED BY <2>1, <2>2
<1>2. ASSUME NEW p \in Proc PROVE GotSound(p)'
  <2>1. CASE proc'[p].got = {}
        BY <2>1 DEF GotSound
  <2>2. CASE proc'[p].got = proc[p].got /\ proc'[p].claiming = proc[p].claiming
    <3>1. ASSUME NEW r \in proc[p].got PROVE Quiet(r) /\ chain'[p][ServerOf[r]].rows = {}
      <4>1. r \in Row /\ ServerOf[r] \in Server
            BY <1>t, Parts, RowParts, RowAssumption DEF TypeOK
      <4>2. Handles(p, r)'
            BY <2>2 DEF Handles
      <4>3. chain[p][ServerOf[r]].rows = {}
            BY DEF IInv, GotSound
      <4>4. chain'[p][ServerOf[r]] \in {chain[p][ServerOf[r]], NoChain}
            BY <4>1
      <4> QED BY <4>1, <4>2, <4>3, <4>4 DEF NoChain
    <3> QED BY <2>2, <3>1, GotStays
  <2> QED BY <2>1, <2>2
<1>3. ASSUME NEW p \in Proc, NEW r \in Row, Handles(p, r)'
      PROVE  Handles(p, r) /\ row'[r].state \notin {"absent", "pending"}
  <2>1. ServerOf[r] \in Server
        BY <1>t, RowParts
  <2>2. Handles(p, r)
    <3>1. chain'[p][ServerOf[r]] \in {chain[p][ServerOf[r]], NoChain}
          BY <2>1
    <3> QED BY <1>3, <3>1 DEF Handles, NoChain
  <2>3. row[r].state \notin {"absent", "pending"}
        BY <2>2 DEF IInv, OneHandler
  <2> QED BY <1>3, <2>2, <2>3 DEF Quiet
<1>4. OneHandler'
  <2>1. ASSUME NEW r \in Row, NEW p \in Proc, NEW q \in Proc, Handles(p, r)', Handles(q, r)'
        PROVE  p = q
        BY <1>3, <2>1 DEF IInv, OneHandler
  <2> QED BY <1>3, <2>1 DEF OneHandler
<1> QED BY <1>1, <1>2, <1>4 DEF IInv

(* The chain of r goes on: to another step of r, or to the row after it.   *)
LEMMA GoingOn ==
  ASSUME IInv, TypeOK', kind' = kind, NEW p \in Proc, NEW r \in Row, First(p, r),
         NEW c \in Chains, chain' = [chain EXCEPT ![p][ServerOf[r]] = c],
         c.rows = chain[p][ServerOf[r]].rows \/ c.rows = chain[p][ServerOf[r]].rows \ {r},
         proc' \in {proc, Disown(p)},
         \A q \in Row \ {r} : row'[q].state = row[q].state /\ sends'[q] = sends[q],
         RowSound(r)',
         c.at = "finish" => c.out \in Done /\ Truthful(r, c.out)' /\ r \in c.rows,
         r \in c.rows => row'[r].state \notin {"absent", "pending"},
         r \in c.rows /\ c.at # "finish" => Untouched(r)'
  PROVE  IInv'
<1> DEFINE s == ServerOf[r]
<1>t. TypeOK /\ s \in Server /\ r \in Nat
      BY RowParts DEF IInv
<1>0. /\ \A q \in Proc, t \in Server : chain'[q][t] = IF q = p /\ t = s THEN c ELSE chain[q][t]
      /\ chain' \in [Proc -> [Server -> Chains]]
      BY <1>t, ChainUpdate
<1>00. Handles(p, r) /\ r \in chain[p][s].rows /\ c.rows \subseteq chain[p][s].rows
       BY DEF First, Handles
<1>hands. \A q \in Proc : proc'[q].got = proc[q].got /\ proc'[q].claiming = proc[q].claiming
      BY <1>t, Disowned
<1>quiet. \A q \in Row \ {r} : Quiet(q)
      BY DEF Quiet
<1>1. ASSUME NEW q \in Proc, NEW t \in Server PROVE ChainSound(q, t)'
  <2>1. CASE q = p /\ t = s
    <3>1. ASSUME NEW x \in c.rows, x # r
          PROVE  /\ ServerOf[x] = s /\ row'[x].state \notin {"absent", "pending"}
                 /\ ~At(p, x, "finish")' /\ Untouched(x)'
      <4>1. x \in Row /\ x \in chain[p][s].rows /\ ServerOf[x] = s
        <5>1. x \in chain[p][s].rows
              BY <1>00, <3>1
        <5> QED BY <1>t, <5>1, HandledIsHeld
      <4>2. x \in Nat /\ r <= x
            BY <1>t, <4>1, RowParts DEF First
      <4>3. ~At(p, x, "finish")
            BY <1>00, <1>t, <3>1, <4>1, <4>2 DEF At, First
      <4>4. Untouched(x)
            BY <1>t, <4>1, <4>3 DEF IInv, ChainSound
      <4>5. ~At(p, x, "finish")'
            BY <1>0, <1>t, <3>1, <4>1, <4>2 DEF At, First
      <4> QED BY <3>1, <4>1, <4>4, <4>5 DEF Untouched
    <3>2. chain'[p][s] = c
          BY <1>0, <1>t
    <3>3. At(p, r, "finish")' => c.at = "finish"
          BY <3>2 DEF At
    <3>4. r \in c.rows /\ ~At(p, r, "finish")' => c.at # "finish"
      <4>1. \A x \in c.rows : r <= x
            BY <1>00 DEF First
      <4> QED BY <3>2, <4>1 DEF At, First
    <3>5. ASSUME NEW x \in c.rows
          PROVE  /\ ServerOf[x] = s /\ row'[x].state \notin {"absent", "pending"}
                 /\ At(p, x, "finish")' => Truthful(x, c.out)'
                 /\ ~At(p, x, "finish")' => Untouched(x)'
      <4>1. CASE x # r
            BY <3>1, <4>1
      <4>2. CASE x = r
            BY <3>3, <3>4, <4>2
      <4> QED BY <4>1, <4>2
    <3> HIDE DEF s
    <3> QED BY <2>1, <3>2, <3>5 DEF ChainSound, Truthful
  <2>2. CASE ~(q = p /\ t = s)
    <3>1. chain'[q][t] = chain[q][t]
          BY <1>0, <2>2
    <3>2. ASSUME NEW x \in chain[q][t].rows PROVE Quiet(x)
      <4>1. x \in Row /\ Handles(q, x) /\ ServerOf[x] = t
            BY HandledIsHeld
      <4>2. x # r
            BY <1>00, <2>2, <4>1 DEF IInv, OneHandler
      <4> QED BY <1>quiet, <4>1, <4>2
    <3> QED BY <3>1, <3>2, ChainStays
  <2> QED BY <2>1, <2>2
<1>2. ASSUME NEW q \in Proc PROVE GotSound(q)'
  <2>1. ASSUME NEW x \in proc[q].got PROVE Quiet(x) /\ chain'[q][ServerOf[x]].rows = {}
    <3>1. x \in Row /\ ServerOf[x] \in Server /\ chain[q][ServerOf[x]].rows = {}
          BY <1>t, RowAssumption DEF TypeOK, IInv, GotSound
    <3>2. x # r
      <4>1. Handles(q, x)
            BY DEF Handles
      <4> QED BY <1>00, <3>1, <4>1 DEF IInv, OneHandler
    <3>3. ~(q = p /\ ServerOf[x] = s)
          BY <1>00, <3>1
    <3> QED BY <1>0, <1>quiet, <3>1, <3>2, <3>3
  <2> QED BY <1>hands, <2>1, GotStays
<1>3. ASSUME NEW q \in Proc, NEW x \in Row, Handles(q, x)'
      PROVE  Handles(q, x) /\ row'[x].state \notin {"absent", "pending"}
  <2>1. ServerOf[x] \in Server
        BY <1>t, RowParts
  <2>2. Handles(q, x) /\ (x = r => q = p)
        BY <1>0, <1>00, <1>hands, <1>3, <2>1 DEF Handles, IInv, OneHandler
  <2>3. CASE x # r
        BY <2>2, <2>3 DEF IInv, OneHandler
  <2>4. CASE x = r
    <3>1. x \notin proc[p].got
          BY <1>00, <2>4 DEF IInv, GotSound
    <3> QED BY <1>0, <1>hands, <1>t, <1>3, <2>2, <2>4, <3>1 DEF Handles
  <2> QED BY <2>2, <2>3, <2>4
<1>4. OneHandler'
  <2>1. ASSUME NEW x \in Row, NEW q \in Proc, NEW o \in Proc, Handles(q, x)', Handles(o, x)'
        PROVE  q = o
        BY <1>3, <2>1 DEF IInv, OneHandler
  <2> QED BY <1>3, <2>1 DEF OneHandler
<1>5. ASSUME NEW x \in Row PROVE RowSound(x)'
      BY DEF IInv, RowSound, Truthful
<1> QED BY <1>1, <1>2, <1>4, <1>5 DEF IInv

-----------------------------------------------------------------------------
(* Steps *)

(* How a step looks from outside: what has ended stays as it ended, and at *)
(* most one row takes effect, one not recorded as anything but unknown.    *)
Acts(r) == /\ row' = row
           /\ sends' = [sends EXCEPT ![r] = 1]
           /\ Untouched(r) /\ kind[r] # "flag"
Promise == /\ kind' = kind
           /\ \A r \in Row : row[r].state \in Done => row'[r].state = row[r].state
           /\ sends' = sends \/ \E r \in Row : Acts(r)

LEMMA AtParts ==
  ASSUME IInv, NEW p \in Proc, NEW r \in Row, NEW at, At(p, r, at)
  PROVE  /\ First(p, r) /\ ServerOf[r] \in Server
         /\ r \in chain[p][ServerOf[r]].rows /\ chain[p][ServerOf[r]].at = at
         /\ chain[p][ServerOf[r]] \in Chains
         /\ row[r].state \notin {"absent", "pending"}
         /\ at # "finish" => Untouched(r)
         /\ at = "finish" => /\ Truthful(r, chain[p][ServerOf[r]].out)
                             /\ chain[p][ServerOf[r]].out \in Done
<1>1. TypeOK /\ ServerOf[r] \in Server
      BY RowParts DEF IInv
<1>2. First(p, r) /\ r \in chain[p][ServerOf[r]].rows /\ chain[p][ServerOf[r]].at = at
      BY DEF At, First
<1>3. ChainSound(p, ServerOf[r])
      BY <1>1 DEF IInv
<1>4. at # "finish" => ~At(p, r, "finish")
      BY <1>2 DEF At
<1> QED BY <1>1, <1>2, <1>3, <1>4, Parts DEF ChainSound

LEMMA MoveType ==
  ASSUME TypeOK, NEW p \in Proc, NEW s \in Server, NEW c \in Chains,
         chain' = [chain EXCEPT ![p][s] = c], proc' \in {proc, Disown(p)},
         row' \in [Row -> Record], sends' \in [Row -> Nat], held' \in [Proc -> SUBSET Server],
         UNCHANGED <<kind, old, owner, lapses>>
  PROVE  TypeOK'
<1>1. chain' \in [Proc -> [Server -> Chains]]
      BY ChainUpdate
<1>2. proc' \in [Proc -> Process]
      BY Disowned, Parts
<1> QED BY <1>1, <1>2 DEF TypeOK, Chains, Process, Record

LEMMA HeldType ==
  ASSUME TypeOK, NEW p \in Proc, NEW r \in Row
  PROVE  /\ held \in [Proc -> SUBSET Server]
         /\ [held EXCEPT ![p] = @ \cup {ServerOf[r]}] \in [Proc -> SUBSET Server]
  BY RowParts DEF TypeOK

(* A row goes to another step; whatever is left to record is recorded as   *)
(* it was.                                                                 *)
LEMMA GoesTo ==
  ASSUME IInv, NEW p \in Proc, NEW r \in Row, NEW at \in Steps \ {"finish"}, Goto(p, r, at),
         NEW from \in Steps \ {"finish"}, At(p, r, from),
         held' \in [Proc -> SUBSET Server],
         UNCHANGED <<kind, row, old, owner, proc, sends, lapses>>
  PROVE  IInv' /\ Promise
<1> DEFINE s == ServerOf[r]
           c == [chain[p][s] EXCEPT !.at = at]
<1>t. TypeOK
      BY DEF IInv
<1>1. First(p, r) /\ s \in Server /\ chain[p][s] \in Chains /\ Untouched(r)
      BY AtParts
<1>2. c \in Chains /\ c.rows = chain[p][s].rows /\ c.at = at
      BY <1>1 DEF Chains
<1>3. chain' = [chain EXCEPT ![p][s] = c]
      BY <1>t, <1>1 DEF Goto, TypeOK
<1> HIDE DEF c
<1>4. TypeOK'
      BY <1>t, <1>1, <1>2, <1>3, MoveType, RowParts DEF TypeOK, Record
<1>5. RowSound(r)' /\ Untouched(r)' /\ row'[r].state \notin {"absent", "pending"}
      BY <1>1 DEF IInv, RowSound, Truthful, Untouched
<1>6. IInv'
      BY <1>1, <1>2, <1>3, <1>4, <1>5, GoingOn
<1> QED BY <1>6 DEF Promise

(* A row is to be recorded. *)
LEMMA Finishes ==
  ASSUME IInv, NEW p \in Proc, NEW r \in Row, First(p, r),
         NEW out \in Done, NEW refused \in BOOLEAN, FinishAs(p, r, out, refused),
         held' \in [Proc -> SUBSET Server],
         UNCHANGED <<kind, old, owner, proc, lapses>>,
         row' \in [Row -> Record], sends' \in [Row -> Nat],
         \A q \in Row \ {r} : row'[q].state = row[q].state /\ sends'[q] = sends[q],
         row'[r].state \notin {"absent", "pending"},
         RowSound(r)', Truthful(r, out)'
  PROVE  IInv'
<1> DEFINE s == ServerOf[r]
           c == [chain[p][s] EXCEPT !.at = "finish", !.out = out, !.refused = refused]
<1>t. TypeOK
      BY DEF IInv
<1>1. s \in Server /\ chain[p][s] \in Chains /\ r \in chain[p][s].rows
      BY <1>t, RowParts, Parts DEF First
<1>2. c \in Chains /\ c.rows = chain[p][s].rows /\ c.at = "finish" /\ c.out = out
      BY <1>1 DEF Chains, Steps
<1>3. chain' = [chain EXCEPT ![p][s] = c]
      BY <1>t, <1>1 DEF FinishAs, TypeOK
<1> HIDE DEF c
<1>4. TypeOK'
      BY <1>t, <1>1, <1>2, <1>3, MoveType
<1> QED BY <1>1, <1>2, <1>3, <1>4, GoingOn

(* The chain goes on to its next row. *)
LEMMA WithoutType ==
  ASSUME NEW c \in Chains, NEW r \in c.rows
  PROVE  /\ Without(c, r) \in Chains
         /\ Without(c, r).rows = c.rows \ {r}
         /\ Without(c, r).at # "finish"
         /\ [Without(c, r) EXCEPT !.at = IF c.rows = {r} THEN "none" ELSE "back"] \in Chains
         /\ [Without(c, r) EXCEPT !.at = IF c.rows = {r} THEN "none" ELSE "back"].rows
              = c.rows \ {r}
         /\ [Without(c, r) EXCEPT !.at = IF c.rows = {r} THEN "none" ELSE "back"].at # "finish"
  BY DEF Without, NoChain, Chains, Steps

LEMMA Advances ==
  ASSUME IInv, NEW p \in Proc, NEW r \in Row, First(p, r),
         NEW c \in Chains, chain' = [chain EXCEPT ![p][ServerOf[r]] = c],
         c.rows = chain[p][ServerOf[r]].rows \ {r}, c.at # "finish",
         held' \in [Proc -> SUBSET Server], proc' \in {proc, Disown(p)},
         UNCHANGED <<kind, old, owner, sends, lapses>>, row' \in [Row -> Record],
         \A q \in Row \ {r} : row'[q].state = row[q].state,
         RowSound(r)'
  PROVE  IInv'
<1>1. TypeOK /\ ServerOf[r] \in Server /\ sends' \in [Row -> Nat]
      BY RowParts DEF IInv, TypeOK
<1>2. TypeOK'
      BY <1>1, MoveType
<1> QED BY <1>2, GoingOn

LEMMA SimpleAdvance ==
  ASSUME IInv, NEW p \in Proc, NEW r \in Row, First(p, r), Advance(p, r),
         proc' \in {proc, Disown(p)}, UNCHANGED <<kind, row, old, owner, held, sends, lapses>>
  PROVE  IInv' /\ Promise
<1> DEFINE s == ServerOf[r]
           c == Without(chain[p][s], r)
<1>t. TypeOK
      BY DEF IInv
<1>1. s \in Server /\ chain[p][s] \in Chains /\ r \in chain[p][s].rows
      BY <1>t, RowParts, Parts DEF First
<1>2. c \in Chains /\ c.rows = chain[p][s].rows \ {r} /\ c.at # "finish"
      BY <1>1, WithoutType
<1>3. chain' = [chain EXCEPT ![p][s] = c]
      BY <1>t, <1>1 DEF Advance, TypeOK
<1> HIDE DEF c
<1>4. held' \in [Proc -> SUBSET Server] /\ row' \in [Row -> Record] /\ RowSound(r)'
      BY <1>t, RowParts DEF IInv, TypeOK, RowSound, Truthful
<1>5. IInv'
      BY <1>2, <1>3, <1>4, Advances
<1> QED BY <1>5 DEF Promise

(* Before anything is sent. *)
LEMMA LookingStep ==
  ASSUME IInv, NEW p \in Proc, NEW r \in Row,
         Hold(p, r) \/ Wait(p, r) \/ ToLane(p, r) \/ Ready(p, r) \/ Abandon(p, r)
  PROVE  IInv' /\ Promise
<1>t. TypeOK /\ held \in [Proc -> SUBSET Server]
      BY HeldType DEF IInv
<1>1. CASE Hold(p, r)
  <2>1. PICK from \in {"early", "lane"} : At(p, r, from)
        BY <1>1 DEF Hold
  <2>2. held' \in [Proc -> SUBSET Server]
        BY <1>1, <1>t, HeldType DEF Hold
  <2> QED BY <1>1, <2>1, <2>2, GoesTo DEF Hold, Steps
<1>2. CASE Wait(p, r) \/ ToLane(p, r) \/ Ready(p, r)
  <2>1. PICK from \in {"early", "lane"} : At(p, r, from)
        BY <1>2 DEF Wait, ToLane, Ready
  <2>2. PICK at \in {"release", "lane", "ready"} :
           Goto(p, r, at) /\ UNCHANGED <<kind, row, old, owner, proc, held, sends, lapses>>
        BY <1>2 DEF Wait, ToLane, Ready
  <2> QED BY <1>t, <2>1, <2>2, GoesTo DEF Steps
<1>3. CASE Abandon(p, r)
  <2>1. First(p, r)
        BY <1>3 DEF Abandon, At
  <2> QED BY <1>3, <2>1, SimpleAdvance DEF Abandon
<1> QED BY <1>1, <1>2, <1>3

(* Nothing is sent: skipped, failed, or the record is all there is to do.  *)
LEMMA UnsentStep ==
  ASSUME IInv, NEW p \in Proc, NEW r \in Row, Skip(p, r) \/ Flag(p, r) \/ SendNothing(p, r)
  PROVE  IInv' /\ Promise
<1>t. TypeOK
      BY DEF IInv
<1>1. /\ UNCHANGED <<kind, row, old, owner, proc, held, sends, lapses>>
      /\ \E at \in {"early", "lane", "ready"} : At(p, r, at)
      BY DEF Skip, Flag, SendNothing
<1>2. \E out \in {"skipped", "failed", "delivered"} :
         FinishAs(p, r, out, FALSE) /\ (out = "delivered" => kind[r] = "flag")
      BY DEF Skip, Flag, SendNothing
<1>3. PICK at \in {"early", "lane", "ready"} : At(p, r, at)
      BY <1>1
<1>4. PICK out \in {"skipped", "failed", "delivered"} :
         FinishAs(p, r, out, FALSE) /\ (out = "delivered" => kind[r] = "flag")
      BY <1>2
<1>5. First(p, r) /\ Untouched(r) /\ row[r].state \notin {"absent", "pending"}
      BY <1>3, AtParts
<1>6. RowSound(r)' /\ Truthful(r, out)'
      BY <1>1, <1>4, <1>5 DEF IInv, RowSound, Truthful, Untouched
<1>7. held' \in [Proc -> SUBSET Server] /\ row' \in [Row -> Record] /\ sends' \in [Row -> Nat]
      BY <1>t, <1>1, RowParts DEF TypeOK
<1>8. IInv'
      BY <1>1, <1>4, <1>5, <1>6, <1>7, Finishes DEF Done
<1> QED BY <1>1, <1>8 DEF Promise

(* The row takes effect. *)
LEMMA EffectOf ==
  ASSUME IInv, NEW p \in Proc, NEW r \in Row, At(p, r, "ready"), kind[r] # "flag",
         Effect(r), UNCHANGED <<kind, row, old, owner, proc, lapses>>,
         held' \in [Proc -> SUBSET Server],
         NEW out \in {"delivered", "failed", "unknown"}, NEW refused \in BOOLEAN,
         FinishAs(p, r, out, refused)
  PROVE  IInv' /\ Promise
<1>t. TypeOK
      BY DEF IInv
<1>1. First(p, r) /\ Untouched(r) /\ row[r].state \notin {"absent", "pending"}
      BY AtParts
<1>2. /\ sends' = [sends EXCEPT ![r] = 1] /\ sends' \in [Row -> Nat]
      /\ sends'[r] = 1 /\ \A q \in Row \ {r} : sends'[q] = sends[q]
      BY <1>t, <1>1 DEF Effect, TypeOK, Untouched
<1>3. RowSound(r)' /\ Truthful(r, out)'
      BY <1>1, <1>2 DEF RowSound, Truthful, Untouched
<1>4. row' \in [Row -> Record]
      BY <1>t, RowParts
<1>5. IInv'
      BY <1>1, <1>2, <1>3, <1>4, Finishes DEF Done
<1>6. Acts(r)
      BY <1>1, <1>2 DEF Acts
<1> QED BY <1>5, <1>6 DEF Promise

LEMMA EffectStep ==
  ASSUME IInv, NEW p \in Proc, NEW r \in Row, Send(p, r) \/ Grant(p, r) \/ Ban(p, r)
  PROVE  IInv' /\ Promise
<1>t. TypeOK
      BY DEF IInv
<1>1. CASE Send(p, r)
  <2>1. PICK out \in {"delivered", "failed", "unknown"}, refused \in BOOLEAN :
          /\ FinishAs(p, r, out, refused)
          /\ held' = IF refused /\ out = "failed"
                     THEN [held EXCEPT ![p] = @ \cup {ServerOf[r]}] ELSE held
        BY <1>1 DEF Send
  <2>2. held' \in [Proc -> SUBSET Server]
        BY <1>t, <2>1, HeldType
  <2> QED BY <1>1, <2>1, <2>2, EffectOf DEF Send
<1>2. CASE Grant(p, r)
  <2>1. PICK out \in {"delivered", "failed"} : FinishAs(p, r, out, FALSE)
        BY <1>2 DEF Grant
  <2> QED BY <1>t, <1>2, <2>1, EffectOf, HeldType, ZenonT(60) DEF Grant
<1>3. CASE Ban(p, r) /\ Owned(p)
  <2>1. PICK out \in {"delivered", "failed"} : FinishAs(p, r, out, FALSE)
        BY <1>3 DEF Ban
  <2> QED BY <1>t, <1>3, <2>1, EffectOf, HeldType, ZenonT(60) DEF Ban
<1>4. CASE Ban(p, r) /\ ~Owned(p)
  <2>1. First(p, r)
        BY <1>4 DEF Ban, At
  <2> QED BY <1>4, <2>1, SimpleAdvance DEF Ban
<1> QED BY <1>1, <1>2, <1>3, <1>4

(* Recording an outcome that is true. *)
LEMMA Recorded ==
  ASSUME IInv, NEW r \in Row, row[r].state \notin {"absent", "pending"},
         NEW out \in Done, Truthful(r, out), UNCHANGED <<kind, sends>>,
         row' = row \/ row' = Update(r, [Pending EXCEPT !.state = out])
  PROVE  /\ row' \in [Row -> Record] /\ row'[r].state \notin {"absent", "pending"}
         /\ \A q \in Row \ {r} : row'[q].state = row[q].state
         /\ RowSound(r)' /\ Promise
<1>t. TypeOK
      BY DEF IInv
<1>1. CASE row' = row
  <2>1. row' \in [Row -> Record] /\ RowSound(r)'
        BY <1>t, <1>1, RowParts DEF IInv, RowSound, Truthful
  <2> QED BY <1>1, <2>1 DEF Promise
<1>2. CASE row' = Update(r, [Pending EXCEPT !.state = out])
  <2> DEFINE new == [Pending EXCEPT !.state = out]
  <2>1. new \in Record /\ new.state = out
        BY DEF Pending, Record
  <2> HIDE DEF new
  <2>2. /\ row' \in [Row -> Record]
        /\ \A q \in Row : row'[q] = IF q = r /\ row[r].state = "sending" THEN new ELSE row[q]
        BY <1>t, <1>2, <2>1, StateUpdate DEF new
  <2>3. row'[r].state \in {out, row[r].state} /\ row'[r].state \notin {"absent", "pending"}
        BY <2>1, <2>2 DEF Done
  <2>4. RowSound(r)'
    <3>1. RowSound(r)
          BY DEF IInv
    <3>2. /\ row'[r].state = "delivered" => kind[r] = "flag" \/ sends[r] = 1
          /\ row'[r].state = "skipped" => sends[r] = 0
      <4>1. CASE row'[r].state = row[r].state
            BY <3>1, <4>1 DEF RowSound, Truthful
      <4>2. CASE row'[r].state = out
            BY <4>2 DEF Truthful
      <4> QED BY <2>3, <4>1, <4>2
    <3> QED BY <2>3, <3>1, <3>2 DEF RowSound, Truthful
  <2>5. \A q \in Row : row[q].state \in Done => row'[q].state = row[q].state
        BY <2>2 DEF Done
  <2> QED BY <2>2, <2>3, <2>4, <2>5 DEF Promise
<1> QED BY <1>1, <1>2

LEMMA FinishStep ==
  ASSUME IInv, NEW p \in Proc, NEW r \in Row, Finish(p, r) \/ FinishLost(p, r) \/ FinishAgain(p, r)
  PROVE  IInv' /\ Promise
<1> DEFINE s == ServerOf[r]
           out == chain[p][s].out
<1>t. TypeOK /\ held \in [Proc -> SUBSET Server]
      BY HeldType DEF IInv
<1>0. At(p, r, "finish")
      BY DEF Finish, FinishLost, FinishAgain
<1>1. /\ First(p, r) /\ s \in Server /\ chain[p][s] \in Chains /\ r \in chain[p][s].rows
      /\ row[r].state \notin {"absent", "pending"} /\ out \in Done /\ Truthful(r, out)
      BY <1>0, AtParts
<1>2. CASE Finish(p, r)
  <2>1. row' = row \/ row' = Update(r, [Pending EXCEPT !.state = out])
        BY <1>2 DEF Finish
  <2>2. UNCHANGED <<kind, old, owner, proc, sends, lapses>>
        BY <1>2 DEF Finish
  <2>3. /\ row' \in [Row -> Record] /\ \A q \in Row \ {r} : row'[q].state = row[q].state
        /\ RowSound(r)' /\ Promise
        BY <1>1, <2>1, <2>2, Recorded
  <2>4. CASE chain[p][s].refused
    <3> DEFINE c == [Without(chain[p][s], r) EXCEPT
                        !.at = IF chain[p][s].rows = {r} THEN "none" ELSE "back"]
    <3>1. c \in Chains /\ c.rows = chain[p][s].rows \ {r} /\ c.at # "finish"
          BY <1>1, WithoutType
    <3>2. /\ chain' = [chain EXCEPT ![p][s] = c]
          /\ held' = [held EXCEPT ![p] = @ \cup {s}]
          BY <1>t, <1>1, <1>2, <2>4 DEF Finish, TypeOK
    <3>3. held' \in [Proc -> SUBSET Server]
          BY <1>t, <3>2, HeldType
    <3> HIDE DEF c
    <3> QED BY <1>1, <2>2, <2>3, <3>1, <3>2, <3>3, Advances
  <2>5. CASE ~chain[p][s].refused
    <3> DEFINE c == Without(chain[p][s], r)
    <3>1. c \in Chains /\ c.rows = chain[p][s].rows \ {r} /\ c.at # "finish"
          BY <1>1, WithoutType
    <3>2. chain' = [chain EXCEPT ![p][s] = c] /\ held' = held
          BY <1>t, <1>1, <1>2, <2>5 DEF Finish, Advance, TypeOK
    <3> HIDE DEF c
    <3> QED BY <1>t, <1>1, <2>2, <2>3, <3>1, <3>2, Advances
  <2> QED BY <2>4, <2>5
<1>3. CASE FinishLost(p, r)
      BY <1>1, <1>3, SimpleAdvance DEF FinishLost
<1>4. CASE FinishAgain(p, r)
  <2>1. row' = row \/ row' = Update(r, [Pending EXCEPT !.state = out])
        BY <1>4 DEF FinishAgain
  <2>2. /\ UNCHANGED <<kind, old, owner, proc, held, sends, lapses>>
        /\ FinishAs(p, r, "failed", FALSE)
        BY <1>4 DEF FinishAgain
  <2>3. /\ row' \in [Row -> Record] /\ row'[r].state \notin {"absent", "pending"}
        /\ \A q \in Row \ {r} : row'[q].state = row[q].state
        /\ RowSound(r)' /\ Promise
        BY <1>1, <2>1, <2>2, Recorded
  <2>4. Truthful(r, "failed")' /\ sends' \in [Row -> Nat]
        BY <1>t, <2>2 DEF Truthful, TypeOK
  <2>5. IInv'
        BY <1>t, <1>1, <2>2, <2>3, <2>4, Finishes DEF Done
  <2> QED BY <2>3, <2>5
<1> QED BY <1>2, <1>3, <1>4

(* Rows put back are due again, unsent. *)
LEMMA ReleaseStep ==
  ASSUME IInv, NEW p \in Proc, NEW r \in Row, Release(p, r)
  PROVE  IInv' /\ Promise
<1> DEFINE s == ServerOf[r]
           c == Without(chain[p][s], r)
           new == [Pending EXCEPT !.due = FALSE]
<1>t. TypeOK /\ held \in [Proc -> SUBSET Server]
      BY HeldType DEF IInv
<1>0. At(p, r, "release")
      BY DEF Release
<1>1. /\ First(p, r) /\ s \in Server /\ chain[p][s] \in Chains /\ r \in chain[p][s].rows
      /\ Untouched(r)
      BY <1>0, AtParts
<1>2. c \in Chains /\ c.rows = chain[p][s].rows \ {r} /\ c.at # "finish"
      BY <1>1, WithoutType
<1>3. chain' = [chain EXCEPT ![p][s] = c]
      BY <1>t, <1>1 DEF Release, Advance, TypeOK
<1>4. new \in Record /\ new.state = "pending"
      BY DEF Pending, Record
<1> HIDE DEF c, new
<1>5. UNCHANGED <<kind, old, owner, held, sends, lapses>> /\ proc' \in {proc, Disown(p)}
      BY DEF Release, Refused
<1>6. /\ row' \in [Row -> Record]
      /\ \A q \in Row \ {r} : row'[q].state = row[q].state
      /\ row'[r].state = row[r].state \/ (row'[r].state = "pending" /\ row[r].state = "sending")
  <2>1. CASE row' = row
        BY <1>t, <2>1, RowParts
  <2>2. CASE row' = Update(r, new)
    <3>1. /\ row' \in [Row -> Record]
          /\ \A q \in Row : row'[q] = IF q = r /\ row[r].state = "sending" THEN new ELSE row[q]
          BY <1>t, <1>4, <2>2, StateUpdate
    <3> QED BY <1>4, <3>1
  <2> QED BY <2>1, <2>2 DEF Release, new
<1>7. RowSound(r)'
      BY <1>1, <1>5, <1>6 DEF IInv, RowSound, Truthful, Untouched
<1>8. IInv'
      BY <1>t, <1>1, <1>2, <1>3, <1>5, <1>6, <1>7, Advances
<1>9. \A q \in Row : row[q].state \in Done => row'[q].state = row[q].state
      BY <1>6 DEF Done
<1> QED BY <1>5, <1>8, <1>9 DEF Promise

(* The rest of a chain goes back. *)
LEMMA BackStep ==
  ASSUME IInv, NEW p \in Proc, NEW r \in Row, Back(p, r)
  PROVE  IInv' /\ Promise
<1> DEFINE s == ServerOf[r]
           rows == chain[p][s].rows
<1>t. TypeOK
      BY DEF IInv
<1>0. At(p, r, "back")
      BY DEF Back
<1>1. s \in Server /\ NoChain \in Chains
      BY <1>t, <1>0, AtParts, Parts
<1>2. /\ chain' = [chain EXCEPT ![p][s] = NoChain]
      /\ UNCHANGED <<kind, old, owner, held, sends, lapses>> /\ proc' \in {proc, Disown(p)}
      /\ row' \in {row, PutBack(rows)}
      BY DEF Back, Refused
<1>3. \A q \in Proc, t \in Server : chain'[q][t] = IF q = p /\ t = s THEN NoChain ELSE chain[q][t]
      BY <1>t, <1>1, <1>2, ChainUpdate
<1>4. /\ row' \in [Row -> Record]
      /\ \A q \in Row : \/ row'[q].state = row[q].state
                        \/ q \in rows /\ row[q].state = "sending" /\ row'[q].state = "pending"
      BY <1>t, <1>2, PutBackType, RowParts
<1>5. TypeOK'
      BY <1>t, <1>1, <1>2, <1>4, MoveType DEF TypeOK
<1>6. ASSUME NEW q \in rows PROVE q \in Row /\ Handles(p, q) /\ ServerOf[q] = s /\ Untouched(q)
  <2>1. q \in Row /\ Handles(p, q) /\ ServerOf[q] = s
        BY <1>1, HandledIsHeld
  <2>2. ~At(p, q, "finish")
        BY <1>0, <2>1 DEF At
  <2> QED BY <1>1, <2>1, <2>2 DEF IInv, ChainSound
<1>7. ASSUME NEW q \in Row PROVE RowSound(q)'
      BY <1>2, <1>4, <1>6 DEF IInv, RowSound, Truthful, Untouched
<1>8. \A q \in Proc : proc'[q].got = proc[q].got /\ proc'[q].claiming = proc[q].claiming
      BY <1>t, <1>2, Disowned
<1>9. ASSUME NEW o \in Proc, NEW q \in Row, Handles(o, q)' PROVE Quiet(q)
  <2>1. CASE q \notin rows
        BY <1>2, <1>4, <2>1 DEF Quiet
  <2>2. CASE q \in rows
    <3>1. ServerOf[q] = s /\ Handles(p, q) /\ q \notin proc[p].got
          BY <1>6, <2>2 DEF IInv, GotSound
    <3>2. Handles(o, q)
          BY <1>1, <1>3, <1>8, <1>9, <3>1 DEF Handles, NoChain
    <3>3. o = p
          BY <3>1, <3>2 DEF IInv, OneHandler
    <3> QED BY <1>1, <1>3, <1>8, <1>9, <3>1, <3>3 DEF Handles, NoChain
  <2> QED BY <2>1, <2>2
<1>10. IInv'
  <2>1. \A q \in Proc, t \in Server : chain'[q][t] \in {chain[q][t], NoChain}
        BY <1>3
  <2> HIDE DEF rows, s
  <2> QED BY <1>2, <1>5, <1>7, <1>8, <1>9, <2>1, LettingGo
<1>11. \A q \in Row : row[q].state \in Done => row'[q].state = row[q].state
      BY <1>4 DEF Done
<1> QED BY <1>2, <1>10, <1>11 DEF Promise

(* A row alone, in nobody's hands or only in time. *)
LEMMA RowAlone ==
  ASSUME IInv, NEW r \in Row, NEW new \in Record, row' = [row EXCEPT ![r] = new],
         new.state = row[r].state
           \/ (row[r].state \in {"absent", "pending"} /\ new.state \in {"pending", "skipped"}),
         UNCHANGED <<kind, old, owner, proc, held, chain, sends, lapses>>
  PROVE  IInv' /\ Promise
<1>t. TypeOK
      BY DEF IInv
<1>1. row' \in [Row -> Record] /\ \A q \in Row : row'[q] = IF q = r THEN new ELSE row[q]
      BY <1>t, RowParts
<1>2. TypeOK'
      BY <1>t, <1>1 DEF TypeOK, Record
<1>3. ASSUME NEW q \in Row PROVE RowSound(q)'
      BY <1>1 DEF IInv, RowSound, Truthful
<1>4. ASSUME NEW p \in Proc, NEW q \in Row, Handles(p, q)' PROVE Quiet(q)
  <2>1. Handles(p, q)
        BY <1>4 DEF Handles
  <2>2. row[q].state \notin {"absent", "pending"}
        BY <2>1 DEF IInv, OneHandler
  <2> QED BY <1>1, <2>2 DEF Quiet
<1>5. IInv'
      BY <1>2, <1>3, <1>4, LettingGo
<1>6. \A q \in Row : row[q].state \in Done => row'[q].state = row[q].state
      BY <1>1 DEF Done
<1> QED BY <1>5, <1>6 DEF Promise

LEMMA TableStep ==
  ASSUME IInv, NEW r \in Row, Enqueue(r) \/ LeaseRunsOut(r) \/ ComesDue(r) \/ GrowsOld(r)
  PROVE  IInv' /\ Promise
<1>t. TypeOK /\ row \in [Row -> Record] /\ row[r] \in Record
      BY RowParts DEF IInv
<1>1. CASE Enqueue(r)
  <2>1. PICK state \in {"pending", "skipped"} : row' = [row EXCEPT ![r].state = state]
        BY <1>1 DEF Enqueue
  <2> DEFINE new == [row[r] EXCEPT !.state = state]
  <2>2. new \in Record /\ new.state = state /\ row' = [row EXCEPT ![r] = new]
        BY <1>t, <2>1 DEF Record, Done
  <2> QED BY <1>1, <2>2, RowAlone DEF Enqueue
<1>2. CASE LeaseRunsOut(r)
  <2> DEFINE new == [row[r] EXCEPT !.lease = "lapsed"]
  <2>1. new \in Record /\ new.state = row[r].state /\ row' = [row EXCEPT ![r] = new]
        BY <1>t, <1>2 DEF LeaseRunsOut, Record
  <2> QED BY <1>2, <2>1, RowAlone DEF LeaseRunsOut
<1>3. CASE ComesDue(r)
  <2> DEFINE new == [row[r] EXCEPT !.due = TRUE]
  <2>1. new \in Record /\ new.state = row[r].state /\ row' = [row EXCEPT ![r] = new]
        BY <1>t, <1>3 DEF ComesDue, Record
  <2> QED BY <1>3, <2>1, RowAlone DEF ComesDue
<1>4. CASE GrowsOld(r)
  <2>1. TypeOK' /\ UNCHANGED <<kind, row, proc, chain, sends>>
        BY <1>t, <1>4 DEF GrowsOld, TypeOK
  <2>2. \A q \in Row : RowSound(q)' /\ Quiet(q)
        BY <2>1 DEF IInv, RowSound, Truthful, Quiet
  <2>3. IInv'
        BY <2>1, <2>2, LettingGo
  <2> QED BY <2>1, <2>3 DEF Promise
<1> QED BY <1>1, <1>2, <1>3, <1>4

LEMMA DropStep ==
  ASSUME IInv, DropQueued
  PROVE  IInv' /\ Promise
<1>t. TypeOK
      BY DEF IInv
<1>1. PICK rows \in SUBSET {r \in Row : row[r].state = "pending"} \ {{}} :
         row' = [r \in Row |-> IF r \in rows THEN [Pending EXCEPT !.state = "skipped"] ELSE row[r]]
      BY DEF DropQueued
<1>2. UNCHANGED <<kind, old, owner, proc, held, chain, sends, lapses>>
      BY DEF DropQueued
<1>3. [Pending EXCEPT !.state = "skipped"] \in Record /\ [Pending EXCEPT !.state = "skipped"].state = "skipped"
      BY DEF Pending, Record, Done
<1>4. /\ row' \in [Row -> Record]
      /\ \A q \in Row : \/ row'[q] = row[q]
                        \/ row[q].state = "pending" /\ row'[q].state = "skipped"
      BY <1>t, <1>1, <1>3, RowParts
<1>5. TypeOK'
      BY <1>t, <1>2, <1>4 DEF TypeOK, Record
<1>6. ASSUME NEW q \in Row PROVE RowSound(q)'
      BY <1>2, <1>4 DEF IInv, RowSound, Truthful
<1>7. ASSUME NEW p \in Proc, NEW q \in Row, Handles(p, q)' PROVE Quiet(q)
  <2>1. Handles(p, q)
        BY <1>2, <1>7 DEF Handles
  <2>2. row[q].state # "pending"
        BY <2>1 DEF IInv, OneHandler
  <2> QED BY <1>2, <1>4, <2>2 DEF Quiet
<1>8. IInv'
      BY <1>2, <1>5, <1>6, <1>7, LettingGo
<1>9. \A q \in Row : row[q].state \in Done => row'[q].state = row[q].state
      BY <1>4 DEF Done
<1> QED BY <1>2, <1>8, <1>9 DEF Promise

-----------------------------------------------------------------------------
(* A claim *)

(* Only rows waiting are claimed, of servers with no chain here. *)
LEMMA ClaimedWaits ==
  ASSUME IInv, NEW p \in Proc, NEW r \in Claimable(p)
  PROVE  /\ r \in Row /\ row[r].state = "pending"
         /\ chain[p][ServerOf[r]].rows = {}
<1>1. r \in UNION {Oldest({x \in Due(p) : ServerOf[x] = s}, PER_SERVER) : s \in Server}
      BY DEF Claimable, Oldest
<1>2. r \in Due(p)
      BY <1>1 DEF Oldest
<1>3. ServerOf[r] \in Server
      BY <1>2, RowAssumption DEF Due
<1> QED BY <1>2, <1>3 DEF Due, Busy

LEMMA ClaimedRows ==
  ASSUME IInv, NEW p \in Proc
  PROVE  /\ Claimable(p) \subseteq Row
         /\ AfterClaim(p) \in [Row -> Record]
         /\ \A r \in Row :
              /\ r \in Claimable(p) => AfterClaim(p)[r].state = "sending"
              /\ r \notin Claimable(p) =>
                   \/ AfterClaim(p)[r].state = row[r].state
                   \/ row[r].state = "sending" /\ AfterClaim(p)[r].state = "unknown"
<1> DEFINE swept == [Pending EXCEPT !.state = "unknown"]
           taken == [state |-> "sending", lease |-> "running", due |-> TRUE]
<1>1. row \in [Row -> Record]
      BY RowParts DEF IInv, TypeOK, Record
<1>2. swept \in Record /\ taken \in Record /\ swept.state = "unknown" /\ taken.state = "sending"
      BY DEF Pending, Record, Done
<1>3. \A r \in Claimable(p) : r \in Row /\ row[r].state = "pending"
      BY ClaimedWaits
<1>4. AfterClaim(p) = [r \in Row |-> IF r \in Swept(p) THEN swept
                                     ELSE IF r \in Claimable(p) THEN taken ELSE row[r]]
      BY DEF AfterClaim
<1>5. \A r \in Swept(p) : row[r].state = "sending"
      BY DEF Swept
<1> HIDE DEF swept, taken
<1> QED BY <1>1, <1>2, <1>3, <1>4, <1>5

LEMMA ClaimStep ==
  ASSUME IInv, NEW p \in Proc, Claim(p)
  PROVE  IInv' /\ Promise
<1>t. TypeOK
      BY DEF IInv
<1>1. /\ row' = AfterClaim(p) /\ UNCHANGED <<kind, old, owner, held, chain, sends, lapses>>
      /\ proc[p].claiming = FALSE
      BY <1>t, HandParts DEF Claim, CanPass
<1>2. /\ row' \in [Row -> Record] /\ Claimable(p) \subseteq Row
      /\ \A r \in Row : /\ r \in Claimable(p) => row'[r].state = "sending"
                        /\ r \notin Claimable(p) => Quiet(r)
      BY <1>1, ClaimedRows DEF Quiet
<1>3. \A r \in Claimable(p) : row[r].state = "pending" /\ chain[p][ServerOf[r]].rows = {}
      BY ClaimedWaits
<1>4. ASSUME NEW r \in Row PROVE RowSound(r)'
      BY <1>1, <1>2, <1>3 DEF IInv, RowSound, Truthful, Quiet
<1>5. ASSUME NEW q \in Proc, NEW r \in Row, Handles(q, r) PROVE r \notin Claimable(p) /\ Quiet(r)
      BY <1>2, <1>3, <1>5 DEF IInv, OneHandler
<1>6. \A r \in Row : row[r].state \in Done => row'[r].state = row[r].state
      BY <1>2, <1>3 DEF Done, Quiet
<1>7. CASE proc' = proc
  <2>1. TypeOK'
        BY <1>t, <1>1, <1>2, <1>7 DEF TypeOK, Record
  <2>2. \A q \in Proc, r \in Row : Handles(q, r)' => Quiet(r)
        BY <1>1, <1>5, <1>7 DEF Handles
  <2>3. IInv'
        BY <1>1, <1>4, <1>7, <2>1, <2>2, LettingGo
  <2> QED BY <1>1, <1>6, <2>3 DEF Promise
<1>8. CASE proc' = [proc EXCEPT ![p].claiming = TRUE, ![p].got = Claimable(p)]
  <2>1. /\ proc' \in [Proc -> Process]
        /\ proc'[p].got = Claimable(p) /\ proc'[p].claiming
        /\ \A q \in Proc \ {p} : proc'[q] = proc[q]
        BY <1>t, <1>2, <1>8, HandParts DEF Process
  <2>2. TypeOK'
        BY <1>t, <1>1, <1>2, <2>1 DEF TypeOK, Record, Process
  <2>3. ASSUME NEW q \in Proc, NEW s \in Server PROVE ChainSound(q, s)'
    <3>1. \A r \in chain[q][s].rows : Quiet(r)
          BY <1>5, HandledIsHeld
    <3> QED BY <1>1, <3>1, ChainStays
  <2>4. ASSUME NEW q \in Proc PROVE GotSound(q)'
    <3>1. CASE q = p
      <4>1. ASSUME NEW r \in Claimable(p)
            PROVE  Untouched(r)' /\ chain'[p][ServerOf[r]].rows = {}
            BY <1>1, <1>2, <1>3 DEF IInv, RowSound, Untouched
      <4> QED BY <2>1, <3>1, <4>1 DEF GotSound
    <3>2. CASE q # p
      <4>1. ASSUME NEW r \in proc[q].got PROVE Quiet(r) /\ chain'[q][ServerOf[r]].rows = {}
        <5>1. r \in Row /\ Handles(q, r)
              BY <1>t, HandParts, RowAssumption DEF TypeOK, Handles
        <5> QED BY <1>1, <1>5, <5>1 DEF IInv, GotSound
      <4> QED BY <2>1, <3>2, <4>1, GotStays
    <3> QED BY <3>1, <3>2
  <2>5. ASSUME NEW q \in Proc, NEW r \in Row, Handles(q, r)'
        PROVE  /\ IF r \in Claimable(p) THEN q = p ELSE Handles(q, r)
               /\ row'[r].state \notin {"absent", "pending"}
    <3>1. CASE r \in Claimable(p)
      <4>1. ~Handles(q, r)
            BY <1>5, <3>1
      <4> QED BY <1>1, <1>2, <2>1, <2>5, <3>1, <4>1 DEF Handles
    <3>2. CASE r \notin Claimable(p)
      <4>1. Handles(q, r)
            BY <1>1, <2>1, <2>5, <3>2 DEF Handles
      <4>2. Quiet(r) /\ row[r].state \notin {"absent", "pending"}
            BY <1>5, <4>1 DEF IInv, OneHandler
      <4> QED BY <3>2, <4>1, <4>2 DEF Quiet
    <3> QED BY <3>1, <3>2
  <2>6. OneHandler'
    <3>1. ASSUME NEW r \in Row, NEW q \in Proc, NEW o \in Proc, Handles(q, r)', Handles(o, r)'
          PROVE  q = o
      <4>1. CASE r \in Claimable(p)
            BY <2>5, <3>1, <4>1
      <4>2. CASE r \notin Claimable(p)
            BY <2>5, <3>1, <4>2 DEF IInv, OneHandler
      <4> QED BY <4>1, <4>2
    <3> QED BY <2>5, <3>1 DEF OneHandler
  <2>7. IInv'
        BY <1>4, <2>2, <2>3, <2>4, <2>6 DEF IInv
  <2> QED BY <1>1, <1>6, <2>7 DEF Promise
<1> QED BY <1>7, <1>8 DEF Claim

(* The rows a claim got become one chain per server. *)
LEMMA LaunchStep ==
  ASSUME IInv, NEW p \in Proc, Launch(p)
  PROVE  IInv' /\ Promise
<1> DEFINE of(s) == {r \in proc[p].got : ServerOf[r] = s}
<1>t. TypeOK
      BY DEF IInv
<1>1. /\ UNCHANGED <<kind, row, old, owner, held, sends, lapses>>
      /\ proc' = [proc EXCEPT ![p].claiming = FALSE, ![p].got = {}]
      BY DEF Launch
<1>2. /\ proc' \in [Proc -> Process] /\ proc'[p].got = {} /\ ~proc'[p].claiming
      /\ \A q \in Proc \ {p} : proc'[q] = proc[q]
      BY <1>t, <1>1, HandParts DEF Process
<1>3. \A s \in Server : of(s) \subseteq Row /\ Fresh(of(s)) \in Chains /\ Fresh(of(s)).rows = of(s)
                        /\ Fresh(of(s)).at = "early"
      BY <1>t, HandParts DEF Fresh, Chains, Steps
<1>4. /\ chain' \in [Proc -> [Server -> Chains]]
      /\ \A q \in Proc \ {p} : chain'[q] = chain[q]
      /\ \A s \in Server : chain'[p][s] = IF of(s) = {} THEN chain[p][s] ELSE Fresh(of(s))
  <2>1. chain \in [Proc -> [Server -> Chains]]
        BY <1>t DEF TypeOK, Chains
  <2>2. chain' = [chain EXCEPT ![p] = [s \in Server |-> IF of(s) = {} THEN chain[p][s]
                                                       ELSE Fresh(of(s))]]
        BY <2>1 DEF Launch
  <2> HIDE DEF of
  <2> QED BY <1>3, <2>1, <2>2
<1>5. TypeOK'
      BY <1>t, <1>1, <1>2, <1>4 DEF TypeOK, Process, Chains
<1>6. \A r \in Row : RowSound(r)' /\ Quiet(r)
      BY <1>1 DEF IInv, RowSound, Truthful, Quiet
<1>7. ASSUME NEW r \in proc[p].got
      PROVE  r \in Row /\ Handles(p, r) /\ Untouched(r) /\ chain[p][ServerOf[r]].rows = {}
      BY <1>t, HandParts, RowAssumption DEF TypeOK, IInv, GotSound, Handles
<1>8. ASSUME NEW q \in Proc, NEW s \in Server PROVE ChainSound(q, s)'
  <2>1. CASE chain'[q][s] = chain[q][s]
    <3>1. \A r \in chain[q][s].rows : Quiet(r)
          BY <1>6, HandledIsHeld
    <3> QED BY <1>1, <2>1, <3>1, ChainStays
  <2>2. CASE chain'[q][s] # chain[q][s]
    <3>1. q = p /\ chain'[q][s] = Fresh(of(s))
          BY <1>4, <2>2
    <3>2. chain'[p][s].at = "early" /\ chain'[p][s].rows = of(s)
          BY <1>3, <3>1
    <3>3. ASSUME NEW r \in of(s)
          PROVE  /\ ServerOf[r] = s /\ row'[r].state \notin {"absent", "pending"}
                 /\ ~At(p, r, "finish")' /\ Untouched(r)'
          BY <1>1, <1>7, <3>2 DEF At, Untouched
    <3> HIDE DEF of
    <3> QED BY <3>1, <3>2, <3>3 DEF ChainSound
  <2> QED BY <2>1, <2>2
<1>9. ASSUME NEW q \in Proc PROVE GotSound(q)'
  <2>1. CASE q = p
        BY <1>2, <2>1 DEF GotSound
  <2>2. CASE q # p
    <3>1. \A r \in proc[q].got : Quiet(r) /\ chain'[q][ServerOf[r]].rows = {}
          BY <1>t, <1>4, <1>6, <2>2, HandParts, RowAssumption DEF TypeOK, IInv, GotSound
    <3> QED BY <1>2, <2>2, <3>1, GotStays
  <2> QED BY <2>1, <2>2
<1>10. ASSUME NEW q \in Proc, NEW r \in Row, Handles(q, r)' PROVE Handles(q, r)
  <2>1. ServerOf[r] \in Server
        BY <1>t, RowParts
  <2>2. CASE q = p
        BY <1>2, <1>3, <1>4, <1>10, <2>1, <2>2 DEF Handles
  <2>3. CASE q # p
        BY <1>2, <1>4, <1>10, <2>3 DEF Handles
  <2> QED BY <2>2, <2>3
<1>11. OneHandler'
       BY <1>1, <1>10 DEF IInv, OneHandler
<1>12. IInv'
       BY <1>5, <1>6, <1>8, <1>9, <1>11 DEF IInv
<1> QED BY <1>1, <1>12 DEF Promise

LEMMA StoppedStep ==
  ASSUME IInv, NEW p \in Proc, LaunchStopped(p)
  PROVE  IInv' /\ Promise
<1> DEFINE got == proc[p].got
<1>t. TypeOK
      BY DEF IInv
<1>1. PICK believes \in {proc[p].believes, Owned(p)} :
         proc' = [proc EXCEPT ![p].claiming = FALSE, ![p].got = {}, ![p].believes = believes]
      BY DEF LaunchStopped
<1>2. /\ UNCHANGED <<kind, old, owner, held, chain, sends, lapses>>
      /\ row' \in {row, PutBack(got)}
      BY DEF LaunchStopped
<1>3. /\ proc' \in [Proc -> Process] /\ proc'[p].got = {}
      /\ \A q \in Proc \ {p} : proc'[q] = proc[q]
  <2>1. believes \in BOOLEAN
        BY <1>t, HandParts DEF Owned
  <2> QED BY <1>t, <1>1, <2>1, HandParts, ZenonT(60) DEF Process
<1>4. /\ row' \in [Row -> Record]
      /\ \A q \in Row : \/ row'[q].state = row[q].state
                        \/ q \in got /\ row[q].state = "sending" /\ row'[q].state = "pending"
      BY <1>t, <1>2, PutBackType, HandParts
<1>5. TypeOK'
      BY <1>t, <1>2, <1>3, <1>4 DEF TypeOK, Record, Process
<1>6. ASSUME NEW q \in got
      PROVE  q \in Row /\ Handles(p, q) /\ Untouched(q) /\ chain[p][ServerOf[q]].rows = {}
      BY <1>t, HandParts, RowAssumption DEF TypeOK, IInv, GotSound, Handles
<1>7. ASSUME NEW q \in Row PROVE RowSound(q)'
      BY <1>2, <1>4, <1>6 DEF IInv, RowSound, Truthful, Untouched
<1>8. ASSUME NEW o \in Proc, NEW q \in Row, Handles(o, q)' PROVE Quiet(q)
  <2>1. CASE q \notin got
        BY <1>2, <1>4, <2>1 DEF Quiet
  <2>2. CASE q \in got
    <3>1. o # p
          BY <1>2, <1>3, <1>6, <1>8, <2>2 DEF Handles
    <3>2. Handles(o, q)
          BY <1>2, <1>3, <1>8, <3>1 DEF Handles
    <3> QED BY <1>6, <2>2, <3>1, <3>2 DEF IInv, OneHandler
  <2> QED BY <2>1, <2>2
<1>9. IInv'
  <2>1. \A q \in Proc : \/ proc'[q].got = proc[q].got /\ proc'[q].claiming = proc[q].claiming
                        \/ proc'[q].got = {}
        BY <1>3
  <2> QED BY <1>2, <1>5, <1>7, <1>8, <2>1, LettingGo
<1>10. \A q \in Row : row[q].state \in Done => row'[q].state = row[q].state
      BY <1>4 DEF Done
<1> QED BY <1>2, <1>9, <1>10 DEF Promise

(* Ownership, shutdown, crashes: nobody gets a row he had not. *)
LEMMA WorkerStep ==
  ASSUME IInv, NEW p \in Proc,
         \/ ClaimLost(p) \/ Own(p) \/ LearnLost(p) \/ Stop(p) \/ GiveUp(p) \/ Crash(p)
         \/ \E s \in Server : HoldEnds(p, s)
  PROVE  IInv' /\ Promise
<1>t. TypeOK
      BY DEF IInv
<1>1. UNCHANGED <<kind, row, old, sends, lapses>>
      BY DEF ClaimLost, Own, LearnLost, Stop, GiveUp, Crash, HoldEnds
<1>2. \/ proc' \in {proc, Disown(p)}
      \/ proc' = [proc EXCEPT ![p].believes = TRUE]
      \/ proc' = [proc EXCEPT ![p].up = "stopped"]
      \/ proc' = [proc EXCEPT ![p].up = "gone", ![p].believes = FALSE]
      \/ proc' = [proc EXCEPT ![p] = [up |-> "gone", believes |-> FALSE, claiming |-> FALSE,
                                      got |-> {}]]
      BY DEF ClaimLost, Own, LearnLost, Stop, GiveUp, Crash, HoldEnds
<1>3. /\ proc' \in [Proc -> Process]
      /\ \A q \in Proc : \/ proc'[q].got = proc[q].got /\ proc'[q].claiming = proc[q].claiming
                         \/ proc'[q].got = {}
  <2>1. proc \in [Proc -> Process] /\ proc[p] \in Process
        BY <1>t, HandParts
  <2>2. CASE proc' \in {proc, Disown(p)}
        BY <1>t, <2>1, <2>2, Disowned
  <2>3. CASE proc' = [proc EXCEPT ![p].believes = TRUE]
        BY <2>1, <2>3 DEF Process
  <2>4. CASE proc' = [proc EXCEPT ![p].up = "stopped"]
        BY <2>1, <2>4 DEF Process
  <2>5. CASE proc' = [proc EXCEPT ![p].up = "gone", ![p].believes = FALSE]
        BY <2>1, <2>5 DEF Process
  <2>6. CASE proc' = [proc EXCEPT ![p] = [up |-> "gone", believes |-> FALSE, claiming |-> FALSE,
                                          got |-> {}]]
        BY <2>1, <2>6 DEF Process
  <2> QED BY <1>2, <2>2, <2>3, <2>4, <2>5, <2>6
<1>4. /\ chain' \in [Proc -> [Server -> Chains]]
      /\ \A q \in Proc, s \in Server : chain'[q][s] \in {chain[q][s], NoChain}
  <2>1. chain \in [Proc -> [Server -> Chains]] /\ NoChain \in Chains
        BY <1>t DEF TypeOK, Chains, NoChain, Steps
  <2>2. chain' = chain \/ chain' = [chain EXCEPT ![p] = [s \in Server |-> NoChain]]
        BY DEF ClaimLost, Own, LearnLost, Stop, GiveUp, Crash, HoldEnds
  <2> QED BY <2>1, <2>2
<1>5. owner' \in Proc \cup {NoProc} /\ held' \in [Proc -> SUBSET Server]
      BY <1>t, ZenonT(60) DEF TypeOK, ClaimLost, Own, LearnLost, Stop, GiveUp, Crash, HoldEnds
<1>6. TypeOK'
      BY <1>t, <1>1, <1>3, <1>4, <1>5 DEF TypeOK, Process, Chains
<1>7. \A r \in Row : RowSound(r)' /\ Quiet(r)
      BY <1>1 DEF IInv, RowSound, Truthful, Quiet
<1>8. IInv'
      BY <1>1, <1>3, <1>4, <1>6, <1>7, LettingGo
<1> QED BY <1>1, <1>8 DEF Promise

LEMMA StutterStep ==
  ASSUME IInv, Lapse \/ UNCHANGED vars
  PROVE  IInv' /\ Promise
<1>1. UNCHANGED <<kind, row, old, proc, held, chain, sends>>
      BY DEF Lapse, vars
<1>2. owner' \in Proc \cup {NoProc} /\ lapses' \in 0 .. MaxLapse
      BY BoundAssumption DEF IInv, TypeOK, Lapse, vars
<1>3. TypeOK'
      BY <1>1, <1>2 DEF IInv, TypeOK
<1>4. \A r \in Row : RowSound(r)' /\ Quiet(r)
      BY <1>1 DEF IInv, RowSound, Truthful, Quiet
<1>5. IInv'
      BY <1>1, <1>3, <1>4, LettingGo
<1> QED BY <1>1, <1>5 DEF Promise

-----------------------------------------------------------------------------
(* The specification *)

LEMMA InitIInv == Init => IInv
<1> SUFFICES ASSUME Init PROVE IInv
    OBVIOUS
<1>1. TypeOK
  <2>1. kind \in [Row -> Kinds]
    <3>1. kind \in [Row -> Kinds] \/ \E r \in Row : kind[r] \notin Kinds
          BY DEF Init
    <3> QED BY <3>1, RowAssumption DEF Init
  <2>2. lapses \in 0 .. MaxLapse
        BY BoundAssumption DEF Init
  <2> QED BY <2>1, <2>2 DEF Init, TypeOK, Pending, NoChain, Steps
<1>2. \A r \in Row : RowSound(r)
      BY DEF Init, RowSound, Truthful, Pending
<1>3. \A p \in Proc : GotSound(p)
      BY DEF Init, GotSound
<1>4. \A p \in Proc, s \in Server : ChainSound(p, s)
      BY DEF Init, ChainSound, NoChain
<1>5. OneHandler
  <2>1. \A p \in Proc, r \in Row : ~Handles(p, r)
        BY RowAssumption DEF Init, Handles, NoChain
  <2> QED BY <2>1 DEF OneHandler
<1> QED BY <1>1, <1>2, <1>3, <1>4, <1>5 DEF IInv

LEMMA Inductive == IInv /\ [Next]_vars => IInv' /\ Promise
<1> SUFFICES ASSUME IInv, [Next]_vars PROVE IInv' /\ Promise
    OBVIOUS
<1> DEFINE Goal == IInv' /\ Promise
<1>1. ASSUME NEW r \in Row, Enqueue(r) \/ Passes(r) PROVE Goal
      BY <1>1, TableStep DEF Passes
<1>2. ASSUME NEW p \in Proc, Passing(p) PROVE Goal
      BY <1>2, ClaimStep, LaunchStep, StoppedStep, WorkerStep DEF Passing
<1>3. ASSUME NEW p \in Proc,
             \/ Own(p) \/ LearnLost(p) \/ Stop(p) \/ GiveUp(p) \/ Crash(p)
             \/ \E s \in Server : HoldEnds(p, s)
      PROVE  Goal
      BY <1>3, WorkerStep
<1>4. ASSUME NEW p \in Proc, NEW r \in Row, Deliver(p, r) PROVE Goal
      BY <1>4, LookingStep, UnsentStep, EffectStep, FinishStep, ReleaseStep, BackStep DEF Deliver
<1>5. ASSUME DropQueued \/ Lapse \/ UNCHANGED vars PROVE Goal
      BY <1>5, DropStep, StutterStep
<1> HIDE DEF Goal
<1>6. Goal
      BY <1>1, <1>2, <1>3, <1>4, <1>5 DEF Next
<1> QED BY <1>6 DEF Goal

THEOREM Invariance == Spec => []IInv
BY InitIInv, Inductive, PTL DEF Spec

(* outbox.ts: the table, the workers' memory and their chains keep their   *)
(* shapes.                                                                 *)
THEOREM TypeCorrect == Spec => []TypeOK
<1>1. IInv => TypeOK
      BY DEF IInv
<1> QED BY <1>1, Invariance, PTL

(* outbox.ts, claimed, pass, deliverChain: however many workers think they *)
(* own the lease, no row is in the hands of two, and none that waits to be *)
(* claimed is in anybody's.                                                *)
THEOREM OneHandlerAlways == Spec => []OneHandler
<1>1. IInv => OneHandler
      BY DEF IInv
<1> QED BY <1>1, Invariance, PTL

-----------------------------------------------------------------------------
(* The refinement *)

LEMMA PromiseKept == IInv /\ IInv' /\ Promise => [D!Next]_(D!vars)
<1> SUFFICES ASSUME IInv, IInv', Promise PROVE [D!Next]_(D!vars)
    OBVIOUS
<1> DEFINE Fates == [r \in Row |-> FateOf(r)]
           Effects == [r \in Row |-> EffectsOf(r)]
<1>t. TypeOK /\ TypeOK' /\ kind' = kind
      BY DEF IInv, Promise
<1>1. CASE sends' = sends
  <2>1. ASSUME NEW r \in Row
        PROVE  \/ /\ FateOf(r) = "open" /\ FateOf(r)' \in Done
                  /\ \/ EffectsOf(r)' = EffectsOf(r)
                     \/ EffectsOf(r) = 0 /\ EffectsOf(r)' = 1 /\ FateOf(r)' = "delivered"
                  /\ FateOf(r)' = "delivered" => EffectsOf(r)' = 1
                  /\ FateOf(r)' = "skipped" => EffectsOf(r)' = 0
               \/ FateOf(r)' = FateOf(r) /\ EffectsOf(r)' = EffectsOf(r)
    <3>1. RowSound(r) /\ RowSound(r)'
          BY DEF IInv
    <3>2. CASE row[r].state \in Done
      <4>1. row'[r].state = row[r].state
            BY <3>2 DEF Promise
      <4> QED BY <1>t, <1>1, <4>1 DEF FateOf, EffectsOf
    <3>3. CASE row[r].state \notin Done /\ row'[r].state \notin Done
          BY <1>t, <1>1, <3>3 DEF FateOf, EffectsOf, Done
    <3>4. CASE row[r].state \notin Done /\ row'[r].state \in Done
      <4>1. FateOf(r) = "open" /\ FateOf(r)' = row'[r].state /\ EffectsOf(r) = sends[r]
            BY <3>4 DEF FateOf, EffectsOf, Done
      <4>2. EffectsOf(r)' = IF kind[r] = "flag" /\ row'[r].state = "delivered" THEN 1 ELSE sends[r]
            BY <1>t, <1>1 DEF EffectsOf
      <4>3. /\ kind[r] = "flag" => sends[r] = 0
            /\ row'[r].state = "delivered" => kind[r] = "flag" \/ sends[r] = 1
            /\ row'[r].state = "skipped" => sends[r] = 0
            BY <1>t, <1>1, <3>1 DEF RowSound, Truthful
      <4>4. CASE row'[r].state = "delivered"
            BY <3>4, <4>1, <4>2, <4>3, <4>4
      <4>5. CASE row'[r].state # "delivered"
            BY <3>4, <4>1, <4>2, <4>3, <4>5
      <4> QED BY <4>4, <4>5
    <3> QED BY <3>2, <3>3, <3>4
  <2>2. ASSUME NEW r \in Row
        PROVE  D!Ends(r) \/ (Fates'[r] = Fates[r] /\ Effects'[r] = Effects[r])
        BY <2>1 DEF D!Ends, D!Outcome, Done
  <2>3. D!End
        BY <2>2 DEF D!End
  <2> QED BY <2>3 DEF D!Next
<1>2. CASE \E r \in Row : Acts(r)
  <2>1. PICK r \in Row : Acts(r)
        BY <1>2
  <2>2. \A q \in Row : FateOf(q)' = FateOf(q)
        BY <2>1 DEF Acts, FateOf
  <2>3. FateOf(r) \in {"open", "unknown"} /\ EffectsOf(r) = 0 /\ EffectsOf(r)' = 1
        BY <1>t, <2>1 DEF Acts, Untouched, FateOf, EffectsOf, Done, TypeOK
  <2>4. \A q \in Row \ {r} : EffectsOf(q)' = EffectsOf(q)
        BY <1>t, <2>1 DEF Acts, EffectsOf, TypeOK
  <2>5. Fates' = Fates /\ Effects' = [Effects EXCEPT ![r] = 1]
        BY <2>2, <2>3, <2>4
  <2>6. D!Act(r)
        BY <2>3, <2>5 DEF D!Act
  <2> QED BY <2>6 DEF D!Next
<1> QED BY <1>1, <1>2 DEF Promise

LEMMA DeliveryInit == Init => D!Init
BY DEF Init, Pending, D!Init, FateOf, EffectsOf, Done

(* The outbox, with its claims, chains, crashes and lost leases, does what *)
(* Delivery promises: at most one effect, one ending, and a true one.      *)
THEOREM Refinement == Spec => ImplementsDelivery
<1>1. IInv /\ [Next]_vars => [D!Next]_(D!vars)
  <2> SUFFICES ASSUME IInv, [Next]_vars PROVE [D!Next]_(D!vars)
      OBVIOUS
  <2> QED BY Inductive, PromiseKept
<1> QED BY <1>1, DeliveryInit, Invariance, PTL DEF Spec, D!Spec, ImplementsDelivery
=============================================================================
