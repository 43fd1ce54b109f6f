---------------------------- MODULE MembersProofs ----------------------------
(***************************************************************************)
(* What requests that meet keep of an organisation's owners and links, for *)
(* any number of people, links and requests.                               *)
(***************************************************************************)
EXTENDS Members, FiniteSetTheorems, WellFoundedInduction, TLAPS

(* Which statements a request of each kind comes to, and for whom.         *)
Phase(q) ==
    /\ q.op = "none" => q = Idle
    /\ q.op # "none" => q.user \in User
    /\ q.at \in {"owners", "lock"} => q.op \in {"demote", "remove"}
    /\ q.at = "grants" => q.op \in {"remove", "setGrants", "setUserGrants"}
    /\ q.at = "update" => q.op \in {"demote", "promote", "remove"}
    /\ q.at = "revoke" => q.op \in {"demote", "remove", "delete"} /\ q.todo \subseteq Link
    /\ q.at \in {"insertMember", "claim", "joinGrants"} => q.op = "join"
    /\ q.at = "insert" => q.op \in {"setGrants", "setUserGrants"}
    /\ q.at = "ensure" => q.op = "setUserGrants"
    /\ q.at = "mint" => q.op = "mint"
    /\ q.at = "commit" => q.op \notin {"none", "delete", "mint"}
    /\ q.at = "lock" => q.todo \subseteq User
    /\ q.op \in {"join", "mint"} => q.link \in Link

(* The rows of a membership are those of the request's person, who has an  *)
(* account; whom a link or a grant makes a member was none.                *)
OwnRow(q) ==
    /\ \A u \in User : MemberRow(u) \in q.writes => u = q.user /\ u \in account
    /\ q.op \in {"join", "setGrants", "setUserGrants"} /\ MemberRow(q.user) \in q.writes
         => role[q.user] = "none"
    /\ q.at = "ensure" => q.user \in account /\ GrantRow(q.user) \in q.writes

(* A row that is locked is there.                                          *)
Locked(q) == \A u \in User : MemberRow(u) \in q.locks => role[u] # "none"

(* Whoever was counted is no owner, or holds another.                      *)
Second(q) ==
    q.op \in {"demote", "remove"} /\ q.at \in {"grants", "update", "revoke", "commit"}
      /\ MemberRow(q.user) \in q.locks /\ role[q.user] = "owner"
        => \E v \in User \ {q.user} : role[v] = "owner" /\ MemberRow(v) \in q.locks

(* A use about to be counted is the request's own link's, which has one.   *)
OwnLink(q) ==
    \A l \in Link : LinkRow(l) \in q.writes /\ q.op = "join" => l = q.link /\ Live(l)

Sound(q) == Phase(q) /\ OwnRow(q) /\ Locked(q) /\ Second(q) /\ OwnLink(q)

(* Nobody writes what another wrote, nor a membership another locked.      *)
Beside(q, o) ==
    /\ q.writes \cap o.writes = {}
    /\ \A u \in User : MemberRow(u) \in q.locks => MemberRow(u) \notin o.writes

Apart == \A r, s \in Req : r # s => Beside(req[r], req[s])
MembersExist == \A u \in User : role[u] # "none" => u \in account
Unmade == \A l \in Link : link[l].by = NoUser => link[l].uses = 0 /\ ~link[l].live

IInv == TypeOK /\ (\A r \in Req : Sound(req[r])) /\ Apart /\ MembersExist /\ Unmade

-----------------------------------------------------------------------------
(* Requests and rows *)

LEMMA IdleSound == Idle \in Requests /\ Sound(Idle)
  BY UserAssumption, LinkAssumption
     DEF Idle, Requests, Ops, Sound, Phase, OwnRow, Locked, Second, OwnLink

LEMMA RowTypes ==
  /\ \A u \in User : MemberRow(u) \in Rows /\ GrantRow(u) \in Rows
  /\ \A l \in Link : LinkRow(l) \in Rows
  BY DEF Rows

LEMMA RowsApart ==
  /\ \A u, v : MemberRow(u) = MemberRow(v) => u = v
  /\ \A u, v : LinkRow(u) = LinkRow(v) => u = v
  /\ \A u, v : MemberRow(u) # GrantRow(v)
  /\ \A u, v : MemberRow(u) # LinkRow(v)
  /\ \A u, v : GrantRow(u) # LinkRow(v)
  BY DEF MemberRow, GrantRow, LinkRow

(* A request that is sound and beside the others may take the place of     *)
(* what it was.                                                            *)
LEMMA RequestStep ==
  ASSUME IInv, NEW r \in Req, NEW q \in Requests, Sound(q),
         \A s \in Req \ {r} : Beside(q, req[s]) /\ Beside(req[s], q),
         req' = [req EXCEPT ![r] = q], UNCHANGED <<account, role, granted, link>>
  PROVE  IInv'
<1>1. req' \in [Req -> Requests] /\ req'[r] = q /\ \A s \in Req \ {r} : req'[s] = req[s]
      BY DEF IInv, TypeOK
<1>2. TypeOK'
      BY <1>1 DEF IInv, TypeOK
<1>3. ASSUME NEW s \in Req PROVE Sound(req'[s])
      BY <1>1, <1>3 DEF IInv
<1>4. \A s \in Req : Sound(req[s])'
      BY <1>3 DEF Sound, Phase, OwnRow, Locked, Second, OwnLink, Live
<1>5. Apart'
      BY <1>1 DEF IInv, Apart, Beside
<1>6. MembersExist' /\ Unmade'
      BY DEF IInv, MembersExist, Unmade
<1> QED BY <1>2, <1>4, <1>5, <1>6 DEF IInv

(* It may end at any time.                                                 *)
LEMMA EndStep ==
  ASSUME IInv, NEW r \in Req, Ends(r), UNCHANGED <<account, role, granted, link>>
  PROVE  IInv'
<1>1. \A s \in Req \ {r} : Beside(Idle, req[s]) /\ Beside(req[s], Idle)
      BY DEF Idle, Beside
<1> QED BY <1>1, IdleSound, RequestStep DEF Ends

(* It goes on to another statement, with nothing locked or written more.   *)
LEMMA MoveStep ==
  ASSUME IInv, NEW r \in Req, NEW q \in Requests, Sound(q),
         q.locks \subseteq req[r].locks, q.writes \subseteq req[r].writes,
         req' = [req EXCEPT ![r] = q], UNCHANGED <<account, role, granted, link>>
  PROVE  IInv'
<1>1. \A s \in Req \ {r} : Beside(q, req[s]) /\ Beside(req[s], q)
      BY DEF IInv, Apart, Beside
<1> QED BY <1>1, RequestStep

(* It writes one more row, one it waited for.                              *)
LEMMA WriteStep ==
  ASSUME IInv, NEW r \in Req, NEW q \in Requests, Sound(q), NEW row \in Rows,
         q.locks = req[r].locks, q.writes = req[r].writes \cup {row},
         \A s \in Req \ {r} : row \notin req[s].writes,
         \A u \in User : row = MemberRow(u) => \A s \in Req \ {r} : row \notin req[s].locks,
         req' = [req EXCEPT ![r] = q], UNCHANGED <<account, role, granted, link>>
  PROVE  IInv'
<1>1. \A s \in Req \ {r} : Beside(q, req[s]) /\ Beside(req[s], q)
      BY DEF IInv, Apart, Beside
<1> QED BY <1>1, RequestStep

(* What a statement that did not wait may rely on.                         *)
LEMMA Unblocked ==
  ASSUME IInv, NEW r \in Req, BlockedBy(r) = {}, NEW s \in Req \ {r}
  PROVE  /\ \A w \in WantsUnwritten(req[r]) : w \notin req[s].writes
         /\ \A w \in WantsUnlocked(req[r]) : w \notin req[s].writes /\ w \notin req[s].locks
<1>1. s \notin Running => req[s].writes = {} /\ req[s].locks = {}
      BY DEF IInv, Sound, Phase, Running, Idle
<1> QED BY <1>1 DEF BlockedBy

LEMMA RequestParts ==
  ASSUME IInv, NEW r \in Req
  PROVE  /\ req[r] \in Requests /\ Sound(req[r])
         /\ req[r].at \in {"idle", "owners", "lock", "grants", "update", "revoke", "insertMember",
                           "claim", "joinGrants", "insert", "ensure", "mint", "erase", "commit"}
         /\ req[r].locks \subseteq Rows /\ req[r].writes \subseteq Rows /\ req[r].op \in Ops
         /\ req[r].todo \subseteq User \cup Link
  BY DEF IInv, TypeOK, Requests
-----------------------------------------------------------------------------
(* Beginnings *)

LEMMA BeginStep ==
  ASSUME IInv, NEW r \in Req, NEW op \in Ops \ {"none"}, NEW at, NEW u \in User, NEW l,
         NEW todo \in SUBSET Link,
         Begins(r, op, at, u, l, todo),
         \/ op = "demote" /\ at = "owners" /\ l = NoLink /\ todo = {}
         \/ op = "remove" /\ at = "owners" /\ l = NoLink /\ todo = {}
         \/ op = "promote" /\ at = "update" /\ l = NoLink /\ todo = {}
         \/ op = "join" /\ at = "insertMember" /\ l \in Link /\ todo = {}
         \/ op \in {"setGrants", "setUserGrants"} /\ at = "grants" /\ l = NoLink /\ todo = {}
         \/ op = "mint" /\ at = "mint" /\ l \in Link /\ todo = {}
         \/ op = "delete" /\ at = "revoke" /\ l = NoLink
  PROVE  IInv'
<1> DEFINE q == [op |-> op, at |-> at, user |-> u, link |-> l, todo |-> todo,
                 locks |-> {}, writes |-> {}, adds |-> FALSE]
<1>1. q \in Requests
      BY DEF Requests
<1>2. Sound(q)
      BY DEF Sound, Phase, OwnRow, Locked, Second, OwnLink
<1> QED BY <1>1, <1>2, MoveStep DEF Begins

LEMMA StartStep ==
  ASSUME IInv, NEW r \in Req, Starts(r)
  PROVE  IInv'
<1>1. PICK u \in User :
        \/ SetMemberRole(r, u) \/ RemoveMember(r, u) \/ SetMemberGrants(r, u)
        \/ SetUserGrants(r, u) \/ DeleteUser(r, u)
        \/ \E l \in Link : JoinOrg(r, u, l) \/ CreateInvite(r, u, l)
      BY DEF Starts
<1>2. MadeBy(u) \in SUBSET Link
      BY DEF MadeBy
<1> QED BY <1>1, <1>2, BeginStep
        DEF SetMemberRole, RemoveMember, SetMemberGrants, SetUserGrants, DeleteUser, JoinOrg,
            CreateInvite, Ops

-----------------------------------------------------------------------------
(* keepAnOwner *)

LEMMA AskStep ==
  ASSUME IInv, NEW r \in Req, AskOwners(r)
  PROVE  IInv'
<1> DEFINE q == [req[r] EXCEPT !.at = "lock", !.todo = Owners]
<1>1. q \in Requests
      BY RequestParts, ZenonT(60) DEF Requests, Owners
<1>2. Sound(q)
      BY RequestParts DEF Sound, Phase, OwnRow, Locked, Second, OwnLink, AskOwners, At, Running, Owners, Requests
<1>3. q.locks = req[r].locks /\ q.writes = req[r].writes
      BY RequestParts DEF Requests
<1> QED BY <1>1, <1>2, <1>3, MoveStep DEF AskOwners

LEMMA LockStep ==
  ASSUME IInv, NEW r \in Req, LockOwner(r)
  PROVE  IInv'
<1>1. PICK u \in NextOwner(req[r]) :
        req' = [req EXCEPT ![r].todo = @ \ {u},
                           ![r].locks = IF role[u] = "none" THEN @ ELSE @ \cup {MemberRow(u)}]
      BY DEF LockOwner
<1> DEFINE locks == IF role[u] = "none" THEN req[r].locks ELSE req[r].locks \cup {MemberRow(u)}
           q == [req[r] EXCEPT !.todo = @ \ {u}, !.locks = locks]
<1>2. u \in req[r].todo /\ u \in User /\ req[r].at = "lock"
      BY RequestParts DEF NextOwner, LockOwner, MayGo, At, Sound, Phase
<1>3. q \in Requests
      BY <1>2, RequestParts, RowTypes, ZenonT(60) DEF Requests
<1>4. Sound(q)
      BY <1>2, RequestParts, RowsApart DEF Sound, Phase, OwnRow, Locked, Second, OwnLink, Requests, Idle
<1>5. \A s \in Req \ {r} : MemberRow(u) \notin req[s].writes
      BY <1>1, <1>2, Unblocked DEF LockOwner, MayGo, WantsUnlocked
<1>6. \A s \in Req \ {r} : Beside(q, req[s]) /\ Beside(req[s], q)
      BY <1>5, RowsApart, RequestParts DEF IInv, Apart, Beside, Requests
<1>7. req' = [req EXCEPT ![r] = q]
      BY <1>1 DEF IInv, TypeOK
<1> QED BY <1>3, <1>4, <1>6, <1>7, RequestStep DEF LockOwner

(* Of several owners another one is locked.                                *)
LEMMA CountStep ==
  ASSUME IInv, NEW r \in Req, CountOwners(r)
  PROVE  IInv'
<1>1. CASE LastOne(req[r])
      BY <1>1, EndStep DEF CountOwners
<1>2. CASE ~LastOne(req[r])
  <2> DEFINE next == IF req[r].op = "remove" THEN "grants" ELSE "update"
             q == [req[r] EXCEPT !.at = next]
  <2>1. q \in Requests
        BY RequestParts DEF Requests
  <2>2. q.user \in Counted(q) => \E v \in Counted(q) : v # q.user
    <3> SUFFICES ASSUME q.user \in Counted(q), \A v \in Counted(q) : v = q.user
                 PROVE  FALSE
        OBVIOUS
    <3>1. q.user = req[r].user /\ Counted(q) = Counted(req[r])
          BY RequestParts DEF Counted, Requests
    <3>2. Counted(req[r]) = {req[r].user}
          BY <3>1
    <3>3. Cardinality({req[r].user}) = 1
          BY FS_Singleton, Zenon
    <3>4. Cardinality(Counted(req[r])) = 1
          BY <3>2, <3>3
    <3>5. LastOne(req[r])
          BY <3>2, <3>4 DEF LastOne
    <3> QED BY <1>2, <3>5
  <2>3. Second(q)
        BY <2>2, RequestParts DEF Second, Counted, Owners, Requests, Sound, Phase, CountOwners, At, Running
  <2>4. Sound(q)
        BY <2>3, RequestParts DEF Sound, Phase, OwnRow, Locked, OwnLink, Requests, CountOwners, At, Running
  <2>5. q.locks = req[r].locks /\ q.writes = req[r].writes
        BY RequestParts DEF Requests
  <2> QED BY <1>2, <2>1, <2>4, <2>5, MoveStep DEF CountOwners, Moves
<1> QED BY <1>1, <1>2

-----------------------------------------------------------------------------
(* Statements that write *)

(* To write a row and go on, or just to go on.                             *)
LEMMA WritesStep ==
  ASSUME IInv, NEW r \in Req, NEW row \in Rows, NEW next,
         Writes(r, row, next), UNCHANGED <<account, role, granted, link>>,
         LET q == [req[r] EXCEPT !.at = next, !.writes = @ \cup {row}]
         IN  q \in Requests /\ Sound(q),
         \A s \in Req \ {r} : row \notin req[s].writes,
         \A u \in User : row = MemberRow(u) => \A s \in Req \ {r} : row \notin req[s].locks
  PROVE  IInv'
<1> DEFINE q == [req[r] EXCEPT !.at = next, !.writes = @ \cup {row}]
<1>1. q.locks = req[r].locks /\ q.writes = req[r].writes \cup {row}
      BY RequestParts DEF Requests
<1>2. req' = [req EXCEPT ![r] = q]
      BY DEF Writes, IInv, TypeOK
<1> QED BY <1>1, <1>2, WriteStep

LEMMA MovesStep ==
  ASSUME IInv, NEW r \in Req, NEW next,
         Moves(r, next), UNCHANGED <<account, role, granted, link>>,
         LET q == [req[r] EXCEPT !.at = next] IN q \in Requests /\ Sound(q)
  PROVE  IInv'
<1> DEFINE q == [req[r] EXCEPT !.at = next]
<1>1. q.locks = req[r].locks /\ q.writes = req[r].writes
      BY RequestParts DEF Requests
<1>2. req' = [req EXCEPT ![r] = q]
      BY DEF Moves, IInv, TypeOK
<1> QED BY <1>1, <1>2, MoveStep

LEMMA DropGrantsStep ==
  ASSUME IInv, NEW r \in Req, DropGrants(r)
  PROVE  IInv'
<1> DEFINE next == IF req[r].op = "remove" THEN "update" ELSE "insert"
<1>1. req[r].at = "grants" /\ req[r].user \in User /\ BlockedBy(r) = {}
      BY RequestParts DEF DropGrants, MayGo, At, Running, Sound, Phase
<1>2. CASE req[r].user \in granted
  <2> DEFINE row == GrantRow(req[r].user)
             q == [req[r] EXCEPT !.at = next, !.writes = @ \cup {row}]
  <2>1. row \in Rows
        BY <1>1, RowTypes
  <2>2. q \in Requests
        BY <2>1, RequestParts, ZenonT(60) DEF Requests
  <2>3. Sound(q)
        BY <1>1, RequestParts, RowsApart DEF Sound, Phase, OwnRow, Locked, Second, OwnLink, Requests, Idle
  <2>4. \A s \in Req \ {r} : row \notin req[s].writes
        BY <1>1, <1>2, Unblocked DEF WantsUnwritten
  <2>5. Writes(r, row, next)
        BY <1>2 DEF DropGrants
  <2>6. \A u \in User : row # MemberRow(u)
        BY RowsApart
  <2> HIDE DEF row, next
  <2> QED BY <2>1, <2>2, <2>3, <2>4, <2>5, <2>6, WritesStep, ZenonT(60) DEF DropGrants
<1>3. CASE req[r].user \notin granted
  <2> DEFINE q == [req[r] EXCEPT !.at = next]
  <2>1. q \in Requests
        BY RequestParts DEF Requests
  <2>2. Sound(q)
        BY <1>1, RequestParts DEF Sound, Phase, OwnRow, Locked, Second, OwnLink, Requests, Idle
  <2>3. Moves(r, next)
        BY <1>3 DEF DropGrants
  <2> QED BY <2>1, <2>2, <2>3, MovesStep DEF DropGrants
<1> QED BY <1>2, <1>3

LEMMA UpdateStep ==
  ASSUME IInv, NEW r \in Req, UpdateMember(r)
  PROVE  IInv'
<1> DEFINE row == MemberRow(req[r].user)
           writes == IF role[req[r].user] = "none" THEN req[r].writes
                     ELSE req[r].writes \cup {row}
           next == IF req[r].op = "promote" THEN "commit" ELSE "revoke"
           todo == IF req[r].op = "promote" THEN {} ELSE MadeBy(req[r].user)
           q == [req[r] EXCEPT !.at = next, !.todo = todo, !.writes = writes]
<1>1. req[r].at = "update" /\ req[r].user \in User /\ BlockedBy(r) = {}
      BY RequestParts DEF UpdateMember, MayGo, At, Running, Sound, Phase
<1>2. q \in Requests
  <2>1. row \in Rows /\ MadeBy(req[r].user) \in SUBSET (User \cup Link)
        BY <1>1, RowTypes DEF MadeBy
  <2>2. writes \in SUBSET Rows /\ todo \in SUBSET (User \cup Link)
        BY <2>1, RequestParts
  <2> HIDE DEF writes, todo
  <2> QED BY <2>2, RequestParts, ZenonT(60) DEF Requests
<1>3. Sound(q)
      BY <1>1, RequestParts, RowsApart
         DEF Sound, Phase, OwnRow, Locked, Second, OwnLink, Requests, Idle, MadeBy, IInv, MembersExist
<1>4. role[req[r].user] # "none"
        => \A s \in Req \ {r} : row \notin req[s].writes /\ row \notin req[s].locks
      BY <1>1, Unblocked DEF WantsUnlocked
<1>5. \A s \in Req \ {r} : Beside(q, req[s]) /\ Beside(req[s], q)
      BY <1>1, <1>4, RowsApart, RequestParts DEF IInv, Apart, Beside, Requests
<1>6. req' = [req EXCEPT ![r] = q]
      BY DEF UpdateMember, IInv, TypeOK
<1> QED BY <1>2, <1>3, <1>5, <1>6, RequestStep DEF UpdateMember

LEMMA RevokeStep ==
  ASSUME IInv, NEW r \in Req, RevokeMinted(r)
  PROVE  IInv'
<1>1. PICK l \in req[r].todo :
        /\ \A s \in Running \ {r} : LinkRow(l) \notin req[s].writes
        /\ req' = [req EXCEPT ![r].todo = @ \ {l}, ![r].writes = @ \cup {LinkRow(l)}]
      BY DEF RevokeMinted
<1> DEFINE row == LinkRow(l)
           q == [req[r] EXCEPT !.todo = @ \ {l}, !.writes = @ \cup {row}]
<1>2. l \in Link /\ req[r].at = "revoke" /\ row \in Rows
      BY RequestParts, RowTypes DEF Sound, Phase, RevokeMinted, At
<1>3. q \in Requests
      BY <1>2, RequestParts, ZenonT(60) DEF Requests
<1>4. Sound(q)
      BY <1>2, RequestParts, RowsApart DEF Sound, Phase, OwnRow, Locked, Second, OwnLink, Requests, Idle
<1>5. \A s \in Req \ {r} : row \notin req[s].writes
      BY <1>1 DEF IInv, Sound, Phase, Running, Idle
<1>6. \A u \in User : row # MemberRow(u)
      BY RowsApart
<1>7. req' = [req EXCEPT ![r] = q] /\ q.locks = req[r].locks
        /\ q.writes = req[r].writes \cup {row}
      BY <1>1, RequestParts DEF IInv, TypeOK, Requests
<1>8. \A u \in User : row = MemberRow(u) => \A s \in Req \ {r} : row \notin req[s].locks
      BY <1>6
<1>9. UNCHANGED <<account, role, granted, link>>
      BY DEF RevokeMinted
<1> HIDE DEF row, q
<1> QED BY <1>2, <1>3, <1>4, <1>5, <1>7, <1>8, <1>9, WriteStep

LEMMA RevokedStep ==
  ASSUME IInv, NEW r \in Req, RevokedAll(r)
  PROVE  IInv'
<1> DEFINE q == [req[r] EXCEPT !.at = "commit"]
<1>1. q \in Requests
      BY RequestParts DEF Requests
<1>2. Sound(q)
      BY RequestParts
         DEF Sound, Phase, OwnRow, Locked, Second, OwnLink, Requests, RevokedAll, At, Running
<1> QED BY <1>1, <1>2, MovesStep DEF RevokedAll

LEMMA InsertMemberStep ==
  ASSUME IInv, NEW r \in Req, InsertMember(r)
  PROVE  IInv'
<1> DEFINE u == req[r].user
           row == MemberRow(u)
           q == [req[r] EXCEPT !.at = "claim", !.writes = @ \cup {row}]
<1>1. CASE role[u] # "none" \/ u \notin account
      BY <1>1, EndStep DEF InsertMember
<1>2. CASE role[u] = "none" /\ u \in account
  <2>1. req[r].at = "insertMember" /\ req[r].op = "join" /\ u \in User /\ row \in Rows
        BY RequestParts, RowTypes DEF Sound, Phase, InsertMember, MayGo, At, Running
  <2>2. q \in Requests
        BY <2>1, RequestParts, ZenonT(60) DEF Requests
  <2>3. Sound(q)
        BY <1>2, <2>1, RequestParts, RowsApart
           DEF Sound, Phase, OwnRow, Locked, Second, OwnLink, Requests, Idle
  <2>4. \A s \in Req \ {r} : row \notin req[s].writes
        BY <2>1, Unblocked DEF WantsUnwritten, InsertMember, MayGo
  <2>5. \A s \in Req \ {r} : row \notin req[s].locks
        BY <1>2, <2>1, RequestParts DEF Sound, Locked
  <2>6. Writes(r, row, "claim")
        BY <1>2 DEF InsertMember
  <2> QED BY <2>1, <2>2, <2>3, <2>4, <2>5, <2>6, WritesStep, ZenonT(60) DEF InsertMember
<1> QED BY <1>1, <1>2

LEMMA ClaimStep ==
  ASSUME IInv, NEW r \in Req, Claim(r)
  PROVE  IInv'
<1> DEFINE row == LinkRow(req[r].link)
           q == [req[r] EXCEPT !.at = "joinGrants", !.writes = @ \cup {row}]
<1>1. CASE ~Live(req[r].link)
      BY <1>1, EndStep DEF Claim
<1>2. CASE Live(req[r].link)
  <2>1. req[r].at = "claim" /\ req[r].op = "join" /\ req[r].link \in Link /\ row \in Rows
        BY RequestParts, RowTypes DEF Sound, Phase, Claim, MayGo, At, Running
  <2>2. q \in Requests
        BY <2>1, RequestParts, ZenonT(60) DEF Requests
  <2>3. Sound(q)
        BY <1>2, <2>1, RequestParts, RowsApart
           DEF Sound, Phase, OwnRow, Locked, Second, OwnLink, Requests, Idle
  <2>4. \A s \in Req \ {r} : row \notin req[s].writes
        BY <2>1, Unblocked DEF WantsUnwritten, Claim, MayGo
  <2>5. \A u \in User : row # MemberRow(u)
        BY RowsApart
  <2>6. Writes(r, row, "joinGrants")
        BY <1>2 DEF Claim
  <2> HIDE DEF row
  <2> QED BY <2>1, <2>2, <2>3, <2>4, <2>5, <2>6, WritesStep, ZenonT(60) DEF Claim
<1> QED BY <1>1, <1>2

(* A grant inserted, or none.                                              *)
LEMMA GrantRowStep ==
  ASSUME IInv, NEW r \in Req, NEW next,
         BlockedBy(r) = {}, GrantRow(req[r].user) \in WantsUnwritten(req[r]), req[r].user \in User,
         UNCHANGED <<account, role, granted, link>>,
         req' = [req EXCEPT ![r].at = next, ![r].adds = TRUE,
                            ![r].writes = @ \cup {GrantRow(req[r].user)}],
         \/ req[r].at = "joinGrants" /\ req[r].op = "join" /\ next = "commit"
         \/ req[r].at = "insert" /\ req[r].op = "setGrants" /\ next = "commit"
         \/ /\ req[r].at = "insert" /\ req[r].op = "setUserGrants" /\ next = "ensure"
            /\ req[r].user \in account
  PROVE  IInv'
<1> DEFINE row == GrantRow(req[r].user)
           q == [req[r] EXCEPT !.at = next, !.adds = TRUE, !.writes = @ \cup {row}]
<1>1. row \in Rows /\ \A u \in User : row # MemberRow(u)
      BY RowTypes, RowsApart
<1>2. q \in Requests
      BY <1>1, RequestParts, ZenonT(60) DEF Requests
<1>3. Sound(q)
      BY <1>1, RequestParts, RowsApart
         DEF Sound, Phase, OwnRow, Locked, Second, OwnLink, Requests, Idle
<1>4. \A s \in Req \ {r} : row \notin req[s].writes
      BY Unblocked
<1>5. req' = [req EXCEPT ![r] = q] /\ q.locks = req[r].locks
        /\ q.writes = req[r].writes \cup {row}
      BY RequestParts DEF IInv, TypeOK, Requests
<1>6. \A u \in User : row = MemberRow(u) => \A s \in Req \ {r} : row \notin req[s].locks
      BY <1>1
<1> HIDE DEF row, q
<1> QED BY <1>1, <1>2, <1>3, <1>4, <1>5, <1>6, WriteStep

LEMMA CommitNext ==
  ASSUME IInv, NEW r \in Req, req[r].at \in {"joinGrants", "insert"}, Moves(r, "commit"),
         r \in Running, UNCHANGED <<account, role, granted, link>>
  PROVE  IInv'
<1> DEFINE q == [req[r] EXCEPT !.at = "commit"]
<1>1. q \in Requests
      BY RequestParts DEF Requests
<1>2. Sound(q)
      BY RequestParts DEF Sound, Phase, OwnRow, Locked, Second, OwnLink, Requests, Running
<1> QED BY <1>1, <1>2, MovesStep

LEMMA JoinGrantsStep ==
  ASSUME IInv, NEW r \in Req, JoinGrants(r)
  PROVE  IInv'
<1>1. req[r].at = "joinGrants" /\ req[r].op = "join" /\ req[r].user \in User /\ r \in Running
      BY RequestParts DEF Sound, Phase, JoinGrants, MayGo, At, Running
<1>2. CASE Moves(r, "commit")
      BY <1>1, <1>2, CommitNext DEF JoinGrants
<1>3. CASE ~Moves(r, "commit")
  <2>1. GrantRow(req[r].user) \in WantsUnwritten(req[r])
        BY <1>1 DEF WantsUnwritten
  <2> QED BY <1>1, <1>3, <2>1, GrantRowStep, ZenonT(60) DEF JoinGrants, MayGo
<1> QED BY <1>2, <1>3

LEMMA InsertGrantsStep ==
  ASSUME IInv, NEW r \in Req, InsertGrants(r)
  PROVE  IInv'
<1> DEFINE next == IF req[r].op = "setGrants" THEN "commit" ELSE "ensure"
<1>1. /\ req[r].at = "insert" /\ req[r].op \in {"setGrants", "setUserGrants"}
      /\ req[r].user \in User /\ r \in Running
      BY RequestParts DEF Sound, Phase, InsertGrants, MayGo, At, Running
<1>2. CASE Moves(r, "commit")
      BY <1>1, <1>2, CommitNext DEF InsertGrants
<1>3. CASE Ends(r)
      BY <1>3, EndStep DEF InsertGrants
<1>4. CASE ~Moves(r, "commit") /\ ~Ends(r)
  <2>1. GrantRow(req[r].user) \in WantsUnwritten(req[r])
        BY <1>1 DEF WantsUnwritten
  <2> QED BY <1>1, <1>4, <2>1, GrantRowStep, ZenonT(60) DEF InsertGrants, MayGo
<1> QED BY <1>2, <1>3, <1>4

LEMMA EnsureStep ==
  ASSUME IInv, NEW r \in Req, EnsureMember(r)
  PROVE  IInv'
<1> DEFINE u == req[r].user
           row == MemberRow(u)
<1>1. /\ req[r].at = "ensure" /\ req[r].op = "setUserGrants" /\ u \in User /\ u \in account
      /\ row \in Rows
      BY RequestParts, RowTypes DEF Sound, Phase, OwnRow, EnsureMember, MayGo, At, Running
<1>2. CASE role[u] = "none"
  <2> DEFINE q == [req[r] EXCEPT !.at = "commit", !.writes = @ \cup {row}]
  <2>1. q \in Requests
        BY <1>1, RequestParts, ZenonT(60) DEF Requests
  <2>2. Sound(q)
        BY <1>1, <1>2, RequestParts, RowsApart
           DEF Sound, Phase, OwnRow, Locked, Second, OwnLink, Requests, Idle
  <2>3. \A s \in Req \ {r} : row \notin req[s].writes
        BY <1>1, Unblocked DEF WantsUnwritten, EnsureMember, MayGo
  <2>4. \A s \in Req \ {r} : row \notin req[s].locks
        BY <1>1, <1>2, RequestParts DEF Sound, Locked
  <2>5. Writes(r, row, "commit")
        BY <1>2 DEF EnsureMember
  <2> QED BY <1>1, <2>1, <2>2, <2>3, <2>4, <2>5, WritesStep, ZenonT(60) DEF EnsureMember
<1>3. CASE role[u] # "none"
  <2> DEFINE q == [req[r] EXCEPT !.at = "commit"]
  <2>1. q \in Requests
        BY RequestParts DEF Requests
  <2>2. Sound(q)
        BY <1>1, RequestParts DEF Sound, Phase, OwnRow, Locked, Second, OwnLink, Requests
  <2>3. Moves(r, "commit")
        BY <1>3 DEF EnsureMember
  <2> QED BY <2>1, <2>2, <2>3, MovesStep DEF EnsureMember
<1> QED BY <1>2, <1>3

-----------------------------------------------------------------------------
(* Steps that others see *)

(* A request whose rows a step leaves alone stays sound.                   *)
LEMMA Untouched ==
  ASSUME IInv, NEW s \in Req, req'[s] = req[s],
         \A u \in User : MemberRow(u) \in req[s].writes \cup req[s].locks => role'[u] = role[u],
         \A u \in account \ account' :
            MemberRow(u) \notin req[s].writes /\ GrantRow(u) \notin req[s].writes,
         \A l \in Link : LinkRow(l) \in req[s].writes /\ Live(l) => Live(l)'
  PROVE  Sound(req[s])'
<1>1. Sound(req[s]) /\ req[s] \in Requests
      BY RequestParts
<1>2. Phase(req[s])'
      BY <1>1 DEF Sound, Phase
<1>3. OwnRow(req[s])'
  <2>1. req[s].op # "none" => req[s].user \in User
        BY <1>1 DEF Sound, Phase
  <2>2. req[s].at = "ensure" => req[s].op # "none"
        BY <1>1 DEF Sound, Phase
  <2> QED BY <1>1, <2>1, <2>2 DEF Sound, OwnRow
<1>4. Locked(req[s])'
      BY <1>1 DEF Sound, Locked
<1>5. Second(req[s])'
  <2>1. req[s].op # "none" => req[s].user \in User
        BY <1>1 DEF Sound, Phase
  <2> QED BY <1>1, <2>1 DEF Sound, Second
<1>6. OwnLink(req[s])'
      BY <1>1 DEF Sound, OwnLink
<1> QED BY <1>2, <1>3, <1>4, <1>5, <1>6 DEF Sound

LEMMA ApartStays ==
  ASSUME IInv, NEW r \in Req, req' \in [Req -> Requests],
         \A s \in Req \ {r} : req'[s] = req[s],
         req'[r].writes \subseteq req[r].writes, req'[r].locks \subseteq req[r].locks
  PROVE  Apart'
  BY DEF IInv, Apart, Beside

LEMMA EndedRequest ==
  ASSUME IInv, NEW r \in Req, Ends(r)
  PROVE  /\ req' \in [Req -> Requests] /\ req'[r] = Idle
         /\ \A s \in Req \ {r} : req'[s] = req[s]
         /\ Apart' /\ Sound(req[r])'
<1>1. req' \in [Req -> Requests] /\ req'[r] = Idle /\ \A s \in Req \ {r} : req'[s] = req[s]
      BY IdleSound DEF Ends, IInv, TypeOK
<1>2. Idle.writes = {} /\ Idle.locks = {}
      BY DEF Idle
<1>3. Apart'
      BY <1>1, <1>2, ApartStays
<1>4. Sound(req[r])'
      BY <1>1, UserAssumption, LinkAssumption
         DEF Idle, Sound, Phase, OwnRow, Locked, Second, OwnLink
<1> QED BY <1>1, <1>3, <1>4

(* What a commit writes, and that it is a link's next use.                 *)
LEMMA Written ==
  ASSUME IInv, NEW r \in Req, Commit(r)
  PROVE  /\ req[r].user \in User /\ req[r].op \notin {"none", "mint", "delete"}
         /\ \A u \in User : role'[u] # role[u] =>
               u = req[r].user /\ MemberRow(u) \in req[r].writes
         /\ role' \in [User -> Roles]
         /\ \A l \in Link : link'[l] # link[l] => LinkRow(l) \in req[r].writes
         /\ \A l \in Link : link'[l].uses # link[l].uses =>
               Live(l) /\ link'[l].uses = link[l].uses + 1
         /\ \A l \in Link : link'[l].by = link[l].by /\ (~link[l].live => ~link'[l].live)
         /\ link' \in [Link -> [by : User \cup {NoUser}, role : Roles,
                                 uses : 0 .. MAX_USES, live : BOOLEAN]]
<1> DEFINE q == req[r]
           L == [by : User \cup {NoUser}, role : Roles, uses : 0 .. MAX_USES, live : BOOLEAN]
<1>1. /\ q.user \in User /\ q.op \notin {"none", "mint", "delete"}
      /\ q.op = "join" => q.link \in Link
      BY RequestParts DEF Commit, At, Running, Sound, Phase
<1>2. RoleWritten(q) \in Roles
      BY <1>1, RequestParts DEF RoleWritten, Roles, IInv, TypeOK, Ops
<1>3. role' = IF MemberRow(q.user) \in q.writes
              THEN [role EXCEPT ![q.user] = RoleWritten(q)] ELSE role
      BY DEF Commit
<1>4. role' \in [User -> Roles] /\ \A u \in User : role'[u] # role[u] =>
         u = q.user /\ MemberRow(u) \in q.writes
      BY <1>1, <1>2, <1>3 DEF IInv, TypeOK
<1>5. link' = LinksWritten(q)
      BY DEF Commit
<1>6. ASSUME NEW l \in Link
      PROVE  /\ link'[l] \in L
             /\ link'[l] # link[l] => LinkRow(l) \in q.writes
             /\ link'[l].uses # link[l].uses => Live(l) /\ link'[l].uses = link[l].uses + 1
             /\ link'[l].by = link[l].by /\ (~link[l].live => ~link'[l].live)
  <2>1. link[l] \in L
        BY DEF IInv, TypeOK
  <2>2. LinkRow(l) \in q.writes /\ q.op = "join" => Live(l)
        BY RequestParts DEF Sound, OwnLink
  <2>3. link'[l] = IF LinkRow(l) \notin q.writes THEN link[l]
                   ELSE IF q.op = "join" THEN [link[l] EXCEPT !.uses = @ + 1]
                   ELSE [link[l] EXCEPT !.live = FALSE]
        BY <1>5 DEF LinksWritten
  <2>4. CASE LinkRow(l) \notin q.writes
        BY <2>1, <2>3, <2>4
  <2>5. CASE LinkRow(l) \in q.writes /\ q.op # "join"
        BY <2>1, <2>3, <2>5
  <2>6. CASE LinkRow(l) \in q.writes /\ q.op = "join"
    <3>1. link[l].live /\ link[l].uses + 1 \in 0 .. MAX_USES /\ link[l].uses \in Nat
          BY <2>1, <2>2, <2>6, UsesAssumption DEF Live
    <3>2. link'[l] = [link[l] EXCEPT !.uses = @ + 1]
          BY <2>3, <2>6
    <3> QED BY <2>1, <2>2, <2>6, <3>1, <3>2
  <2> QED BY <2>4, <2>5, <2>6
<1>7. link' \in [Link -> L]
      BY <1>5, <1>6 DEF LinksWritten
<1> QED BY <1>1, <1>4, <1>6, <1>7

LEMMA CommitStep ==
  ASSUME IInv, NEW r \in Req, Commit(r)
  PROVE  IInv'
<1>1. Ends(r) /\ account' = account
      BY DEF Commit
<1>2. granted' \subseteq User
      BY Written DEF Commit, IInv, TypeOK
<1>3. TypeOK'
      BY <1>1, <1>2, Written, EndedRequest DEF IInv, TypeOK
<1>4. ASSUME NEW s \in Req \ {r} PROVE Sound(req[s])'
  <2>1. \A u \in User : MemberRow(u) \in req[s].writes \cup req[s].locks => role'[u] = role[u]
        BY Written DEF IInv, Apart, Beside
  <2>2. \A l \in Link : LinkRow(l) \in req[s].writes => link'[l] = link[l]
        BY Written DEF IInv, Apart, Beside
  <2>3. \A l \in Link : LinkRow(l) \in req[s].writes /\ Live(l) => Live(l)'
        BY <2>2 DEF Live
  <2>4. req'[s] = req[s]
        BY <1>1, EndedRequest
  <2> QED BY <1>1, <2>1, <2>3, <2>4, Untouched
<1>5. MembersExist'
      BY <1>1, Written, RequestParts DEF IInv, MembersExist, Sound, OwnRow
<1>6. Unmade'
  <2> SUFFICES ASSUME NEW l \in Link, link[l].by = NoUser
               PROVE  link'[l].uses = 0 /\ ~link'[l].live
      BY Written DEF Unmade
  <2>1. link[l].uses = 0 /\ ~link[l].live
        BY DEF IInv, Unmade
  <2> QED BY <2>1, Written DEF Live
<1> QED BY <1>1, <1>3, <1>4, <1>5, <1>6, EndedRequest DEF IInv

LEMMA MintStep ==
  ASSUME IInv, NEW r \in Req, Mint(r)
  PROVE  IInv'
<1>1. req[r].link \in Link /\ req[r].user \in User
      BY RequestParts DEF Mint, At, Running, Sound, Phase
<1> DEFINE l == req[r].link
<1>2. PICK given \in Given :
        link' = [link EXCEPT ![l] = [by |-> req[r].user, role |-> given, uses |-> 0, live |-> TRUE]]
      BY DEF Mint
<1>3. link[l].uses = 0 /\ ~link[l].live
      BY <1>1 DEF IInv, Unmade, Mint
<1>4. Ends(r) /\ UNCHANGED <<account, role, granted>>
      BY DEF Mint
<1>5. TypeOK'
  <2>0. 0 \in 0 .. MAX_USES
        BY UsesAssumption
  <2>1. 0 \in 0 .. MAX_USES /\ given \in Roles
        BY <2>0, <1>2, GivenAssumption DEF Roles
  <2>2. link' \in [Link -> [by : User \cup {NoUser}, role : Roles,
                            uses : 0 .. MAX_USES, live : BOOLEAN]]
        BY <1>1, <1>2, <2>1 DEF IInv, TypeOK
  <2> QED BY <1>4, <2>2, EndedRequest DEF IInv, TypeOK
<1>6. ASSUME NEW s \in Req \ {r} PROVE Sound(req[s])'
  <2>1. \A k \in Link : Live(k) => Live(k)'
        BY <1>1, <1>2, <1>3 DEF Live, IInv, TypeOK
  <2> QED BY <1>4, <2>1, EndedRequest, Untouched
<1>7. MembersExist' /\ Unmade'
      BY <1>1, <1>2, <1>4, UserAssumption DEF IInv, TypeOK, MembersExist, Unmade
<1> QED BY <1>4, <1>5, <1>6, <1>7, EndedRequest DEF IInv

LEMMA RevokeInviteStep ==
  ASSUME IInv, NEW l \in Link, RevokeInvite(l)
  PROVE  IInv'
<1>1. UNCHANGED <<account, role, granted, req>> /\ link' = [link EXCEPT ![l].live = FALSE]
      BY DEF RevokeInvite
<1>2. TypeOK'
      BY <1>1 DEF IInv, TypeOK
<1>3. ASSUME NEW s \in Req PROVE Sound(req[s])'
  <2>1. LinkRow(l) \notin req[s].writes
        BY RequestParts DEF RevokeInvite, Running, Sound, Phase, Idle
  <2>2. \A k \in Link : LinkRow(k) \in req[s].writes /\ Live(k) => Live(k)'
        BY <1>1, <2>1 DEF Live, IInv, TypeOK
  <2> QED BY <1>1, <2>2, Untouched
<1>4. Apart' /\ MembersExist' /\ Unmade'
      BY <1>1 DEF IInv, TypeOK, Apart, Beside, MembersExist, Unmade
<1> QED BY <1>2, <1>3, <1>4 DEF IInv

LEMMA EndLinksStep ==
  ASSUME IInv, NEW r \in Req, EndLinks(r)
  PROVE  IInv'
<1> DEFINE q == [req[r] EXCEPT !.at = "erase", !.writes = {}]
           L == [by : User \cup {NoUser}, role : Roles, uses : 0 .. MAX_USES, live : BOOLEAN]
<1>1. UNCHANGED <<account, role, granted>> /\ link' = LinksWritten(req[r])
      BY DEF EndLinks
<1>2. req[r].op = "delete" /\ req[r].at = "revoke" /\ req[r].user \in User
      BY RequestParts DEF EndLinks, At, Running, Sound, Phase
<1>3. q \in Requests /\ q.writes = {} /\ q.locks = req[r].locks /\ q.op = "delete"
        /\ q.at = "erase" /\ q.user = req[r].user
      BY <1>2, RequestParts DEF Requests
<1>4. req' = [req EXCEPT ![r] = q]
      BY DEF EndLinks, IInv, TypeOK
<1>5. req' \in [Req -> Requests] /\ req'[r] = q /\ \A s \in Req \ {r} : req'[s] = req[s]
      BY <1>3, <1>4 DEF IInv, TypeOK
<1>6. ASSUME NEW l \in Link
      PROVE  /\ link'[l] \in L /\ link'[l].by = link[l].by /\ link'[l].uses = link[l].uses
             /\ ~link[l].live => ~link'[l].live
             /\ LinkRow(l) \notin req[r].writes => link'[l] = link[l]
  <2>1. link[l] \in L
        BY DEF IInv, TypeOK
  <2>2. link'[l] = IF LinkRow(l) \notin req[r].writes THEN link[l]
                   ELSE [link[l] EXCEPT !.live = FALSE]
        BY <1>1, <1>2 DEF LinksWritten
  <2> QED BY <2>1, <2>2
<1>7. TypeOK'
  <2>1. link' \in [Link -> L]
        BY <1>1, <1>6 DEF LinksWritten
  <2> QED BY <1>1, <1>5, <2>1 DEF IInv, TypeOK
<1>8. Sound(req[r])'
  <2>1. Locked(req[r])
        BY RequestParts DEF Sound
  <2> QED BY <1>1, <1>2, <1>3, <1>5, <2>1
             DEF Sound, Phase, OwnRow, Locked, Second, OwnLink
<1>9. ASSUME NEW s \in Req \ {r} PROVE Sound(req[s])'
  <2>1. \A l \in Link : LinkRow(l) \in req[s].writes => LinkRow(l) \notin req[r].writes
        BY DEF IInv, Apart, Beside
  <2>2. \A l \in Link : LinkRow(l) \in req[s].writes /\ Live(l) => Live(l)'
        BY <1>6, <2>1 DEF Live
  <2> QED BY <1>1, <1>5, <2>2, Untouched
<1>10. Apart'
       BY <1>3, <1>5, ApartStays
<1>11. MembersExist' /\ Unmade'
       BY <1>1, <1>6 DEF IInv, MembersExist, Unmade
<1> QED BY <1>7, <1>8, <1>9, <1>10, <1>11 DEF IInv

LEMMA EraseStep ==
  ASSUME IInv, NEW r \in Req, Erase(r)
  PROVE  IInv'
<1> DEFINE u == req[r].user
<1>1. /\ account' = account \ {u} /\ role' = [role EXCEPT ![u] = "none"]
      /\ granted' = granted \ {u} /\ Ends(r) /\ link' = link
      BY DEF Erase
<1>2. req[r].at = "erase" /\ u \in User /\ BlockedBy(r) = {}
      BY RequestParts DEF Erase, MayGo, At, Running, Sound, Phase
<1>3. TypeOK'
      BY <1>1, <1>2, EndedRequest DEF IInv, TypeOK, Roles
<1>4. ASSUME NEW s \in Req \ {r} PROVE Sound(req[s])'
  <2>1. /\ MemberRow(u) \notin req[s].writes /\ MemberRow(u) \notin req[s].locks
        /\ GrantRow(u) \notin req[s].writes
        BY <1>2, Unblocked DEF WantsUnlocked
  <2>2. \A v \in User : MemberRow(v) \in req[s].writes \cup req[s].locks => role'[v] = role[v]
        BY <1>1, <1>2, <2>1 DEF IInv, TypeOK
  <2>3. \A v \in account \ account' :
            MemberRow(v) \notin req[s].writes /\ GrantRow(v) \notin req[s].writes
        BY <1>1, <2>1
  <2>4. \A l \in Link : LinkRow(l) \in req[s].writes /\ Live(l) => Live(l)'
        BY <1>1 DEF Live
  <2>5. req'[s] = req[s]
        BY <1>1, EndedRequest
  <2> QED BY <2>2, <2>3, <2>4, <2>5, Untouched
<1>5. MembersExist' /\ Unmade'
      BY <1>1, <1>2 DEF IInv, TypeOK, MembersExist, Unmade
<1> QED BY <1>1, <1>3, <1>4, <1>5, EndedRequest DEF IInv

LEMMA RegisterStep ==
  ASSUME IInv, NEW u \in User, Register(u)
  PROVE  IInv'
<1>1. UNCHANGED <<role, granted, link, req>> /\ account' = account \cup {u}
      BY DEF Register
<1>2. TypeOK'
      BY <1>1 DEF IInv, TypeOK
<1>3. ASSUME NEW s \in Req PROVE Sound(req[s])'
  <2>1. \A l \in Link : Live(l) => Live(l)'
        BY <1>1 DEF Live
  <2> QED BY <1>1, <2>1, Untouched
<1>4. Apart' /\ MembersExist' /\ Unmade'
      BY <1>1 DEF IInv, Apart, Beside, MembersExist, Unmade
<1> QED BY <1>2, <1>3, <1>4 DEF IInv

-----------------------------------------------------------------------------
(* Theorems *)

LEMMA InitIInv == Init => IInv
<1> SUFFICES ASSUME Init PROVE IInv
    OBVIOUS
<1>1. TypeOK
      BY IdleSound, UsesAssumption DEF Init, TypeOK, Roles
<1>2. \A r \in Req : Sound(req[r])
      BY IdleSound DEF Init
<1>3. Apart
      BY DEF Init, Apart, Beside, Idle
<1>4. MembersExist /\ Unmade
      BY DEF Init, MembersExist, Unmade
<1> QED BY <1>1, <1>2, <1>3, <1>4 DEF IInv

LEMMA StatementStep ==
  ASSUME IInv, NEW r \in Req, Statement(r)
  PROVE  IInv'
  BY AskStep, LockStep, CountStep, DropGrantsStep, UpdateStep, RevokeStep, RevokedStep,
     InsertMemberStep, ClaimStep, JoinGrantsStep, InsertGrantsStep, EnsureStep, MintStep,
     EndLinksStep, EraseStep
     DEF Statement

LEMMA NextIInv == IInv /\ [Next]_vars => IInv'
<1> SUFFICES ASSUME IInv, [Next]_vars PROVE IInv'
    OBVIOUS
<1>1. ASSUME NEW r \in Req, Fail(r) PROVE IInv'
      BY <1>1, EndStep DEF Fail
<1>2. CASE UNCHANGED vars
      BY <1>2 DEF vars, IInv, TypeOK, Sound, Phase, OwnRow, Locked, Second, OwnLink, Live, Apart,
                  Beside, MembersExist, Unmade
<1> QED BY <1>1, <1>2, StartStep, StatementStep, CommitStep, RevokeInviteStep, RegisterStep DEF Next

LEMMA Inductive == Spec => []IInv
  BY InitIInv, NextIInv, PTL DEF Spec

(* Types. *)
THEOREM TypeCorrect == Spec => []TypeOK
<1>1. IInv => TypeOK
      BY DEF IInv
<1> QED BY Inductive, <1>1, PTL

(* Who changes a role, and who changes a link.                             *)
LEMMA StartsWriteNothing ==
  ASSUME NEW r \in Req, Starts(r)
  PROVE  role' = role /\ link' = link
  BY DEF Starts, SetMemberRole, RemoveMember, SetMemberGrants, SetUserGrants, DeleteUser, JoinOrg,
         CreateInvite, Begins

LEMMA StatementsWrite ==
  ASSUME NEW r \in Req, Statement(r)
  PROVE  /\ role' = role \/ Erase(r)
         /\ link' = link \/ Mint(r) \/ EndLinks(r)
<1>1. CASE Mint(r) \/ EndLinks(r) \/ Erase(r)
      BY <1>1 DEF Mint, EndLinks, Erase
<1>2. CASE \/ AskOwners(r) \/ LockOwner(r) \/ CountOwners(r)
           \/ DropGrants(r) \/ UpdateMember(r) \/ RevokeMinted(r) \/ RevokedAll(r)
      BY <1>2 DEF AskOwners, LockOwner, CountOwners, DropGrants, UpdateMember, RevokeMinted,
                  RevokedAll
<1>3. CASE InsertMember(r) \/ Claim(r) \/ JoinGrants(r) \/ InsertGrants(r) \/ EnsureMember(r)
      BY <1>3 DEF InsertMember, Claim, JoinGrants, InsertGrants, EnsureMember
<1> QED BY <1>1, <1>2, <1>3 DEF Statement

LEMMA Writers ==
  ASSUME [Next]_vars
  PROVE  /\ role' = role \/ \E r \in Req : Commit(r) \/ Erase(r)
         /\ \/ link' = link
            \/ \E r \in Req : Commit(r) \/ Mint(r) \/ EndLinks(r)
            \/ \E l \in Link : RevokeInvite(l)
<1>1. ASSUME NEW r \in Req, Fail(r) PROVE role' = role /\ link' = link
      BY <1>1 DEF Fail
<1>2. ASSUME NEW l \in Link, RevokeInvite(l) PROVE role' = role
      BY <1>2 DEF RevokeInvite
<1>3. ASSUME NEW u \in User, Register(u) PROVE role' = role /\ link' = link
      BY <1>3 DEF Register
<1>4. CASE UNCHANGED vars
      BY <1>4 DEF vars
<1>5. CASE Next
      BY <1>1, <1>2, <1>3, <1>5, StartsWriteNothing, StatementsWrite DEF Next
<1> QED BY <1>4, <1>5

(* Requests that arrive together never take the last owners away, for any  *)
(* number of them: keepAnOwner counts an owner who cannot be taken away    *)
(* before the request it lets through has been committed.                  *)
LEMMA NoOwnerLess ==
  ASSUME IInv, [Next]_vars, Owners # {}, Owners' = {}
  PROVE  \/ account' # account
         \/ \E r \in Running : At(r, "commit") /\ MemberRow(req[r].user) \notin req[r].locks
<1>1. PICK u \in User : role[u] = "owner"
      BY DEF Owners
<1>2. role'[u] # "owner"
      BY DEF Owners
<1>3. CASE \E r \in Req : Commit(r)
  <2>1. PICK r \in Req : Commit(r)
        BY <1>3
  <2>2. u = req[r].user /\ MemberRow(u) \in req[r].writes
        BY <1>1, <1>2, <2>1, Written
  <2>3. req[r].at = "commit" /\ r \in Running
        BY <2>1 DEF Commit, At
  <2>4. req[r].op \in {"demote", "remove"}
    <3>1. role' = [role EXCEPT ![u] = RoleWritten(req[r])]
          BY <2>1, <2>2 DEF Commit
    <3>2. RoleWritten(req[r]) # "owner"
          BY <1>2, <3>1 DEF IInv, TypeOK
    <3>3. req[r].op \in Ops /\ req[r].op \notin {"none", "mint", "delete", "promote"}
          BY <2>1, <3>2, RequestParts, Written DEF RoleWritten
    <3>4. req[r].op \notin {"join", "setGrants", "setUserGrants"}
          BY <1>1, <2>2, RequestParts DEF Sound, OwnRow
    <3> QED BY <3>3, <3>4 DEF Ops
  <2>5. CASE MemberRow(u) \in req[r].locks
    <3>1. PICK v \in User \ {u} : role[v] = "owner"
          BY <1>1, <2>2, <2>3, <2>4, <2>5, RequestParts DEF Sound, Second
    <3>2. role'[v] = "owner"
          BY <2>1, <2>2, <3>1, Written
    <3> QED BY <3>1, <3>2 DEF Owners
  <2>6. CASE MemberRow(u) \notin req[r].locks
        BY <2>2, <2>3, <2>6 DEF At
  <2> QED BY <2>5, <2>6
<1>4. CASE \E r \in Req : Erase(r)
  <2>1. PICK r \in Req : Erase(r)
        BY <1>4
  <2>2. req[r].user = u
        BY <1>1, <1>2, <2>1 DEF Erase, IInv, TypeOK
  <2>3. u \in account
        BY <1>1 DEF IInv, MembersExist
  <2> QED BY <2>1, <2>2, <2>3 DEF Erase
<1>5. CASE role' = role
      BY <1>1, <1>2, <1>5
<1> QED BY <1>3, <1>4, <1>5, Writers

THEOREM OwnersStay == Spec => CountedOwnersStay
<1>1. IInv /\ [Next]_vars =>
        [Owners # {} /\ Owners' = {} =>
           \/ account' # account
           \/ \E r \in Running : At(r, "commit") /\ MemberRow(req[r].user) \notin req[r].locks]_vars
      BY NoOwnerLess
<1> QED BY Inductive, <1>1, PTL DEF Spec, CountedOwnersStay

(* A link counts one use at a time, and none past its number or after its  *)
(* revocation, however many race for it: the row of a link about to be     *)
(* used is its user's alone, and stays as the claim found it.              *)
LEMMA UsesCounted ==
  ASSUME IInv, [Next]_vars, NEW l \in Link, link'[l].uses # link[l].uses
  PROVE  Live(l) /\ link'[l].uses = link[l].uses + 1
<1>1. CASE \E r \in Req : Commit(r)
      BY <1>1, Written
<1>2. CASE \E r \in Req : Mint(r)
  <2>1. PICK r \in Req : Mint(r)
        BY <1>2
  <2>2. PICK given \in Given :
          link' = [link EXCEPT ![req[r].link] =
                     [by |-> req[r].user, role |-> given, uses |-> 0, live |-> TRUE]]
        BY <2>1 DEF Mint
  <2>3. link[req[r].link].by = NoUser
        BY <2>1 DEF Mint
  <2> QED BY <2>2, <2>3 DEF IInv, TypeOK, Unmade
<1>3. CASE \E r \in Req : EndLinks(r)
  <2>1. PICK r \in Req : EndLinks(r)
        BY <1>3
  <2>2. req[r].op = "delete"
        BY <2>1 DEF EndLinks
  <2>3. link'[l] = IF LinkRow(l) \notin req[r].writes THEN link[l]
                   ELSE [link[l] EXCEPT !.live = FALSE]
        BY <2>1, <2>2 DEF EndLinks, LinksWritten
  <2>4. link[l] \in [by : User \cup {NoUser}, role : Roles, uses : 0 .. MAX_USES, live : BOOLEAN]
        BY DEF IInv, TypeOK
  <2> QED BY <2>3, <2>4
<1>4. CASE \E k \in Link : RevokeInvite(k)
  <2>1. PICK k \in Link : link' = [link EXCEPT ![k].live = FALSE]
        BY <1>4 DEF RevokeInvite
  <2>2. link[l] \in [by : User \cup {NoUser}, role : Roles, uses : 0 .. MAX_USES, live : BOOLEAN]
        BY DEF IInv, TypeOK
  <2> QED BY <2>1, <2>2 DEF IInv, TypeOK
<1>5. CASE link' = link
      BY <1>5
<1> QED BY <1>1, <1>2, <1>3, <1>4, <1>5, Writers

THEOREM LinksHold == Spec => LinkHolds
<1>1. IInv /\ [Next]_vars =>
        [\A l \in Link : link'[l].uses # link[l].uses =>
           Live(l) /\ link'[l].uses = link[l].uses + 1]_vars
      BY UsesCounted
<1> QED BY Inductive, <1>1, PTL DEF Spec, LinkHolds
-----------------------------------------------------------------------------
(* Nobody waits in a circle *)

Chained == {"demote", "promote", "remove", "delete"}

(* What a request has at each of its statements: the owners it locked come *)
(* before those it has still to lock, it writes nothing until it is past   *)
(* them, and the links it ends are its person's.                           *)
Orderly(q) ==
    /\ \A w \in q.locks : \E u \in User : w = MemberRow(u)
    /\ q.op \notin {"demote", "remove"} \/ q.at = "owners" => q.locks = {}
    /\ q.at = "erase" => q.op = "delete"
    /\ q.op \in Chained /\ q.at \in {"owners", "lock", "grants", "erase"} => q.writes = {}
    /\ q.op = "promote" /\ q.at = "update" => q.writes = {}
    /\ q.op \in Chained => \A l \in Link : LinkRow(l) \in q.writes =>
            q.at \in {"revoke", "commit"} /\ link[l].by = q.user
    /\ q.at = "revoke" => \A l \in q.todo : link[l].by = q.user
    /\ q.at = "lock" => \A u \in User : MemberRow(u) \in q.locks => \A x \in q.todo : u < x

LocksApart == \A r, s \in Req : r # s => req[r].locks \cap req[s].locks = {}

CInv == IInv /\ (\A r \in Req : Orderly(req[r])) /\ LocksApart

(* A step by one request, which gives back locks or takes free ones.       *)
LEMMA OrderKept ==
  ASSUME CInv, NEW r \in Req, \A s \in Req \ {r} : req'[s] = req[s],
         \A l \in Link : link'[l].by = link[l].by \/ link[l].by = NoUser,
         Orderly(req[r])', \A s \in Req \ {r} : req'[r].locks \cap req[s].locks = {}
  PROVE  (\A s \in Req : Orderly(req[s])') /\ LocksApart'
<1>1. ASSUME NEW s \in Req \ {r} PROVE Orderly(req[s])'
  <2>1. Orderly(req[s]) /\ req'[s] = req[s]
        BY DEF CInv
  <2>2. /\ req[s].op \in Chained => req[s].user \in User /\ req[s].user # NoUser
        /\ req[s].at = "revoke" => req[s].op \in Chained /\ req[s].todo \subseteq Link
        BY RequestParts, UserAssumption DEF CInv, Sound, Phase, Chained
  <2> QED BY <2>1, <2>2 DEF Orderly
<1>2. LocksApart'
      BY DEF CInv, LocksApart
<1> QED BY <1>1, <1>2

(* Where no link changes hands, in terms of what the request becomes.      *)
LEMMA OrderlyStep ==
  ASSUME CInv, NEW r \in Req, NEW q, Orderly(q), link' = link,
         req' = [req EXCEPT ![r] = q], \A s \in Req \ {r} : q.locks \cap req[s].locks = {}
  PROVE  (\A s \in Req : Orderly(req[s])') /\ LocksApart'
<1>1. req'[r] = q /\ \A s \in Req \ {r} : req'[s] = req[s]
      BY DEF CInv, IInv, TypeOK
<1>2. Orderly(req[r])'
      BY <1>1 DEF Orderly
<1> QED BY <1>1, <1>2, OrderKept

LEMMA MovingStep ==
  ASSUME CInv, NEW r \in Req, NEW q, Orderly(q), link' = link,
         req' = [req EXCEPT ![r] = q], q.locks \subseteq req[r].locks
  PROVE  (\A s \in Req : Orderly(req[s])') /\ LocksApart'
<1>1. \A s \in Req \ {r} : q.locks \cap req[s].locks = {}
      BY DEF CInv, LocksApart
<1> QED BY <1>1, OrderlyStep

LEMMA EndingStep ==
  ASSUME CInv, NEW r \in Req, Ends(r),
         \A l \in Link : link'[l].by = link[l].by \/ link[l].by = NoUser
  PROVE  (\A s \in Req : Orderly(req[s])') /\ LocksApart'
<1>1. req'[r] = Idle /\ \A s \in Req \ {r} : req'[s] = req[s]
      BY EndedRequest DEF CInv
<1>2. Idle.locks = {}
      BY DEF Idle
<1>3. Orderly(req[r])'
      BY <1>1 DEF Idle, Orderly, Chained
<1> QED BY <1>1, <1>2, <1>3, OrderKept

LEMMA StartsOrderly ==
  ASSUME CInv, NEW r \in Req, Starts(r)
  PROVE  (\A s \in Req : Orderly(req[s])') /\ LocksApart'
<1>1. ASSUME NEW op, NEW at, NEW u, NEW l, NEW todo, Begins(r, op, at, u, l, todo),
             at \in {"owners", "update", "insertMember", "grants", "mint", "revoke"},
             at = "revoke" => \A k \in todo : link[k].by = u
      PROVE  (\A s \in Req : Orderly(req[s])') /\ LocksApart'
  <2> DEFINE q == [op |-> op, at |-> at, user |-> u, link |-> l, todo |-> todo,
                   locks |-> {}, writes |-> {}, adds |-> FALSE]
  <2>1. Orderly(q)
        BY <1>1 DEF Orderly
  <2>2. link' = link /\ req' = [req EXCEPT ![r] = q] /\ q.locks \subseteq req[r].locks
        BY <1>1 DEF Begins
  <2> HIDE DEF q
  <2> QED BY <2>1, <2>2, MovingStep
<1>2. PICK u \in User :
        \/ SetMemberRole(r, u) \/ RemoveMember(r, u) \/ SetMemberGrants(r, u)
        \/ SetUserGrants(r, u) \/ DeleteUser(r, u)
        \/ \E l \in Link : JoinOrg(r, u, l) \/ CreateInvite(r, u, l)
      BY DEF Starts
<1>3. \A k \in MadeBy(u) : link[k].by = u
      BY DEF MadeBy
<1> QED BY <1>1, <1>2, <1>3
        DEF SetMemberRole, RemoveMember, SetMemberGrants, SetUserGrants, DeleteUser, JoinOrg,
            CreateInvite

(* keepAnOwner's rows, one after another, in the order of their ids.       *)
LEMMA KeepersOrderly ==
  ASSUME CInv, NEW r \in Req, AskOwners(r) \/ LockOwner(r) \/ CountOwners(r)
  PROVE  (\A s \in Req : Orderly(req[s])') /\ LocksApart'
<1>t. IInv /\ Orderly(req[r]) /\ req[r] \in Requests /\ Phase(req[r])
      BY RequestParts DEF CInv, Sound
<1>1. CASE AskOwners(r)
  <2> DEFINE q == [req[r] EXCEPT !.at = "lock", !.todo = Owners]
  <2>1. Orderly(q)
        BY <1>t, <1>1 DEF Orderly, Phase, AskOwners, At, Running, Requests, Chained
  <2>2. req' = [req EXCEPT ![r] = q] /\ link' = link /\ q.locks \subseteq req[r].locks
        BY <1>t, <1>1 DEF AskOwners, IInv, TypeOK, Requests
  <2> HIDE DEF q
  <2> QED BY <2>1, <2>2, MovingStep
<1>2. CASE LockOwner(r)
  <2>1. PICK u \in NextOwner(req[r]) :
          req' = [req EXCEPT ![r].todo = @ \ {u},
                             ![r].locks = IF role[u] = "none" THEN @ ELSE @ \cup {MemberRow(u)}]
        BY <1>2 DEF LockOwner
  <2> DEFINE locks == IF role[u] = "none" THEN req[r].locks ELSE req[r].locks \cup {MemberRow(u)}
             q == [req[r] EXCEPT !.todo = @ \ {u}, !.locks = locks]
  <2>2. /\ u \in req[r].todo /\ u \in User /\ req[r].todo \subseteq User /\ BlockedBy(r) = {}
        /\ \A x \in req[r].todo : u <= x
        /\ req[r].at = "lock" /\ req[r].op \in {"demote", "remove"} /\ User \subseteq Nat
        BY <1>t, <1>2, UserAssumption DEF NextOwner, LockOwner, MayGo, At, Phase
  <2>3. /\ q.op = req[r].op /\ q.at = "lock" /\ q.user = req[r].user /\ q.writes = req[r].writes
        /\ q.locks = locks /\ q.todo = req[r].todo \ {u}
        BY <1>t, <2>2 DEF Requests
  <2>4. \A w \in locks : w \in req[r].locks \/ w = MemberRow(u)
        OBVIOUS
  <2>5. Orderly(q)
    <3>1. \A w \in q.locks : \E v \in User : w = MemberRow(v)
          BY <1>t, <2>2, <2>3, <2>4 DEF Orderly
    <3>2. \A v \in User : MemberRow(v) \in q.locks => \A x \in q.todo : v < x
      <4>1. \A x \in q.todo : u < x
            BY <2>2, <2>3
      <4> QED BY <1>t, <2>2, <2>3, <2>4, <4>1, RowsApart DEF Orderly
    <3>3. q.writes = {}
          BY <1>t, <2>2, <2>3 DEF Orderly, Chained
    <3> HIDE DEF q, locks
    <3> QED BY <2>2, <2>3, <3>1, <3>2, <3>3 DEF Orderly
  <2>6. \A s \in Req \ {r} : MemberRow(u) \notin req[s].locks
    <3>1. NextOwner(req[r]) = {u}
          BY <2>2 DEF NextOwner
    <3>2. MemberRow(u) \in WantsUnlocked(req[r])
          BY <2>2, <3>1 DEF WantsUnlocked
    <3> QED BY <1>t, <2>2, <3>2, Unblocked
  <2>7. \A s \in Req \ {r} : q.locks \cap req[s].locks = {}
    <3> HIDE DEF q, locks
    <3> QED BY <2>3, <2>4, <2>6 DEF CInv, LocksApart
  <2>8. req' = [req EXCEPT ![r] = q] /\ link' = link
    <3>1. link' = link
          BY <1>2 DEF LockOwner
    <3> QED BY <1>t, <2>1, <3>1 DEF IInv, TypeOK
  <2> HIDE DEF q, locks
  <2> QED BY <2>5, <2>7, <2>8, OrderlyStep
<1>3. CASE CountOwners(r) /\ LastOne(req[r])
      BY <1>3, EndingStep DEF CountOwners
<1>4. CASE CountOwners(r) /\ ~LastOne(req[r])
  <2> DEFINE q == [req[r] EXCEPT !.at = IF req[r].op = "remove" THEN "grants" ELSE "update"]
  <2>1. Orderly(q)
        BY <1>t, <1>4 DEF Orderly, Phase, CountOwners, At, Running, Requests, Chained
  <2>2. req' = [req EXCEPT ![r] = q] /\ link' = link /\ q.locks \subseteq req[r].locks
        BY <1>t, <1>4 DEF CountOwners, Moves, IInv, TypeOK, Requests
  <2> HIDE DEF q
  <2> QED BY <2>1, <2>2, MovingStep
<1> QED BY <1>1, <1>2, <1>3, <1>4

(* Statements that write: their own person's rows, and links of theirs.    *)
LEMMA WritingOrderly ==
  ASSUME CInv, NEW r \in Req, DropGrants(r) \/ UpdateMember(r) \/ RevokeMinted(r) \/ RevokedAll(r)
  PROVE  (\A s \in Req : Orderly(req[s])') /\ LocksApart'
<1>t. IInv /\ Orderly(req[r]) /\ req[r] \in Requests /\ Phase(req[r])
      BY RequestParts DEF CInv, Sound
<1>1. CASE DropGrants(r)
  <2> DEFINE next == IF req[r].op = "remove" THEN "update" ELSE "insert"
             writes == IF req[r].user \in granted THEN req[r].writes \cup {GrantRow(req[r].user)}
                       ELSE req[r].writes
             q == [req[r] EXCEPT !.at = next, !.writes = writes]
  <2>1. req[r].at = "grants" /\ req[r].op \in {"remove", "setGrants", "setUserGrants"}
        BY <1>t, <1>1 DEF DropGrants, MayGo, At, Phase
  <2>2. \A l \in Link : LinkRow(l) \in writes => LinkRow(l) \in req[r].writes
        BY RowsApart
  <2>3. req' = [req EXCEPT ![r] = q] /\ link' = link
        BY <1>t, <1>1 DEF DropGrants, Writes, Moves, IInv, TypeOK, Requests
  <2>4. /\ q.op = req[r].op /\ q.at = next /\ q.user = req[r].user /\ q.locks = req[r].locks
        /\ q.todo = req[r].todo /\ q.writes = writes
        BY <1>t DEF Requests
  <2> HIDE DEF q, writes
  <2>5. Orderly(q)
        BY <1>t, <2>1, <2>2, <2>4 DEF Orderly, Chained
  <2> QED BY <2>3, <2>4, <2>5, MovingStep
<1>2. CASE UpdateMember(r)
  <2> DEFINE next == IF req[r].op = "promote" THEN "commit" ELSE "revoke"
             todo == IF req[r].op = "promote" THEN {} ELSE MadeBy(req[r].user)
             writes == IF role[req[r].user] = "none" THEN req[r].writes
                       ELSE req[r].writes \cup {MemberRow(req[r].user)}
             q == [req[r] EXCEPT !.at = next, !.todo = todo, !.writes = writes]
  <2>1. req[r].at = "update" /\ req[r].op \in {"demote", "promote", "remove"}
        BY <1>t, <1>2 DEF UpdateMember, MayGo, At, Phase
  <2>2. /\ \A l \in Link : LinkRow(l) \in writes => LinkRow(l) \in req[r].writes
        /\ \A l \in todo : link[l].by = req[r].user
        BY RowsApart DEF MadeBy
  <2>3. req' = [req EXCEPT ![r] = q] /\ link' = link
        BY <1>t, <1>2 DEF UpdateMember, IInv, TypeOK, Requests
  <2>4. /\ q.op = req[r].op /\ q.at = next /\ q.user = req[r].user /\ q.locks = req[r].locks
        /\ q.todo = todo /\ q.writes = writes
        BY <1>t DEF Requests
  <2> HIDE DEF q, writes, todo
  <2>5. Orderly(q)
        BY <1>t, <2>1, <2>2, <2>4 DEF Orderly, Chained
  <2> QED BY <2>3, <2>4, <2>5, MovingStep
<1>3. CASE RevokeMinted(r)
  <2>1. PICK l \in req[r].todo :
          req' = [req EXCEPT ![r].todo = @ \ {l}, ![r].writes = @ \cup {LinkRow(l)}]
        BY <1>3 DEF RevokeMinted
  <2> DEFINE writes == req[r].writes \cup {LinkRow(l)}
             todo == req[r].todo \ {l}
             q == [req[r] EXCEPT !.todo = todo, !.writes = writes]
  <2>2. req[r].at = "revoke" /\ req[r].op \in {"demote", "remove", "delete"} /\ link[l].by = req[r].user
        BY <1>t, <1>3 DEF RevokeMinted, At, Phase, Orderly
  <2>3. \A k \in Link : LinkRow(k) \in writes => k = l \/ LinkRow(k) \in req[r].writes
        BY RowsApart
  <2>4. req' = [req EXCEPT ![r] = q] /\ link' = link
    <3>1. link' = link
          BY <1>3 DEF RevokeMinted
    <3> QED BY <1>t, <2>1, <3>1 DEF IInv, TypeOK, Requests
  <2>5. /\ q.op = req[r].op /\ q.at = "revoke" /\ q.user = req[r].user /\ q.locks = req[r].locks
        /\ q.todo = todo /\ q.writes = writes /\ todo \subseteq req[r].todo
        BY <1>t, <2>2 DEF Requests
  <2> HIDE DEF q, writes, todo
  <2>6. Orderly(q)
        BY <1>t, <2>2, <2>3, <2>5 DEF Orderly, Chained
  <2> QED BY <2>4, <2>5, <2>6, MovingStep
<1>4. CASE RevokedAll(r)
  <2> DEFINE q == [req[r] EXCEPT !.at = "commit"]
  <2>1. req[r].at = "revoke" /\ req[r].op \in {"demote", "remove", "delete"}
        BY <1>t, <1>4 DEF RevokedAll, At, Phase
  <2>2. req' = [req EXCEPT ![r] = q] /\ link' = link
        BY <1>t, <1>4 DEF RevokedAll, Moves, IInv, TypeOK, Requests
  <2>3. /\ q.op = req[r].op /\ q.at = "commit" /\ q.user = req[r].user /\ q.locks = req[r].locks
        /\ q.todo = req[r].todo /\ q.writes = req[r].writes
        BY <1>t DEF Requests
  <2> HIDE DEF q
  <2>4. Orderly(q)
        BY <1>t, <2>1, <2>3 DEF Orderly, Chained
  <2> QED BY <2>2, <2>3, <2>4, MovingStep
<1> QED BY <1>1, <1>2, <1>3, <1>4

(* Requests that lock nothing.                                             *)
LEMMA JoiningOrderly ==
  ASSUME CInv, NEW r \in Req,
         InsertMember(r) \/ Claim(r) \/ JoinGrants(r) \/ InsertGrants(r) \/ EnsureMember(r)
  PROVE  (\A s \in Req : Orderly(req[s])') /\ LocksApart'
<1>t. IInv /\ Orderly(req[r]) /\ req[r] \in Requests /\ Phase(req[r])
      BY RequestParts DEF CInv, Sound
<1>1. link' = link
      BY DEF InsertMember, Claim, JoinGrants, InsertGrants, EnsureMember
<1>2. req[r].op \in {"join", "setGrants", "setUserGrants"}
      BY <1>t DEF Phase, InsertMember, Claim, JoinGrants, InsertGrants, EnsureMember, MayGo, At
<1>3. \/ Ends(r)
      \/ \E row : \E at \in {"claim", "joinGrants", "commit", "ensure"} : Writes(r, row, at)
      \/ Moves(r, "commit")
      \/ \E row : \E at \in {"commit", "ensure"} :
            req' = [req EXCEPT ![r].at = at, ![r].adds = TRUE, ![r].writes = @ \cup {row}]
      BY DEF InsertMember, Claim, JoinGrants, InsertGrants, EnsureMember
<1>4. CASE Ends(r)
      BY <1>1, <1>4, EndingStep
<1>5. CASE ~Ends(r)
  <2>1. /\ \A s \in Req \ {r} : req'[s] = req[s]
        /\ req'[r].op = req[r].op /\ req'[r].locks = req[r].locks
        /\ req'[r].at \in {"claim", "joinGrants", "commit", "ensure"}
    <3>1. req \in [Req -> Requests]
          BY <1>t DEF IInv, TypeOK
    <3>6. PICK row : \E at \in {"claim", "joinGrants", "commit", "ensure"} :
            \/ Writes(r, row, at) \/ Moves(r, at)
            \/ req' = [req EXCEPT ![r].at = at, ![r].adds = TRUE, ![r].writes = @ \cup {row}]
          BY <1>3, <1>5
    <3>2. PICK at \in {"claim", "joinGrants", "commit", "ensure"} :
            \/ Writes(r, row, at) \/ Moves(r, at)
            \/ req' = [req EXCEPT ![r].at = at, ![r].adds = TRUE, ![r].writes = @ \cup {row}]
          BY <3>6
    <3>3. CASE Writes(r, row, at)
          BY <1>t, <3>1, <3>3 DEF Writes, Requests
    <3>4. CASE Moves(r, at)
          BY <1>t, <3>1, <3>4 DEF Moves, Requests
    <3>5. CASE req' = [req EXCEPT ![r].at = at, ![r].adds = TRUE, ![r].writes = @ \cup {row}]
          BY <1>t, <3>1, <3>5 DEF Requests
    <3> QED BY <3>2, <3>3, <3>4, <3>5
  <2>2. Orderly(req[r])'
        BY <1>t, <1>2, <2>1 DEF Orderly, Chained
  <2>3. \A s \in Req \ {r} : req'[r].locks \cap req[s].locks = {}
        BY <2>1 DEF CInv, LocksApart
  <2> QED BY <1>1, <2>1, <2>2, <2>3, OrderKept
<1> QED BY <1>4, <1>5

LEMMA OthersOrderly ==
  ASSUME CInv, NEW r \in Req, Mint(r) \/ EndLinks(r) \/ Erase(r) \/ Commit(r) \/ Fail(r)
  PROVE  (\A s \in Req : Orderly(req[s])') /\ LocksApart'
<1>t. IInv /\ Orderly(req[r]) /\ req[r] \in Requests /\ Phase(req[r])
      BY RequestParts DEF CInv, Sound
<1>1. CASE Mint(r)
  <2>1. \A l \in Link : link'[l].by = link[l].by \/ link[l].by = NoUser
        BY <1>t, <1>1 DEF Mint, IInv, TypeOK
  <2> QED BY <1>1, <2>1, EndingStep DEF Mint
<1>2. CASE EndLinks(r)
  <2> DEFINE q == [req[r] EXCEPT !.at = "erase", !.writes = {}]
  <2>1. req[r].op = "delete" /\ req' = [req EXCEPT ![r] = q] /\ link' = LinksWritten(req[r])
        BY <1>t, <1>2 DEF EndLinks, IInv, TypeOK
  <2>2. \A l \in Link : link'[l].by = link[l].by
    <3>1. TAKE l \in Link
    <3>2. link[l] \in [by : User \cup {NoUser}, role : Roles, uses : 0 .. MAX_USES, live : BOOLEAN]
          BY <1>t DEF IInv, TypeOK
    <3>3. link'[l] = link[l] \/ link'[l] = [link[l] EXCEPT !.live = FALSE]
          BY <2>1 DEF LinksWritten
    <3> QED BY <3>2, <3>3
  <2>3. /\ q.op = "delete" /\ q.at = "erase" /\ q.user = req[r].user /\ q.locks = req[r].locks
        /\ q.writes = {}
        BY <1>t, <2>1 DEF Requests
  <2>4. req'[r] = q /\ \A s \in Req \ {r} : req'[s] = req[s]
        BY <1>t, <2>1 DEF IInv, TypeOK
  <2> HIDE DEF q
  <2>5. Orderly(req[r])'
        BY <1>t, <2>1, <2>3, <2>4 DEF Orderly, Chained
  <2>6. \A s \in Req \ {r} : req'[r].locks \cap req[s].locks = {}
        BY <2>3, <2>4 DEF CInv, LocksApart
  <2> QED BY <2>2, <2>4, <2>5, <2>6, OrderKept
<1>3. CASE Erase(r) \/ Fail(r)
      BY <1>3, EndingStep DEF Erase, Fail
<1>4. CASE Commit(r)
  <2>1. \A l \in Link : link'[l].by = link[l].by
        BY <1>t, <1>4, Written
  <2> QED BY <1>4, <2>1, EndingStep DEF Commit
<1> QED BY <1>1, <1>2, <1>3, <1>4

LEMMA CircleInductive == Spec => []CInv
<1>1. Init => CInv
  <2> SUFFICES ASSUME Init PROVE CInv
      OBVIOUS
  <2>1. \A r \in Req : req[r] = Idle
        BY DEF Init
  <2>2. Orderly(Idle)
        BY DEF Idle, Orderly, Chained
  <2>3. LocksApart
        BY <2>1 DEF Idle, LocksApart
  <2> QED BY <2>1, <2>2, <2>3, InitIInv DEF CInv
<1>2. CInv /\ [Next]_vars => CInv'
  <2> SUFFICES ASSUME CInv, [Next]_vars PROVE CInv'
      OBVIOUS
  <2> DEFINE Kept == (\A s \in Req : Orderly(req[s])') /\ LocksApart'
  <2>1. ASSUME NEW r \in Req, Starts(r) PROVE Kept
        BY <2>1, StartsOrderly
  <2>2. ASSUME NEW r \in Req, Statement(r) PROVE Kept
        BY <2>2, KeepersOrderly, WritingOrderly, JoiningOrderly, OthersOrderly DEF Statement
  <2>3. ASSUME NEW r \in Req, Commit(r) \/ Fail(r) PROVE Kept
        BY <2>3, OthersOrderly
  <2>4. ASSUME req' = req, \A l \in Link : link'[l].by = link[l].by PROVE Kept
    <3>1. ASSUME NEW s \in Req PROVE Orderly(req[s])'
      <4>1. Orderly(req[s]) /\ Phase(req[s])
            BY RequestParts DEF CInv, Sound
      <4>2. req[s].at = "revoke" => req[s].todo \subseteq Link
            BY <4>1 DEF Phase
      <4> QED BY <2>4, <4>1, <4>2 DEF Orderly
    <3>2. LocksApart'
          BY <2>4 DEF CInv, LocksApart
    <3> QED BY <3>1, <3>2
  <2>5. ASSUME NEW l \in Link, RevokeInvite(l)
        PROVE  req' = req /\ \A k \in Link : link'[k].by = link[k].by
        BY <2>5 DEF RevokeInvite, CInv, IInv, TypeOK
  <2>6. ASSUME NEW u \in User, Register(u) PROVE req' = req /\ link' = link
        BY <2>6 DEF Register
  <2>7. UNCHANGED vars => req' = req /\ link' = link
        BY DEF vars
  <2>8. Kept
    <3> HIDE DEF Kept
    <3>1. CASE UNCHANGED vars
          BY <2>4, <2>7, <3>1
    <3>2. CASE \E r \in Req : Starts(r) \/ Statement(r) \/ Commit(r) \/ Fail(r)
          BY <2>1, <2>2, <2>3, <3>2
    <3>3. CASE \E l \in Link : RevokeInvite(l)
          BY <2>4, <2>5, <3>3
    <3>4. CASE \E u \in User : Register(u)
          BY <2>4, <2>6, <3>4
    <3> QED BY <3>1, <3>2, <3>3, <3>4 DEF Next
  <2> QED BY <2>8, NextIInv DEF CInv
<1> QED BY <1>1, <1>2, PTL DEF Spec

(* Of those that change or end a membership, only a request still locking  *)
(* the owners can hold up another: all the others' own rows are free.      *)
LEMMA HeldByKeepers ==
  ASSUME CInv, NEW S \in SUBSET Running, OneEnds(S),
         \A r \in S : req[r].op \in Chained /\ ~Late(req[r]) /\ BlockedBy(r) \cap S # {},
         NEW r \in S
  PROVE  \E s \in S \ {r} : /\ s \in BlockedBy(r) /\ req[s].at = "lock" /\ req[s].writes = {}
                            /\ req[s].op \in {"demote", "remove"}
<1>1. ASSUME NEW s \in S
      PROVE  /\ s \in Req /\ Orderly(req[s]) /\ Phase(req[s]) /\ req[s] \in Requests
             /\ BlockedBy(s) # {} /\ req[s].op \in Chained /\ req[s].user \in User
             /\ WantsUnwritten(req[s]) \cup WantsUnlocked(req[s]) # {}
             /\ req[s].at \in {"lock", "grants", "update", "revoke", "erase"}
  <2>1. s \in Req /\ Orderly(req[s]) /\ Phase(req[s]) /\ req[s] \in Requests /\ req[s].user \in User
        BY <1>1, RequestParts DEF CInv, Running, Sound, Phase
  <2>2. WantsUnwritten(req[s]) \cup WantsUnlocked(req[s]) # {}
        BY <1>1 DEF BlockedBy
  <2>3. req[s].at \in {"lock", "grants", "update", "revoke", "erase", "insertMember", "ensure",
                       "insert", "joinGrants", "claim"}
        BY <2>2 DEF WantsUnwritten, WantsUnlocked
  <2> QED BY <1>1, <2>1, <2>2, <2>3 DEF Phase, Chained
<1>2. ASSUME NEW s \in S PROVE req[s].at # "revoke"
  <2> SUFFICES ASSUME req[s].at = "revoke" PROVE FALSE
      OBVIOUS
  <2>1. PICK t \in S \ {s} : t \in BlockedBy(s)
        BY <1>1 DEF BlockedBy
  <2>2. WantsUnwritten(req[s]) = {LinkRow(l) : l \in req[s].todo} /\ WantsUnlocked(req[s]) = {}
        BY DEF WantsUnwritten, WantsUnlocked
  <2>3. PICK l \in req[s].todo : LinkRow(l) \in req[t].writes
        BY <2>1, <2>2 DEF BlockedBy
  <2>4. l \in Link /\ link[l].by = req[s].user
        BY <1>1 DEF Phase, Orderly
  <2>5. req[t].at \in {"revoke", "commit"} /\ link[l].by = req[t].user
        BY <1>1, <2>1, <2>3, <2>4 DEF Orderly
  <2> QED BY <1>1, <2>1, <2>4, <2>5 DEF OneEnds
<1>3. ASSUME NEW s \in S PROVE req[s].at = "update" => req[s].op = "promote"
  <2> SUFFICES ASSUME req[s].at = "update", req[s].op # "promote" PROVE FALSE
      OBVIOUS
  <2>1. MemberRow(req[s].user) \in req[s].locks
        BY DEF Late
  <2>2. PICK t \in S \ {s} : t \in BlockedBy(s)
        BY <1>1 DEF BlockedBy
  <2>3. WantsUnwritten(req[s]) = {} /\ WantsUnlocked(req[s]) \subseteq {MemberRow(req[s].user)}
        BY DEF WantsUnwritten, WantsUnlocked
  <2>4. MemberRow(req[s].user) \in req[t].writes \cup req[t].locks
        BY <2>2, <2>3 DEF BlockedBy
  <2> QED BY <1>1, <2>1, <2>2, <2>4 DEF CInv, LocksApart, IInv, Apart, Beside
<1>4. ASSUME NEW s \in S
      PROVE  /\ req[s].writes = {}
             /\ req[s].locks = {} \/ (req[s].op \in {"demote", "remove"} /\ req[s].at \in {"lock", "grants"})
      BY <1>1, <1>2, <1>3 DEF Orderly
<1>5. ASSUME NEW s \in S PROVE req[s].at # "grants"
  <2> SUFFICES ASSUME req[s].at = "grants" PROVE FALSE
      OBVIOUS
  <2>1. PICK t \in S \ {s} : t \in BlockedBy(s)
        BY <1>1 DEF BlockedBy
  <2>2. WantsUnlocked(req[s]) = {}
        BY DEF WantsUnlocked
  <2> QED BY <1>4, <2>1, <2>2 DEF BlockedBy
<1>6. PICK s \in S \ {r} : s \in BlockedBy(r)
      BY DEF BlockedBy
<1>7. req[s].locks # {}
      BY <1>4, <1>6 DEF BlockedBy
<1> QED BY <1>4, <1>5, <1>6, <1>7

(* orgs.ts, keepAnOwner ("orderBy(orgMembers.userId)"): however many       *)
(* requests change roles, take memberships away or delete accounts, they   *)
(* never wait for one another in a circle.  Whoever holds up such a        *)
(* request waits for an owner further on; and the owners are finitely many.*)
THEOREM NeverInACircle == Spec => []NoCircle
<1>1. CInv => NoCircle
  <2> SUFFICES ASSUME CInv, NEW S \in SUBSET Running, S # {}, OneEnds(S),
                      \A r \in S : req[r].op \in Chained /\ ~Late(req[r]) /\ BlockedBy(r) \cap S # {}
               PROVE  FALSE
      BY DEF NoCircle, Chained
  <2> DEFINE Keepers == {r \in S : req[r].at = "lock"}
             After(u) == {x \in User : u < x}
             T == {After(u) : u \in UNION {NextOwner(req[r]) : r \in Keepers}}
             R == StrictSubsetOrdering(User)
  <2>1. ASSUME NEW r \in Keepers
        PROVE  \E u, v \in User : \E s \in Keepers :
                  NextOwner(req[r]) = {u} /\ NextOwner(req[s]) = {v} /\ u < v
    <3>1. PICK s \in S \ {r} : s \in BlockedBy(r) /\ req[s].at = "lock" /\ req[s].writes = {}
          BY <2>1, HeldByKeepers, ZenonT(60)
    <3>2. ASSUME NEW q \in Keepers
          PROVE  q \in Req /\ Orderly(req[q]) /\ req[q].todo \subseteq User
          BY <3>2, RequestParts DEF CInv, Running, Sound, Phase
    <3>3. ASSUME NEW q \in Keepers PROVE \E u \in User : NextOwner(req[q]) = {u} /\ u \in req[q].todo
      <4>1. NextOwner(req[q]) # {}
        <5>1. WantsUnwritten(req[q]) = {} /\ WantsUnlocked(req[q]) = {MemberRow(x) : x \in NextOwner(req[q])}
              BY <3>3 DEF WantsUnwritten, WantsUnlocked
        <5> QED BY <3>3, <5>1 DEF BlockedBy
      <4>2. PICK u \in NextOwner(req[q]) : TRUE
            BY <4>1
      <4>3. ASSUME NEW x \in NextOwner(req[q]) PROVE x = u
        <5>1. x \in Nat /\ u \in Nat
              BY <3>2, <3>3, <4>2, UserAssumption DEF NextOwner
        <5>2. x <= u /\ u <= x
              BY <4>2 DEF NextOwner
        <5> QED BY <5>1, <5>2
      <4> QED BY <3>2, <3>3, <4>2, <4>3 DEF NextOwner
    <3>4. PICK u \in User : NextOwner(req[r]) = {u}
          BY <2>1, <3>3
    <3>5. PICK v \in User : NextOwner(req[s]) = {v} /\ v \in req[s].todo
          BY <3>1, <3>3
    <3>6. MemberRow(u) \in req[s].locks
      <4>1. WantsUnwritten(req[r]) = {} /\ WantsUnlocked(req[r]) = {MemberRow(u)}
            BY <2>1, <3>4 DEF WantsUnwritten, WantsUnlocked
      <4> QED BY <3>1, <4>1 DEF BlockedBy
    <3>7. u < v
          BY <3>1, <3>2, <3>5, <3>6 DEF Orderly
    <3> QED BY <3>1, <3>4, <3>5, <3>7
  <2>2. Keepers # {}
        BY HeldByKeepers
  <2>3. IsWellFoundedOn(R, SUBSET User)
        BY UserAssumption, FS_StrictSubsetOrderingWellFounded, FS_FiniteSubsetsOfFinite
  <2>4. T \subseteq SUBSET User /\ T # {}
    <3>1. PICK r \in Keepers : TRUE
          BY <2>2
    <3>2. PICK u \in User : NextOwner(req[r]) = {u}
          BY <2>1
    <3>3. After(u) \in T
          BY <3>2
    <3>4. \A y \in UNION {NextOwner(req[q]) : q \in Keepers} : After(y) \in SUBSET User
          OBVIOUS
    <3> QED BY <3>3, <3>4
  <2>5. PICK m \in T : \A y \in T : <<y, m>> \notin R
    <3> HIDE DEF T, R
    <3> QED BY <2>3, <2>4, WFMin
  <2>6. PICK r \in Keepers : \E w \in NextOwner(req[r]) : m = After(w)
        BY <2>5
  <2>7. PICK u \in User, v \in User, s \in Keepers :
          NextOwner(req[r]) = {u} /\ NextOwner(req[s]) = {v} /\ u < v
        BY <2>1, <2>6
  <2>8. m = After(u) /\ After(v) \in T
        BY <2>6, <2>7
  <2>9. After(v) \subseteq After(u) /\ v \in After(u) /\ v \notin After(v)
    <3>1. u \in Nat /\ v \in Nat /\ \A x \in User : x \in Nat
          BY UserAssumption
    <3>2. \A x \in User : v < x => u < x
          BY <2>7, <3>1
    <3>3. ~(v < v)
          BY <3>1
    <3> QED BY <2>7, <3>2, <3>3
  <2>10. <<After(v), m>> \in R
         BY <2>8, <2>9 DEF StrictSubsetOrdering
  <2> QED BY <2>5, <2>8, <2>10
<1> QED BY <1>1, CircleInductive, PTL
=============================================================================
