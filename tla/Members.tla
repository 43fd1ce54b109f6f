------------------------------ MODULE Members ------------------------------
(***************************************************************************)
(* Who belongs to an organisation: members, owners, grants on its servers  *)
(* and invite links.  src/lib/server/orgs.ts, with what users.ts and       *)
(* erasure.ts do to the same rows.                                         *)
(*                                                                         *)
(* Requests of any web process run side by side.  A transaction is READ    *)
(* COMMITTED: each statement sees what is committed when it begins, waits  *)
(* for the rows another transaction holds, and looks at them again; what   *)
(* it wrote is seen at its commit.  So a step is a statement: it waits for *)
(* its rows, holds them, and Commit applies them all.                      *)
(*                                                                         *)
(* One organisation with one server.  What a request checks before its     *)
(* transaction begins is its first step.  Sign-in, who may ask for what    *)
(* and the audit rows are left out; API keys and webhooks end where links  *)
(* end.                                                                    *)
(***************************************************************************)
EXTENDS Naturals, FiniteSets

CONSTANTS
    User, NoUser,  \* accounts, ordered as ORDER BY user_id has them; who made no link
    Link, NoLink,  \* invite links that may be made
    Req,           \* requests under way at once
    MAX_USES,      \* a link's max_uses
    Given          \* what links are made to give: "member", "owner"

ASSUME UserAssumption == User \subseteq Nat /\ IsFiniteSet(User) /\ NoUser \notin User
ASSUME LinkAssumption == NoLink \notin Link
ASSUME UsesAssumption == MAX_USES \in Nat \ {0}
ASSUME GivenAssumption == Given \subseteq {"member", "owner"}

VARIABLES
    account,   \* the users that exist
    role,      \* org_members: each user's role
    granted,   \* server_grants: who has a role on the server
    link,      \* org_invites
    req        \* the requests, and the rows their transactions hold

vars == <<account, role, granted, link, req>>

MemberRow(u) == [row |-> "member", of |-> u]
GrantRow(u) == [row |-> "grant", of |-> u]
LinkRow(l) == [row |-> "link", of |-> l]
Rows == {MemberRow(u) : u \in User} \cup {GrantRow(u) : u \in User}
        \cup {LinkRow(l) : l \in Link}

Roles == {"none", "member", "owner"}
Ops == {"none", "demote", "promote", "remove", "join", "setGrants", "setUserGrants", "mint", "delete"}

(* A request: what it does to whom, which statement is next, what that     *)
(* statement has still to lock, the rows locked FOR UPDATE, the rows       *)
(* written, and whether a grant is among what was inserted.                *)
Requests ==
    [op : Ops, at : {"idle", "owners", "lock", "grants", "update", "revoke", "insertMember", "claim",
                     "joinGrants", "insert", "ensure", "mint", "erase", "commit"},
     user : User \cup {NoUser}, link : Link \cup {NoLink}, todo : SUBSET (User \cup Link),
     locks : SUBSET Rows, writes : SUBSET Rows, adds : BOOLEAN]
Idle == [op |-> "none", at |-> "idle", user |-> NoUser, link |-> NoLink, todo |-> {},
         locks |-> {}, writes |-> {}, adds |-> FALSE]

TypeOK ==
    /\ account \subseteq User
    /\ role \in [User -> Roles]
    /\ granted \subseteq User
    /\ link \in [Link -> [by : User \cup {NoUser}, role : Roles,
                          uses : 0 .. MAX_USES, live : BOOLEAN]]
    /\ req \in [Req -> Requests]

Owners == {u \in User : role[u] = "owner"}

Init ==
    /\ account = User
    /\ role \in [User -> Roles]
    /\ Owners # {}
    /\ granted = {}
    /\ link = [l \in Link |-> [by |-> NoUser, role |-> "none", uses |-> 0, live |-> FALSE]]
    /\ req = [r \in Req |-> Idle]

-----------------------------------------------------------------------------
(* Requests and rows *)

Running == {r \in Req : req[r].op # "none"}
At(r, at) == r \in Running /\ req[r].at = at

(* Mutant: one's own row first. *)
NextOwner_OwnFirst(q) ==
    IF q.user \in q.todo THEN {q.user} ELSE {u \in q.todo : \A x \in q.todo : u <= x}

(* The owners' rows are locked in one order. *)
NextOwner(q) == {u \in q.todo : \A x \in q.todo : u <= x}

(* What the next statement waits for: rows somebody wrote, and rows        *)
(* somebody locked or wrote.  An INSERT finds a row that is only locked    *)
(* and does not wait.                                                      *)
WantsUnwritten(q) ==
    CASE q.at = "grants" -> IF q.user \in granted THEN {GrantRow(q.user)} ELSE {}
      [] q.at \in {"insertMember", "ensure"} -> {MemberRow(q.user)}
      [] q.at \in {"insert", "joinGrants"} -> {GrantRow(q.user)}
      [] q.at = "claim" -> {LinkRow(q.link)}
      [] q.at = "revoke" -> {LinkRow(l) : l \in q.todo}
      [] OTHER -> {}

WantsUnlocked(q) ==
    CASE q.at = "lock" -> {MemberRow(u) : u \in NextOwner(q)}
      [] q.at = "update" -> IF role[q.user] = "none" THEN {} ELSE {MemberRow(q.user)}
      [] q.at = "erase" -> {MemberRow(q.user), GrantRow(q.user)}
      [] OTHER -> {}

BlockedBy(r) ==
    {s \in Running \ {r} :
        \/ req[s].writes \cap (WantsUnwritten(req[r]) \cup WantsUnlocked(req[r])) # {}
        \/ req[s].locks \cap WantsUnlocked(req[r]) # {}}
MayGo(r, at) == At(r, at) /\ BlockedBy(r) = {}

Moves(r, at) == req' = [req EXCEPT ![r].at = at]
Writes(r, row, at) == req' = [req EXCEPT ![r].at = at, ![r].writes = @ \cup {row}]
Ends(r) == req' = [req EXCEPT ![r] = Idle]

Begins(r, op, at, u, l, todo) ==
    /\ r \notin Running
    /\ req' = [req EXCEPT ![r] = [op |-> op, at |-> at, user |-> u, link |-> l, todo |-> todo,
                                  locks |-> {}, writes |-> {}, adds |-> FALSE]]
    /\ UNCHANGED <<account, role, granted, link>>

Live(l) == link[l].live /\ link[l].uses < MAX_USES
MadeBy(u) == {l \in Link : link[l].by = u /\ link[l].live}

-----------------------------------------------------------------------------
(* What a request checks before anything is written *)

SetMemberRole(r, u) ==
    \/ role[u] = "owner" /\ Begins(r, "demote", "owners", u, NoLink, {})
    \/ role[u] = "member" /\ Begins(r, "promote", "update", u, NoLink, {})
RemoveMember(r, u) == role[u] # "none" /\ Begins(r, "remove", "owners", u, NoLink, {})
JoinOrg(r, u, l) ==
    u \in account /\ role[u] = "none" /\ Live(l) /\ Begins(r, "join", "insertMember", u, l, {})
SetMemberGrants(r, u) == role[u] # "none" /\ Begins(r, "setGrants", "grants", u, NoLink, {})
SetUserGrants(r, u) == u \in account /\ Begins(r, "setUserGrants", "grants", u, NoLink, {})
CreateInvite(r, u, l) ==
    role[u] = "owner" /\ link[l].by = NoUser /\ Begins(r, "mint", "mint", u, l, {})
DeleteUser(r, u) ==
    u \in account /\ Owners # {u} /\ Begins(r, "delete", "revoke", u, NoLink, MadeBy(u))

-----------------------------------------------------------------------------
(* keepAnOwner: the owners' rows FOR UPDATE, then their number *)

AskOwners(r) ==
    /\ At(r, "owners")
    /\ req' = [req EXCEPT ![r].at = "lock", ![r].todo = Owners]
    /\ UNCHANGED <<account, role, granted, link>>

(* A row deleted meanwhile is passed over. *)
LockOwner(r) ==
    /\ MayGo(r, "lock")
    /\ \E u \in NextOwner(req[r]) :
         req' = [req EXCEPT ![r].todo = @ \ {u},
                            ![r].locks = IF role[u] = "none" THEN @ ELSE @ \cup {MemberRow(u)}]
    /\ UNCHANGED <<account, role, granted, link>>

(* Mutant: those that were owners when it asked. *)
Counted_AsAsked(q) == {u \in User : MemberRow(u) \in q.locks}

(* Those it asked for that still are owners, now that nobody else can      *)
(* change that.                                                            *)
Counted(q) == {u \in Owners : MemberRow(u) \in q.locks}
LastOne(q) == Cardinality(Counted(q)) <= 1 /\ q.user \in Counted(q)

CountOwners(r) ==
    /\ At(r, "lock") /\ req[r].todo = {}
    /\ IF LastOne(req[r]) THEN Ends(r)
       ELSE Moves(r, IF req[r].op = "remove" THEN "grants" ELSE "update")
    /\ UNCHANGED <<account, role, granted, link>>

-----------------------------------------------------------------------------
(* The statements of the transactions *)

(* Deletes the grants there are. *)
DropGrants(r) ==
    /\ MayGo(r, "grants")
    /\ LET next == IF req[r].op = "remove" THEN "update" ELSE "insert" IN
         IF req[r].user \in granted THEN Writes(r, GrantRow(req[r].user), next)
         ELSE Moves(r, next)
    /\ UNCHANGED <<account, role, granted, link>>

(* Updates or deletes the membership, if there still is one; whoever loses *)
(* ownership loses the links they made, revokeMintedBy.                    *)
UpdateMember(r) ==
    /\ MayGo(r, "update")
    /\ LET q == req[r] IN
         req' = [req EXCEPT
             ![r].at = IF q.op = "promote" THEN "commit" ELSE "revoke",
             ![r].todo = IF q.op = "promote" THEN {} ELSE MadeBy(q.user),
             ![r].writes = IF role[q.user] = "none" THEN @ ELSE @ \cup {MemberRow(q.user)}]
    /\ UNCHANGED <<account, role, granted, link>>

RevokeMinted(r) ==
    /\ At(r, "revoke")
    /\ \E l \in req[r].todo :
         /\ \A s \in Running \ {r} : LinkRow(l) \notin req[s].writes
         /\ req' = [req EXCEPT ![r].todo = @ \ {l}, ![r].writes = @ \cup {LinkRow(l)}]
    /\ UNCHANGED <<account, role, granted, link>>

RevokedAll(r) ==
    /\ At(r, "revoke") /\ req[r].todo = {} /\ req[r].op # "delete"
    /\ Moves(r, "commit")
    /\ UNCHANGED <<account, role, granted, link>>

(* joinOrg: the membership, unless it is there by now. *)
InsertMember(r) ==
    /\ MayGo(r, "insertMember")
    /\ IF role[req[r].user] # "none" \/ req[r].user \notin account THEN Ends(r)
       ELSE Writes(r, MemberRow(req[r].user), "claim")
    /\ UNCHANGED <<account, role, granted, link>>

(* Mutant: the use is counted on what was read before. *)
Claim_AsRead(r) ==
    /\ At(r, "claim")
    /\ Writes(r, LinkRow(req[r].link), "joinGrants")
    /\ UNCHANGED <<account, role, granted, link>>

(* Mutant: only the revocation is looked at again, not the uses. *)
Claim_AnyUse(r) ==
    /\ MayGo(r, "claim")
    /\ IF link[req[r].link].live THEN Writes(r, LinkRow(req[r].link), "joinGrants") ELSE Ends(r)
    /\ UNCHANGED <<account, role, granted, link>>

(* One use of the link, if it has one left and was not revoked meanwhile;  *)
(* else nothing of it stands.                                              *)
Claim(r) ==
    /\ MayGo(r, "claim")
    /\ IF Live(req[r].link) THEN Writes(r, LinkRow(req[r].link), "joinGrants") ELSE Ends(r)
    /\ UNCHANGED <<account, role, granted, link>>

(* The link's role on the server, if it still names one. *)
JoinGrants(r) ==
    /\ \/ At(r, "joinGrants") /\ Moves(r, "commit")
       \/ /\ MayGo(r, "joinGrants") /\ req[r].user \notin granted
          /\ req' = [req EXCEPT ![r].at = "commit", ![r].adds = TRUE,
                                ![r].writes = @ \cup {GrantRow(req[r].user)}]
    /\ UNCHANGED <<account, role, granted, link>>

(* The grants asked for, if any; another's that came meanwhile is a        *)
(* duplicate key.                                                          *)
InsertGrants(r) ==
    LET q == req[r]
        next == IF q.op = "setGrants" THEN "commit" ELSE "ensure" IN
    /\ \/ At(r, "insert") /\ Moves(r, "commit")
       \/ /\ MayGo(r, "insert")
          /\ IF q.user \notin account \/ (q.user \in granted /\ GrantRow(q.user) \notin q.writes)
             THEN Ends(r)
             ELSE req' = [req EXCEPT ![r].at = next, ![r].adds = TRUE,
                                     ![r].writes = @ \cup {GrantRow(q.user)}]
    /\ UNCHANGED <<account, role, granted, link>>

(* ensureMemberships: a grant implies membership. *)
EnsureMember(r) ==
    /\ MayGo(r, "ensure")
    /\ IF role[req[r].user] = "none" THEN Writes(r, MemberRow(req[r].user), "commit")
       ELSE Moves(r, "commit")
    /\ UNCHANGED <<account, role, granted, link>>

(* What the rows it wrote become. *)
RoleWritten(q) ==
    CASE q.op = "promote" -> "owner"
      [] q.op \in {"demote", "setUserGrants"} -> "member"
      [] q.op = "join" -> link[q.link].role
      [] OTHER -> "none"

LinksWritten(q) ==
    [l \in Link |->
        IF LinkRow(l) \notin q.writes THEN link[l]
        ELSE IF q.op = "join" THEN [link[l] EXCEPT !.uses = @ + 1]
        ELSE [link[l] EXCEPT !.live = FALSE]]

Commit(r) ==
    /\ At(r, "commit")
    /\ LET q == req[r] IN
         /\ role' = IF MemberRow(q.user) \in q.writes
                    THEN [role EXCEPT ![q.user] = RoleWritten(q)] ELSE role
         /\ granted' = IF GrantRow(q.user) \notin q.writes THEN granted
                       ELSE IF q.adds THEN granted \cup {q.user} ELSE granted \ {q.user}
         /\ link' = LinksWritten(q)
    /\ Ends(r)
    /\ UNCHANGED account

(* The database fails it, or chooses it to break a deadlock; nothing of    *)
(* the transaction stands.                                                 *)
Fail(r) ==
    /\ r \in Running
    /\ Ends(r)
    /\ UNCHANGED <<account, role, granted, link>>

-----------------------------------------------------------------------------
(* Without a transaction *)

(* createInvite, after its owner's role was asked for. *)
Mint(r) ==
    LET q == req[r] IN
    /\ At(r, "mint")
    /\ link[q.link].by = NoUser
    /\ \E given \in Given :
         link' = [link EXCEPT ![q.link] = [by |-> q.user, role |-> given, uses |-> 0, live |-> TRUE]]
    /\ Ends(r)
    /\ UNCHANGED <<account, role, granted>>

(* revokeInvite by an owner; or it expires. *)
RevokeInvite(l) ==
    /\ link[l].live
    /\ \A r \in Running : LinkRow(l) \notin req[r].writes
    /\ link' = [link EXCEPT ![l].live = FALSE]
    /\ UNCHANGED <<account, role, granted, req>>

(* deleteUser, or a person's own deletion: the links end, then the account *)
(* goes, and memberships and grants with it.                               *)
EndLinks(r) ==
    /\ At(r, "revoke") /\ req[r].todo = {} /\ req[r].op = "delete"
    /\ link' = LinksWritten(req[r])
    /\ req' = [req EXCEPT ![r].at = "erase", ![r].writes = {}]
    /\ UNCHANGED <<account, role, granted>>

Erase(r) ==
    LET u == req[r].user IN
    /\ MayGo(r, "erase")
    /\ account' = account \ {u}
    /\ role' = [role EXCEPT ![u] = "none"]
    /\ granted' = granted \ {u}
    /\ Ends(r)
    /\ UNCHANGED link

(* A new account; one that nothing refers to stands for it. *)
Register(u) ==
    /\ u \notin account
    /\ MadeBy(u) = {} /\ \A r \in Running : req[r].user # u
    /\ account' = account \cup {u}
    /\ UNCHANGED <<role, granted, link, req>>

-----------------------------------------------------------------------------
Starts(r) ==
    \E u \in User :
        \/ SetMemberRole(r, u) \/ RemoveMember(r, u) \/ SetMemberGrants(r, u)
        \/ SetUserGrants(r, u) \/ DeleteUser(r, u)
        \/ \E l \in Link : JoinOrg(r, u, l) \/ CreateInvite(r, u, l)

Statement(r) ==
    \/ AskOwners(r) \/ LockOwner(r) \/ CountOwners(r)
    \/ DropGrants(r) \/ UpdateMember(r) \/ RevokeMinted(r) \/ RevokedAll(r)
    \/ InsertMember(r) \/ Claim(r) \/ JoinGrants(r) \/ InsertGrants(r) \/ EnsureMember(r)
    \/ Mint(r) \/ EndLinks(r) \/ Erase(r)

Next ==
    \/ \E r \in Req : Starts(r) \/ Statement(r) \/ Commit(r) \/ Fail(r)
    \/ \E l \in Link : RevokeInvite(l)
    \/ \E u \in User : Register(u)

Spec == Init /\ [][Next]_vars

-----------------------------------------------------------------------------
(* Properties *)

(* Two requests that arrive together and take the last two owners away do  *)
(* not both succeed ("the second waits, then counts what the first left",  *)
(* orgs.ts, keepAnOwner): only the deletion of an account, or a request    *)
(* whose person became an owner after it had locked the owners, can leave  *)
(* the organisation without one.                                           *)
CountedOwnersStay ==
    [][Owners # {} /\ Owners' = {} =>
         \/ account' # account
         \/ \E r \in Running : At(r, "commit") /\ MemberRow(req[r].user) \notin req[r].locks]_vars

(* A link lets in as many as it may, and nobody once it is revoked: two    *)
(* who race for its last use do not both get in.                           *)
LinkHolds ==
    [][\A l \in Link : link'[l].uses # link[l].uses =>
           Live(l) /\ link'[l].uses = link[l].uses + 1]_vars

(* Requests that change a role, take a membership away or delete an        *)
(* account never wait for one another in a circle: each locks the owners   *)
(* first, in one order ("orderBy(orgMembers.userId)", orgs.ts,             *)
(* keepAnOwner), then its grants and its own row, and the links last.      *)
(* There are two exceptions, and the database then fails one of them: a    *)
(* request whose person was no owner when it locked the owners, and is one *)
(* to another request; and two that end one person's links, whose rows     *)
(* each takes in the order it finds them.                                  *)
Late(q) == q.op # "promote" /\ q.at = "update" /\ MemberRow(q.user) \notin q.locks
OneEnds(S) == \A r, s \in S : req[r].at = "revoke" /\ req[s].at = "revoke"
                               /\ req[r].user = req[s].user => r = s
NoCircle ==
    ~\E S \in SUBSET {r \in Running : req[r].op \in {"demote", "promote", "remove", "delete"}
                                      /\ ~Late(req[r])} :
        S # {} /\ OneEnds(S) /\ \A r \in S : BlockedBy(r) \cap S # {}
=============================================================================
