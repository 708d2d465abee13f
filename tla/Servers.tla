------------------------------ MODULE Servers ------------------------------
(***************************************************************************)
(* One server: its roles with their positions and permissions, its members    *)
(* and bans, and the room of the socket server that members' pages are in.    *)
(* A request checks what it may do, and writes in a later step, with other    *)
(* requests in between; the reads of one check are taken together.  The       *)
(* owner, whom every check lets pass, stays away: this is about what the      *)
(* members can do to each other.  Nicknames, timeouts and the limits of an    *)
(* invite are left out.                                                       *)
(***************************************************************************)
EXTENDS Integers, FiniteSets

CONSTANTS User,       \* everybody but the owner
          Crew,       \* those who send requests about roles and members
          Mover,      \* bound: the users who come and go
          Role, Everyone,
          Perm,       \* permission bits, by name
          Ceiling,    \* what the crew holds at the start
          Asked,      \* bound: the bits requests ask to change
          MaxRank,    \* bound: positions
          MaxListed,  \* bound: roles in one reordering
          Task,       \* requests running at the same time
          None,
          InitRank, InitGrants, InitWorn, InitMember

ASSUME ServersAssumption ==
    /\ MaxRank \in Nat /\ None \notin 0..MaxRank /\ None \notin User /\ None \notin Role
    /\ Everyone \in Role
    /\ Crew \subseteq User /\ Mover \subseteq User /\ InitMember \subseteq User
    /\ Asked \subseteq Perm /\ "admin" \notin Ceiling
    /\ InitRank \in [Role -> 0..MaxRank \union {None}]
    /\ \A r \in Role : InitRank[r] = 0 <=> r = Everyone
    /\ InitGrants \in [Role -> SUBSET Perm]
    /\ InitWorn \in [User -> SUBSET {r \in Role \ {Everyone} : InitRank[r] # None}]
    /\ \A u \in User \ InitMember : InitWorn[u] = {}
    /\ InitGrants[Everyone] \subseteq Ceiling
    /\ \A u \in Crew : \A r \in InitWorn[u] : InitGrants[r] \subseteq Ceiling

VARIABLES
    rank,       \* position of each role, None if there is no such role
    grants,     \* permissions of each role
    worn,       \* the roles of each member
    member, banned, online,
    room,       \* the users whose page is in the room of the server
    run,        \* the requests
    muddle      \* what two requests were at work on at the same time

roles == <<rank, grants>>
people == <<member, banned>>
vars == <<rank, grants, worn, member, banned, online, room, run, muddle>>

Idle == [op |-> "idle", user |-> None, role |-> None, give |-> {}, seat |-> 0,
         seats |-> <<>>, there |-> FALSE]

-----------------------------------------------------------------------------
(* permissions.rs and membership.rs                                         *)

Present == {r \in Role : rank[r] # None}

\* effective_permissions: of everyone, and of the roles the member wears.
Perms(u) ==
    IF u \in member THEN UNION {grants[r] : r \in worn[u] \union {Everyone}} ELSE {}

\* has_permission.
Has(u, p) == "admin" \in Perms(u) \/ p \in Perms(u)

\* A mutant: what the role had is not compared.
MayAnything(u, old, new) == "roles" \in Perms(u)

\* assert_no_escalation: what is granted and what is revoked, the actor has.
MayChange(u, old, new) ==
    "admin" \in Perms(u) \/ (old \ new) \union (new \ old) \subseteq Perms(u)

\* highest_role_position.
Height(u) ==
    CHOOSE n \in 0..MaxRank :
        /\ n = 0 \/ \E r \in worn[u] : rank[r] = n
        /\ \A r \in worn[u] : rank[r] <= n

\* A mutant: a role of the actor's own height will do.
NotAbove(u, n) == u \in member /\ Height(u) >= n

\* assert_role_below.
Above(u, n) == u \in member /\ Height(u) > n

\* assert_outranks.
Outranks(a, u) == a \in member /\ (u \in member => Height(a) > Height(u))

-----------------------------------------------------------------------------
TypeOK ==
    /\ rank \in [Role -> 0..MaxRank \union {None}]
    /\ rank[Everyone] = 0
    /\ grants \in [Role -> SUBSET Perm]
    /\ worn \in [User -> SUBSET (Present \ {Everyone})]
    /\ member \subseteq User /\ banned \subseteq User /\ online \subseteq User
    /\ \A u \in User \ member : worn[u] = {}
    /\ room \subseteq online
    /\ \A p \in Task : run[p].give \subseteq Perm
    /\ muddle \in [users : SUBSET User, ranks : BOOLEAN]

Init ==
    /\ rank = InitRank /\ grants = InitGrants /\ worn = InitWorn
    /\ member = InitMember /\ banned = {} /\ online = {} /\ room = {}
    /\ run = [p \in Task |-> Idle]
    /\ muddle = [users |-> {}, ranks |-> FALSE]

\* The operations that change who is a member, or who is in the room.
Moves == {"join", "room", "kick", "ban", "leave", "unroom", "connect"}

Begins(p, op, rec) ==
    /\ run[p].op = "idle"
    /\ run' = [run EXCEPT ![p] = [rec EXCEPT !.op = op]]
    /\ LET about == IF op \in Moves /\ \E q \in Task : run[q].op \in Moves /\ run[q].user = rec.user
                    THEN {rec.user} ELSE {}
       IN muddle' = [muddle EXCEPT !.users = @ \union about]

Ends(p) == run' = [run EXCEPT ![p] = Idle]

\* The rows of a membership go, and the row id a request has read names nothing.
WithoutRow(u) ==
    [q \in Task |-> IF run[q].user = u THEN [run[q] EXCEPT !.there = FALSE] ELSE run[q]]

-----------------------------------------------------------------------------
(* role.rs: the checks                                                      *)

CreateRole(p, a, g) ==
    /\ Has(a, "roles") /\ MayChange(a, {}, g)
    /\ Begins(p, "create", [Idle EXCEPT !.give = g])
    /\ UNCHANGED <<roles, worn, people, online, room>>

EditRole(p, a, r, g) ==
    /\ r \in Present
    /\ Has(a, "roles") /\ (rank[r] # 0 => Above(a, rank[r]))
    /\ MayChange(a, grants[r], g)
    /\ Begins(p, "edit", [Idle EXCEPT !.role = r, !.give = g])
    /\ UNCHANGED <<roles, worn, people, online, room>>

MoveRole(p, a, r, n) ==
    /\ r \in Present /\ rank[r] # 0
    /\ Has(a, "roles") /\ Above(a, rank[r]) /\ Above(a, n)
    /\ Begins(p, "move", [Idle EXCEPT !.role = r, !.seat = n])
    /\ UNCHANGED <<roles, worn, people, online, room>>

DeleteRole(p, a, r) ==
    /\ r \in Present /\ rank[r] # 0
    /\ Has(a, "roles") /\ Above(a, rank[r])
    /\ Begins(p, "delete", [Idle EXCEPT !.role = r])
    /\ UNCHANGED <<roles, worn, people, online, room>>

\* A role listed with the position it has is not looked at.
Reorder(p, a, f) ==
    /\ Has(a, "roles")
    /\ \A r \in DOMAIN f :
         f[r] # rank[r] => /\ rank[r] # 0 /\ f[r] # 0
                           /\ Above(a, rank[r]) /\ Above(a, f[r])
    /\ Begins(p, "reorder", [Idle EXCEPT !.seats = f])
    /\ UNCHANGED <<roles, worn, people, online, room>>

\* assert_can_change_member_role.
Assign(p, a, u, r) ==
    /\ u \in member /\ r \in Present /\ rank[r] # 0
    /\ Has(a, "roles") /\ (u # a => Outranks(a, u)) /\ Above(a, rank[r])
    /\ MayChange(a, {}, grants[r])
    /\ Begins(p, "assign", [Idle EXCEPT !.user = u, !.role = r, !.there = TRUE])
    /\ UNCHANGED <<roles, worn, people, online, room>>

Unassign(p, a, u, r) ==
    /\ u \in member /\ r \in Present /\ rank[r] # 0
    /\ Has(a, "roles") /\ (u # a => Outranks(a, u)) /\ Above(a, rank[r])
    /\ Begins(p, "unassign", [Idle EXCEPT !.user = u, !.role = r, !.there = TRUE])
    /\ UNCHANGED <<roles, worn, people, online, room>>

-----------------------------------------------------------------------------
(* role.rs: the writes                                                      *)

\* Ids nobody knows: ids do not repeat.
Fresh == Role \ (Present \union UNION {{run[q].role} \union DOMAIN run[q].seats : q \in Task})

\* Every other role moves up by one.
Creates(p) ==
    /\ run[p].op = "create"
    /\ \A r \in Present : rank[r] < MaxRank
    /\ \E n \in Fresh :
         /\ rank' = [r \in Role |-> IF r = n THEN 1
                                    ELSE IF r \in Present /\ rank[r] >= 1 THEN rank[r] + 1
                                    ELSE rank[r]]
         /\ grants' = [grants EXCEPT ![n] = run[p].give]
    /\ Ends(p)
    /\ muddle' = [muddle EXCEPT !.ranks = @ \/ \E q \in Task : run[q].op = "reorder"]
    /\ UNCHANGED <<worn, people, online, room>>

Edits(p) ==
    /\ run[p].op = "edit"
    /\ grants' = IF run[p].role \in Present
                 THEN [grants EXCEPT ![run[p].role] = run[p].give] ELSE grants
    /\ Ends(p)
    /\ UNCHANGED <<rank, worn, people, online, room, muddle>>

Relocates(p) ==
    /\ run[p].op = "move"
    /\ rank' = IF run[p].role \in Present
               THEN [rank EXCEPT ![run[p].role] = run[p].seat] ELSE rank
    /\ Ends(p)
    /\ UNCHANGED <<grants, worn, people, online, room, muddle>>

\* What the members wore of it goes with the role.
Deletes(p) ==
    /\ run[p].op = "delete"
    /\ rank' = [rank EXCEPT ![run[p].role] = None]
    /\ grants' = [grants EXCEPT ![run[p].role] = {}]
    /\ worn' = [u \in User |-> worn[u] \ {run[p].role}]
    /\ Ends(p)
    /\ UNCHANGED <<people, online, room, muddle>>

Reorders(p) ==
    /\ run[p].op = "reorder"
    /\ rank' = [r \in Role |-> IF r \in Present \intersect DOMAIN run[p].seats
                               THEN run[p].seats[r] ELSE rank[r]]
    /\ Ends(p)
    /\ UNCHANGED <<grants, worn, people, online, room, muddle>>

\* The foreign keys refuse a row or a role that is gone.
Assigns(p) ==
    /\ run[p].op = "assign"
    /\ worn' = IF run[p].there /\ run[p].role \in Present
               THEN [worn EXCEPT ![run[p].user] = @ \union {run[p].role}] ELSE worn
    /\ Ends(p)
    /\ UNCHANGED <<roles, people, online, room, muddle>>

Unassigns(p) ==
    /\ run[p].op = "unassign"
    /\ worn' = IF run[p].there THEN [worn EXCEPT ![run[p].user] = @ \ {run[p].role}] ELSE worn
    /\ Ends(p)
    /\ UNCHANGED <<roles, people, online, room, muddle>>

-----------------------------------------------------------------------------
(* moderation.rs and server.rs                                              *)

Kick(p, a, u) ==
    /\ Has(a, "kick") /\ u # a /\ Outranks(a, u) /\ u \in member
    /\ Begins(p, "kick", [Idle EXCEPT !.user = u])
    /\ UNCHANGED <<roles, worn, people, online, room>>

Ban(p, a, u) ==
    /\ Has(a, "ban") /\ u # a /\ Outranks(a, u)
    /\ Begins(p, "ban", [Idle EXCEPT !.user = u])
    /\ UNCHANGED <<roles, worn, people, online, room>>

Leave(p, u) ==
    /\ u \in member
    /\ Begins(p, "leave", [Idle EXCEPT !.user = u])
    /\ UNCHANGED <<roles, worn, people, online, room>>

\* invite_status.
Join(p, u) ==
    /\ u \notin banned /\ u \notin member
    /\ Begins(p, "join", [Idle EXCEPT !.user = u])
    /\ UNCHANGED <<roles, worn, people, online, room>>

Unban(a, u) ==
    /\ Has(a, "ban")
    /\ banned' = banned \ {u}
    /\ UNCHANGED <<roles, worn, member, online, room, run, muddle>>

\* The row goes and the roles worn with it; a ban is written in the same transaction.
\* A leave that finds no row ends there.
Removes(p) ==
    /\ run[p].op \in {"kick", "ban", "leave"}
    /\ LET u == run[p].user IN
         /\ member' = member \ {u}
         /\ worn' = [worn EXCEPT ![u] = {}]
         /\ banned' = IF run[p].op = "ban" THEN banned \union {u} ELSE banned
         /\ run' = [WithoutRow(u) EXCEPT
                      ![p] = IF run[p].op = "leave" /\ u \notin member THEN Idle
                             ELSE [run[p] EXCEPT !.op = "unroom"]]
    /\ UNCHANGED <<roles, online, room, muddle>>

\* A mutant: the room is left to those who go by themselves.
LeavesRoomAlone(p) ==
    /\ run[p].op = "unroom"
    /\ room' = IF run[p].user \in banned THEN room ELSE room \ {run[p].user}
    /\ Ends(p)
    /\ UNCHANGED <<roles, worn, people, online, muddle>>

LeavesRoom(p) ==
    /\ run[p].op = "unroom"
    /\ room' = room \ {run[p].user}
    /\ Ends(p)
    /\ UNCHANGED <<roles, worn, people, online, muddle>>

\* join_via_invite; the unique index refuses a second row.
Inserts(p) ==
    /\ run[p].op = "join"
    /\ IF run[p].user \in member
       THEN Ends(p) /\ UNCHANGED member
       ELSE /\ member' = member \union {run[p].user}
            /\ run' = [run EXCEPT ![p].op = "room"]
    /\ UNCHANGED <<roles, worn, banned, online, room, muddle>>

EntersRoom(p) ==
    /\ run[p].op = "room"
    /\ room' = room \union ({run[p].user} \intersect online)
    /\ Ends(p)
    /\ UNCHANGED <<roles, worn, people, online, muddle>>

\* handle_connect reads the servers of the user, and joins their rooms one by one.
Connect(p, u) ==
    /\ u \notin online
    /\ online' = online \union {u}
    /\ IF u \in member THEN Begins(p, "connect", [Idle EXCEPT !.user = u])
       ELSE run[p].op = "idle" /\ UNCHANGED <<run, muddle>>
    /\ UNCHANGED <<roles, worn, people, room>>

ConnectEnters(p) ==
    /\ run[p].op = "connect"
    /\ room' = room \union ({run[p].user} \intersect online)
    /\ Ends(p)
    /\ UNCHANGED <<roles, worn, people, online, muddle>>

Disconnect(u) ==
    /\ u \in online
    /\ online' = online \ {u} /\ room' = room \ {u}
    /\ UNCHANGED <<roles, worn, people, run, muddle>>

-----------------------------------------------------------------------------
Orders == UNION {[D -> 0..MaxRank] : D \in {E \in SUBSET Present : Cardinality(E) \in 1..MaxListed}}

RoleRequest(p, a) ==
    /\ run[p].op = "idle" /\ Has(a, "roles")
    /\ \/ \E g \in SUBSET Asked :
            \/ CreateRole(p, a, g)
            \/ \E r \in Role : EditRole(p, a, r, (grants[r] \ Asked) \union g)
       \/ \E r \in Role : \/ DeleteRole(p, a, r)
                          \/ \E n \in 1..MaxRank : MoveRole(p, a, r, n)
                          \/ \E u \in User : Assign(p, a, u, r) \/ Unassign(p, a, u, r)
       \/ \E f \in Orders : Reorder(p, a, f)

MemberRequest(p) ==
    /\ run[p].op = "idle"
    /\ \/ \E a \in Crew, u \in Mover : Kick(p, a, u) \/ Ban(p, a, u)
       \/ \E u \in Mover : Leave(p, u) \/ Join(p, u)

Write(p) ==
    \/ Creates(p) \/ Edits(p) \/ Relocates(p) \/ Deletes(p) \/ Reorders(p)
    \/ Assigns(p) \/ Unassigns(p)
    \/ Removes(p) \/ LeavesRoom(p) \/ Inserts(p) \/ EntersRoom(p) \/ ConnectEnters(p)

Next ==
    \/ \E p \in Task : \/ \E a \in Crew : RoleRequest(p, a)
                       \/ \E u \in Mover : Connect(p, u)
                       \/ MemberRequest(p) \/ Write(p)
    \/ \E a \in Crew, u \in Mover : Unban(a, u)
    \/ \E u \in Mover : Disconnect(u)

Spec == Init /\ [][Next]_vars

-----------------------------------------------------------------------------
(* Properties.                                                              *)

\* Whatever the crew does, in any order and at the same time, none of them gains a
\* permission that none of them had.
Contained == \A u \in Crew : Perms(u) \subseteq Ceiling

Inv == TypeOK /\ Contained

\* The roles nobody in the crew outranked at the start.
High == {r \in Role \ {Everyone} :
           /\ InitRank[r] # None
           /\ \A u \in Crew : \A s \in InitWorn[u] : InitRank[s] <= InitRank[r]}

\* They still are there and outranked by nobody in the crew, unless a role was created
\* while a reordering was under way: it writes the old position of a role it does not
\* move, and looks at nothing.
RanksKept ==
    \/ muddle.ranks
    \/ \A r \in High : rank[r] # None /\ \A u \in Crew : Height(u) <= rank[r]

\* Members, bans and the room agree when nothing is under way, except about users of
\* whom two requests were under way at once.
MembersTrue ==
    \A u \in User \ muddle.users :
        (\A p \in Task : run[p].op \in Moves => run[p].user # u)
        => /\ u \in banned => u \notin member
           /\ u \in room <=> u \in member /\ u \in online
=============================================================================
