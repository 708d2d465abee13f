--------------------------- MODULE ServersProofs ---------------------------
(***************************************************************************)
(* Proofs about Servers, for any users, roles, permissions, positions and    *)
(* number of requests at the same time: what the crew can come to hold, whom   *)
(* it can come to outrank, and that members, bans and the room agree.         *)
(***************************************************************************)
EXTENDS Servers, FiniteSetTheorems, WellFoundedInduction, TLAPS

USE ServersAssumption

-----------------------------------------------------------------------------
(* The requests.                                                            *)

Ops == {"idle", "create", "edit", "move", "delete", "reorder", "assign", "unassign"}
         \union Moves

SeatMaps == UNION {[D -> 0..MaxRank] : D \in SUBSET Role}

Requests == [op : Ops, user : User \union {None}, role : Role \union {None},
             give : SUBSET Perm, seat : 0..MaxRank, seats : SeatMaps \union {<<>>},
             there : BOOLEAN]

\* What a request is about.
Fits(h) ==
    /\ h.op = "edit" => h.role \in Role
    /\ h.op \in {"move", "delete", "assign", "unassign"} => h.role \in Role \ {Everyone}
    /\ h.op = "move" => h.seat # 0
    /\ h.op = "reorder" =>
          h.seats \in SeatMaps /\ (Everyone \in DOMAIN h.seats => h.seats[Everyone] = 0)
    /\ h.op \in Moves \union {"assign", "unassign"} => h.user \in User
    /\ h.there => h.op \in {"assign", "unassign"} /\ h.user \in member

Shape ==
    /\ run \in [Task -> Requests]
    /\ \A p \in Task : Fits(run[p])

\* What a request will write, the crew held when it was checked: whatever else has
\* been written since, the part beyond the ceiling is what the role has anyway.
Checked(h) ==
    /\ h.op = "create" => h.give \subseteq Ceiling
    /\ h.op = "edit" /\ h.role \in Present => h.give \ Ceiling = grants[h.role] \ Ceiling
    /\ h.op = "assign" /\ h.role \in Present => grants[h.role] \subseteq Ceiling

Held ==
    /\ grants[Everyone] \subseteq Ceiling
    /\ \A u \in Crew : \A r \in worn[u] : grants[r] \subseteq Ceiling
    /\ \A p \in Task : Checked(run[p])

\* The high roles that somebody in the crew wears from the start.
Crowned == {r \in High : \E u \in Crew : r \in InitWorn[u]}

\* Roles the crew might wear or move.
Within == (Present \ High) \union Crowned

Bounded(h) ==
    /\ h.op \in {"move", "delete", "assign"} => h.role \notin High
    /\ h.op = "move" => \A t \in High : h.seat <= rank[t]
    /\ h.op = "reorder" => \A r \in DOMAIN h.seats :
          /\ r \in High => h.seats[r] = rank[r]
          /\ r \notin High => \A t \in High : h.seats[r] <= rank[t]

Ordered ==
    /\ High \subseteq Present /\ \A t \in High : rank[t] # 0
    /\ \A r \in Within : \A t \in High : rank[r] <= rank[t]
    /\ \A u \in Crew : worn[u] \subseteq Within
    /\ \A p \in Task : Bounded(run[p])

\* Who is a member and who is in the room, while one request is at work on it.
Agrees(u) ==
    /\ u \in banned => u \notin member
    /\ u \in room <=> u \in member /\ u \in online

Going(u) == {p \in Task : run[p].op \in Moves /\ run[p].user = u}

Placed(u) ==
    /\ \A p, q \in Going(u) : p = q
    /\ Going(u) = {} => Agrees(u)
    /\ \A p \in Going(u) :
         /\ run[p].op \in {"kick", "ban", "leave"} => Agrees(u)
         /\ run[p].op = "join" => Agrees(u) /\ u \notin member /\ u \notin banned
         /\ run[p].op \in {"room", "connect"} => u \in member /\ u \notin banned
         /\ run[p].op = "unroom" => u \notin member

Sound ==
    /\ TypeOK /\ Shape /\ Held
    /\ muddle.ranks \/ Ordered
    /\ \A u \in User \ muddle.users : Placed(u)

-----------------------------------------------------------------------------
(* A request starts: its check has passed, and nothing but its own record      *)
(* changes.                                                                  *)

Starts(p, h) ==
    /\ run[p].op = "idle"
    /\ run' = [run EXCEPT ![p] = h]
    /\ h \in Requests /\ Fits(h)

Still == UNCHANGED <<roles, worn, people, online, room>>

LEMMA IdleFits == Idle \in Requests /\ Fits(Idle) /\ Idle.op = "idle"
<1>1. Idle.seats = <<>> /\ 0 \in 0..MaxRank
  BY DEF Idle
<1>2. QED
  BY <1>1 DEF Idle, Requests, Ops, Moves, Fits

LEMMA SeatMapsHold ==
  ASSUME NEW f \in Orders
  PROVE  f \in SeatMaps /\ DOMAIN f \subseteq Present
<1>1. PICK D \in {E \in SUBSET Present : Cardinality(E) \in 1..MaxListed} : f \in [D -> 0..MaxRank]
  BY DEF Orders
<1>2. D \in SUBSET Role
  BY <1>1 DEF Present
<1>3. QED
  BY <1>1, <1>2 DEF SeatMaps

\* The checks of one request about roles.
LEMMA CreateStarts ==
  ASSUME TypeOK, Shape, NEW p \in Task, NEW a \in Crew, NEW g \in SUBSET Perm,
         CreateRole(p, a, g)
  PROVE  LET h == [Idle EXCEPT !.give = g, !.op = "create"]
         IN  Starts(p, h) /\ Still /\ UNCHANGED muddle
<1> DEFINE h == [Idle EXCEPT !.give = g, !.op = "create"]
<1>1. h \in Requests /\ Fits(h) /\ h = [[Idle EXCEPT !.give = g] EXCEPT !.op = "create"]
  BY IdleFits DEF Idle, Requests, Ops, Moves, Fits
<1>2. QED
  BY <1>1 DEF CreateRole, Begins, Starts, Still, Moves, TypeOK, roles, people

LEMMA EditStarts ==
  ASSUME TypeOK, Shape, NEW p \in Task, NEW a \in Crew, NEW r \in Role, NEW g \in SUBSET Perm,
         EditRole(p, a, r, g)
  PROVE  LET h == [Idle EXCEPT !.role = r, !.give = g, !.op = "edit"]
         IN  Starts(p, h) /\ Still /\ UNCHANGED muddle
<1> DEFINE h == [Idle EXCEPT !.role = r, !.give = g, !.op = "edit"]
<1>1. h \in Requests /\ Fits(h) /\ h = [[Idle EXCEPT !.role = r, !.give = g] EXCEPT !.op = "edit"]
  <2>1. h \in Requests /\ h.op = "edit" /\ h.role = r /\ ~ h.there
    BY IdleFits DEF Idle, Requests, Ops
  <2>2. h = [[Idle EXCEPT !.role = r, !.give = g] EXCEPT !.op = "edit"]
    BY DEF Idle
  <2> HIDE DEF h
  <2>3. QED
    BY <2>1, <2>2 DEF Fits, Moves
<1>2. QED
  BY <1>1 DEF EditRole, Begins, Starts, Still, Moves, TypeOK, roles, people

LEMMA MoveStarts ==
  ASSUME TypeOK, Shape, NEW p \in Task, NEW a \in Crew, NEW r \in Role, NEW n \in 1..MaxRank,
         MoveRole(p, a, r, n)
  PROVE  LET h == [Idle EXCEPT !.role = r, !.seat = n, !.op = "move"]
         IN  Starts(p, h) /\ Still /\ UNCHANGED muddle
<1> DEFINE h == [Idle EXCEPT !.role = r, !.seat = n, !.op = "move"]
<1>0. n \in 0..MaxRank /\ n # 0 /\ r \in Role \ {Everyone}
  BY DEF MoveRole, TypeOK
<1>1. h \in Requests /\ Fits(h) /\ h = [[Idle EXCEPT !.role = r, !.seat = n] EXCEPT !.op = "move"]
  <2>1. h \in Requests /\ h.op = "move" /\ h.role = r /\ h.seat = n /\ ~ h.there
    BY <1>0, IdleFits DEF Idle, Requests, Ops
  <2>2. h = [[Idle EXCEPT !.role = r, !.seat = n] EXCEPT !.op = "move"]
    BY DEF Idle
  <2> HIDE DEF h
  <2>3. QED
    BY <1>0, <2>1, <2>2 DEF Fits, Moves
<1>2. QED
  BY <1>1 DEF MoveRole, Begins, Starts, Still, Moves, TypeOK, roles, people

LEMMA DeleteStarts ==
  ASSUME TypeOK, Shape, NEW p \in Task, NEW a \in Crew, NEW r \in Role,
         DeleteRole(p, a, r)
  PROVE  LET h == [Idle EXCEPT !.role = r, !.op = "delete"]
         IN  Starts(p, h) /\ Still /\ UNCHANGED muddle
<1> DEFINE h == [Idle EXCEPT !.role = r, !.op = "delete"]
<1>0. r \in Role \ {Everyone}
  BY DEF DeleteRole, TypeOK
<1>1. h \in Requests /\ Fits(h) /\ h = [[Idle EXCEPT !.role = r] EXCEPT !.op = "delete"]
  <2>1. h \in Requests /\ h.op = "delete" /\ h.role = r /\ ~ h.there
    BY IdleFits DEF Idle, Requests, Ops
  <2>2. h = [[Idle EXCEPT !.role = r] EXCEPT !.op = "delete"]
    BY DEF Idle
  <2> HIDE DEF h
  <2>3. QED
    BY <1>0, <2>1, <2>2 DEF Fits, Moves
<1>2. QED
  BY <1>1 DEF DeleteRole, Begins, Starts, Still, Moves, TypeOK, roles, people

LEMMA ReorderStarts ==
  ASSUME TypeOK, Shape, NEW p \in Task, NEW a \in Crew, NEW f \in Orders,
         Reorder(p, a, f)
  PROVE  LET h == [Idle EXCEPT !.seats = f, !.op = "reorder"]
         IN  Starts(p, h) /\ Still /\ UNCHANGED muddle
<1> DEFINE h == [Idle EXCEPT !.seats = f, !.op = "reorder"]
<1>0. f \in SeatMaps /\ (Everyone \in DOMAIN f => f[Everyone] = 0)
  BY SeatMapsHold DEF Reorder, TypeOK
<1>1. h \in Requests /\ Fits(h) /\ h = [[Idle EXCEPT !.seats = f] EXCEPT !.op = "reorder"]
  <2>1. h \in Requests /\ h.op = "reorder" /\ h.seats = f /\ ~ h.there
    BY <1>0, IdleFits DEF Idle, Requests, Ops
  <2>2. h = [[Idle EXCEPT !.seats = f] EXCEPT !.op = "reorder"]
    BY DEF Idle
  <2> HIDE DEF h
  <2>3. QED
    BY <1>0, <2>1, <2>2 DEF Fits, Moves
<1>2. QED
  BY <1>1 DEF Reorder, Begins, Starts, Still, Moves, TypeOK, roles, people

LEMMA AssignStarts ==
  ASSUME TypeOK, Shape, NEW p \in Task, NEW a \in Crew, NEW u \in User, NEW r \in Role,
         Assign(p, a, u, r)
  PROVE  LET h == [Idle EXCEPT !.user = u, !.role = r, !.there = TRUE, !.op = "assign"]
         IN  Starts(p, h) /\ Still /\ UNCHANGED muddle
<1> DEFINE h == [Idle EXCEPT !.user = u, !.role = r, !.there = TRUE, !.op = "assign"]
<1>0. r \in Role \ {Everyone} /\ u \in member
  BY DEF Assign, TypeOK
<1>1. h \in Requests /\ Fits(h) /\ h = [[Idle EXCEPT !.user = u, !.role = r, !.there = TRUE] EXCEPT !.op = "assign"]
  <2>1. h \in Requests /\ h.op = "assign" /\ h.role = r /\ h.user = u
    BY IdleFits DEF Idle, Requests, Ops
  <2>2. h = [[Idle EXCEPT !.user = u, !.role = r, !.there = TRUE] EXCEPT !.op = "assign"]
    BY DEF Idle
  <2> HIDE DEF h
  <2>3. QED
    BY <1>0, <2>1, <2>2 DEF Fits, Moves
<1>2. QED
  BY <1>1 DEF Assign, Begins, Starts, Still, Moves, TypeOK, roles, people

LEMMA UnassignStarts ==
  ASSUME TypeOK, Shape, NEW p \in Task, NEW a \in Crew, NEW u \in User, NEW r \in Role,
         Unassign(p, a, u, r)
  PROVE  LET h == [Idle EXCEPT !.user = u, !.role = r, !.there = TRUE, !.op = "unassign"]
         IN  Starts(p, h) /\ Still /\ UNCHANGED muddle
<1> DEFINE h == [Idle EXCEPT !.user = u, !.role = r, !.there = TRUE, !.op = "unassign"]
<1>0. r \in Role \ {Everyone} /\ u \in member
  BY DEF Unassign, TypeOK
<1>1. h \in Requests /\ Fits(h) /\ h = [[Idle EXCEPT !.user = u, !.role = r, !.there = TRUE] EXCEPT !.op = "unassign"]
  <2>1. h \in Requests /\ h.op = "unassign" /\ h.role = r /\ h.user = u
    BY IdleFits DEF Idle, Requests, Ops
  <2>2. h = [[Idle EXCEPT !.user = u, !.role = r, !.there = TRUE] EXCEPT !.op = "unassign"]
    BY DEF Idle
  <2> HIDE DEF h
  <2>3. QED
    BY <1>0, <2>1, <2>2 DEF Fits, Moves
<1>2. QED
  BY <1>1 DEF Unassign, Begins, Starts, Still, Moves, TypeOK, roles, people

-----------------------------------------------------------------------------
(* What the crew holds, and how high it stands.                             *)

LEMMA PermsHeld ==
  ASSUME TypeOK, Held, NEW u \in Crew
  PROVE  Perms(u) \subseteq Ceiling /\ "admin" \notin Perms(u)
<1>1. \A r \in worn[u] \union {Everyone} : grants[r] \subseteq Ceiling
  BY DEF Held
<1>2. Perms(u) \subseteq Ceiling
  BY <1>1 DEF Perms
<1>3. QED
  BY <1>2

\* A set of positions that is not empty has a highest one: the sets of those above one
\* of its members are finite, and the smallest of them is empty.
LEMMA HighestRank ==
  ASSUME NEW W \in SUBSET (0..MaxRank), W # {}
  PROVE  \E n \in W : \A k \in W : k <= n
<1> DEFINE Up(x) == {y \in W : y > x}
           Ups == {Up(x) : x \in W}
           Fin == FiniteSubsetsOf(0..MaxRank)
           Less == StrictSubsetOrdering(0..MaxRank)
<1>1. IsFiniteSet(0..MaxRank)
  BY FS_Interval
<1>2. IsWellFoundedOn(Less, Fin)
  BY FS_StrictSubsetOrderingWellFounded
<1>3. Ups \subseteq Fin /\ Ups # {}
  <2>1. \A x \in W : Up(x) \subseteq 0..MaxRank /\ IsFiniteSet(Up(x))
    BY <1>1, FS_Subset
  <2>2. \A x \in W : Up(x) \in Fin
    BY <2>1 DEF FiniteSubsetsOf
  <2> HIDE DEF Up, Fin
  <2>3. PICK x \in W : TRUE
    OBVIOUS
  <2>4. Up(x) \in Ups
    OBVIOUS
  <2>5. \A L \in Ups : L \in Fin
    BY <2>2
  <2>6. QED
    BY <2>4, <2>5
<1>4. PICK L \in Ups : \A M \in Ups : ~ (<<M, L>> \in Less)
  <2> HIDE DEF Less, Fin, Ups
  <2>1. QED
    BY <1>2, <1>3, WFMin
<1>5. PICK n \in W : L = Up(n)
  BY <1>4
<1>6. ASSUME NEW k \in W, ~(k <= n)
      PROVE  FALSE
  <2>0. MaxRank \in Int /\ W \subseteq Int /\ k \in Int /\ n \in Int /\ k > n
    BY <1>6
  <2>a. k \in Up(n) /\ k \notin Up(k)
    BY <2>0
  <2>b. \A y \in W : y > k => y > n
    BY <2>0
  <2>c. \A y : y \in Up(k) => y \in Up(n)
    BY <2>b
  <2>1. k \in Up(n) /\ k \notin Up(k) /\ Up(k) \subseteq Up(n)
    BY <2>a, <2>c
  <2>2. Up(k) \in Ups /\ Up(k) \subseteq Up(n) /\ Up(k) # Up(n)
    BY <2>1
  <2>3. <<Up(k), Up(n)>> \in Less
    BY <2>2 DEF StrictSubsetOrdering
  <2>4. QED
    BY <2>2, <2>3, <1>4, <1>5
<1>7. QED
  BY <1>6

\* highest_role_position is the position of a role the member wears, or 0.
LEMMA HeightIsWorn ==
  ASSUME TypeOK, NEW u \in User
  PROVE  /\ Height(u) \in 0..MaxRank
         /\ Height(u) = 0 \/ \E r \in worn[u] : rank[r] = Height(u)
<1> DEFINE W == {0} \union {rank[r] : r \in worn[u]}
           Top(n) == (n = 0 \/ \E r \in worn[u] : rank[r] = n) /\ \A r \in worn[u] : rank[r] <= n
<1>1. \A r \in worn[u] : r \in Role /\ rank[r] \in 0..MaxRank
  BY DEF TypeOK, Present
<1>2. W \in SUBSET (0..MaxRank) /\ W # {}
  BY <1>1
<1>3. PICK n \in W : \A k \in W : k <= n
  BY <1>2, HighestRank
<1>4. n \in 0..MaxRank /\ Top(n)
  BY <1>2, <1>3
<1>5. Height(u) = CHOOSE m \in 0..MaxRank : Top(m)
  BY DEF Height
<1>6. Height(u) \in 0..MaxRank /\ Top(Height(u))
  <2> HIDE DEF Top
  <2>1. QED
    BY <1>4, <1>5
<1>7. QED
  BY <1>6

\* Whatever one of the crew outranks stands below every role that was high at the start.
LEMMA HighIsAbove ==
  ASSUME TypeOK, Ordered, NEW a \in Crew, NEW t \in High
  PROVE  /\ Height(a) <= rank[t]
         /\ \A n \in 0..MaxRank : Above(a, n) => n <= rank[t] /\ n # rank[t]
<1>1. a \in User /\ t \in Role /\ rank[t] \in 0..MaxRank
  BY DEF High, Ordered, TypeOK, Present
<1>2. Height(a) \in 0..MaxRank /\ (Height(a) = 0 \/ \E r \in worn[a] : rank[r] = Height(a))
  BY <1>1, HeightIsWorn
<1>3. \A r \in worn[a] : rank[r] <= rank[t]
  BY DEF Ordered
<1>4. Height(a) <= rank[t]
  BY <1>1, <1>2, <1>3
<1>5. QED
  BY <1>1, <1>2, <1>4 DEF Above

-----------------------------------------------------------------------------
(* What a request that starts will write.                                   *)

LEMMA RoleRequestStarts ==
  ASSUME TypeOK, Shape, NEW p \in Task, NEW a \in Crew, RoleRequest(p, a)
  PROVE  \E h : /\ Starts(p, h) /\ Still /\ UNCHANGED muddle /\ h.op \notin Moves
                /\ Held => Checked(h)
                /\ Ordered => Bounded(h)
<1>0. Asked \subseteq Perm /\ \A r \in Role : grants[r] \subseteq Perm
  BY DEF TypeOK
<1>1. ASSUME NEW g \in SUBSET Asked, CreateRole(p, a, g)
      PROVE  \E h : /\ Starts(p, h) /\ Still /\ UNCHANGED muddle /\ h.op \notin Moves
                    /\ Held => Checked(h)
                    /\ Ordered => Bounded(h)
  <2> DEFINE h == [Idle EXCEPT !.give = g, !.op = "create"]
  <2>1. g \in SUBSET Perm
    BY <1>0
  <2>2. Starts(p, h) /\ Still /\ UNCHANGED muddle
    BY <1>1, <2>1, CreateStarts
  <2>3. h.op = "create" /\ h.give = g
    BY DEF Idle
  <2>4. Held => g \subseteq Ceiling
    BY <1>1, PermsHeld DEF CreateRole, MayChange
  <2> HIDE DEF h
  <2>5. (Held => Checked(h)) /\ (Ordered => Bounded(h)) /\ h.op \notin Moves
    BY <2>3, <2>4 DEF Checked, Bounded, Moves
  <2>6. QED
    BY <2>2, <2>5
<1>2. ASSUME NEW g \in SUBSET Asked, NEW r \in Role, EditRole(p, a, r, (grants[r] \ Asked) \union g)
      PROVE  \E h : /\ Starts(p, h) /\ Still /\ UNCHANGED muddle /\ h.op \notin Moves
                    /\ Held => Checked(h)
                    /\ Ordered => Bounded(h)
  <2> DEFINE w == (grants[r] \ Asked) \union g
             h == [Idle EXCEPT !.role = r, !.give = w, !.op = "edit"]
  <2>1. w \in SUBSET Perm
    BY <1>0
  <2>2. Starts(p, h) /\ Still /\ UNCHANGED muddle
    BY <1>2, <2>1, EditStarts
  <2>3. h.op = "edit" /\ h.give = w /\ h.role = r
    BY DEF Idle
  <2>4. Held => w \ Ceiling = grants[r] \ Ceiling
    BY <1>2, PermsHeld DEF EditRole, MayChange
  <2> HIDE DEF h
  <2>5. (Held => Checked(h)) /\ (Ordered => Bounded(h)) /\ h.op \notin Moves
    BY <2>3, <2>4 DEF Checked, Bounded, Moves
  <2>6. QED
    BY <2>2, <2>5
<1>3. ASSUME NEW r \in Role, DeleteRole(p, a, r)
      PROVE  \E h : /\ Starts(p, h) /\ Still /\ UNCHANGED muddle /\ h.op \notin Moves
                    /\ Held => Checked(h)
                    /\ Ordered => Bounded(h)
  <2> DEFINE h == [Idle EXCEPT !.role = r, !.op = "delete"]
  <2>2. Starts(p, h) /\ Still /\ UNCHANGED muddle
    BY <1>3, DeleteStarts
  <2>3. h.op = "delete" /\ h.role = r
    BY DEF Idle
  <2>4. Ordered => r \notin High
    BY <1>3, HighIsAbove DEF DeleteRole, TypeOK, Present
  <2> HIDE DEF h
  <2>5. (Held => Checked(h)) /\ (Ordered => Bounded(h)) /\ h.op \notin Moves
    BY <2>3, <2>4 DEF Checked, Bounded, Moves
  <2>6. QED
    BY <2>2, <2>5
<1>4. ASSUME NEW r \in Role, NEW n \in 1..MaxRank, MoveRole(p, a, r, n)
      PROVE  \E h : /\ Starts(p, h) /\ Still /\ UNCHANGED muddle /\ h.op \notin Moves
                    /\ Held => Checked(h)
                    /\ Ordered => Bounded(h)
  <2> DEFINE h == [Idle EXCEPT !.role = r, !.seat = n, !.op = "move"]
  <2>2. Starts(p, h) /\ Still /\ UNCHANGED muddle
    BY <1>4, MoveStarts
  <2>3. h.op = "move" /\ h.role = r /\ h.seat = n
    BY DEF Idle
  <2>4. Ordered => r \notin High
    BY <1>4, HighIsAbove DEF MoveRole, TypeOK, Present
  <2>5. Ordered => \A t \in High : n <= rank[t]
    BY <1>4, HighIsAbove DEF MoveRole
  <2> HIDE DEF h
  <2>6. (Held => Checked(h)) /\ (Ordered => Bounded(h)) /\ h.op \notin Moves
    BY <2>3, <2>4, <2>5 DEF Checked, Bounded, Moves
  <2>7. QED
    BY <2>2, <2>6
<1>5. ASSUME NEW r \in Role, NEW u \in User, Assign(p, a, u, r)
      PROVE  \E h : /\ Starts(p, h) /\ Still /\ UNCHANGED muddle /\ h.op \notin Moves
                    /\ Held => Checked(h)
                    /\ Ordered => Bounded(h)
  <2> DEFINE h == [Idle EXCEPT !.user = u, !.role = r, !.there = TRUE, !.op = "assign"]
  <2>2. Starts(p, h) /\ Still /\ UNCHANGED muddle
    BY <1>5, AssignStarts
  <2>3. h.op = "assign" /\ h.role = r
    BY DEF Idle
  <2>4. Ordered => r \notin High
    BY <1>5, HighIsAbove DEF Assign, TypeOK, Present
  <2>5. Held => grants[r] \subseteq Ceiling
    BY <1>5, PermsHeld DEF Assign, MayChange
  <2> HIDE DEF h
  <2>6. (Held => Checked(h)) /\ (Ordered => Bounded(h)) /\ h.op \notin Moves
    BY <2>3, <2>4, <2>5 DEF Checked, Bounded, Moves
  <2>7. QED
    BY <2>2, <2>6
<1>6. ASSUME NEW r \in Role, NEW u \in User, Unassign(p, a, u, r)
      PROVE  \E h : /\ Starts(p, h) /\ Still /\ UNCHANGED muddle /\ h.op \notin Moves
                    /\ Held => Checked(h)
                    /\ Ordered => Bounded(h)
  <2> DEFINE h == [Idle EXCEPT !.user = u, !.role = r, !.there = TRUE, !.op = "unassign"]
  <2>2. Starts(p, h) /\ Still /\ UNCHANGED muddle
    BY <1>6, UnassignStarts
  <2>3. h.op = "unassign"
    BY DEF Idle
  <2> HIDE DEF h
  <2>4. (Held => Checked(h)) /\ (Ordered => Bounded(h)) /\ h.op \notin Moves
    BY <2>3 DEF Checked, Bounded, Moves
  <2>5. QED
    BY <2>2, <2>4
<1>7. ASSUME NEW f \in Orders, Reorder(p, a, f)
      PROVE  \E h : /\ Starts(p, h) /\ Still /\ UNCHANGED muddle /\ h.op \notin Moves
                    /\ Held => Checked(h)
                    /\ Ordered => Bounded(h)
  <2> DEFINE h == [Idle EXCEPT !.seats = f, !.op = "reorder"]
  <2>1. f \in SeatMaps /\ DOMAIN f \subseteq Present /\ \A r \in DOMAIN f : f[r] \in 0..MaxRank
    BY SeatMapsHold DEF SeatMaps
  <2>2. Starts(p, h) /\ Still /\ UNCHANGED muddle
    BY <1>7, ReorderStarts
  <2>3. h.op = "reorder" /\ h.seats = f
    BY DEF Idle
  <2>4. ASSUME Ordered, NEW r \in DOMAIN f, NEW t \in High
        PROVE  (r \in High => f[r] = rank[r]) /\ (r \notin High => f[r] <= rank[t])
    <3>1. CASE f[r] = rank[r]
      BY <3>1, <2>1, <2>4 DEF Ordered, Within
    <3>2. CASE f[r] # rank[r]
      <4>1. Above(a, rank[r]) /\ Above(a, f[r]) /\ rank[r] \in 0..MaxRank
        BY <1>7, <2>1, <3>2 DEF Reorder, TypeOK, Present
      <4>2. r \notin High /\ f[r] <= rank[t]
        BY <4>1, <2>1, <2>4, HighIsAbove
      <4>3. QED
        BY <4>2
    <3>3. QED
      BY <3>1, <3>2
  <2>5. ASSUME Ordered, NEW r \in DOMAIN f, r \in High
        PROVE  f[r] = rank[r]
    BY <2>4, <2>5
  <2> HIDE DEF h
  <2>6. (Held => Checked(h)) /\ (Ordered => Bounded(h)) /\ h.op \notin Moves
    BY <2>3, <2>4, <2>5 DEF Checked, Bounded, Moves
  <2>7. QED
    BY <2>2, <2>6
<1>8. QED
  BY <1>1, <1>2, <1>3, <1>4, <1>5, <1>6, <1>7 DEF RoleRequest

-----------------------------------------------------------------------------
(* Requests about members.                                                  *)

\* A request about u starts while another one is at work on u.
Crossing(u) == IF \E q \in Task : run[q].op \in Moves /\ run[q].user = u THEN {u} ELSE {}

Crosses(u) == muddle' = [muddle EXCEPT !.users = @ \union Crossing(u)]

LEMMA MoveFits ==
  ASSUME NEW op \in Moves, NEW u \in User
  PROVE  LET h == [Idle EXCEPT !.user = u, !.op = op]
         IN  /\ h \in Requests /\ Fits(h) /\ h.op = op /\ h.user = u
             /\ Checked(h) /\ Bounded(h)
             /\ h = [[Idle EXCEPT !.user = u] EXCEPT !.op = op]
<1> DEFINE h == [Idle EXCEPT !.user = u, !.op = op]
<1>1. h.op = op /\ h.user = u /\ h.there = FALSE /\ op \notin {"create", "edit", "move", "delete", "reorder", "assign", "unassign"}
  BY DEF Idle, Moves
<1>2. h \in Requests
  BY IdleFits DEF Idle, Requests, Ops
<1>3. h = [[Idle EXCEPT !.user = u] EXCEPT !.op = op]
  BY DEF Idle
<1> HIDE DEF h
<1>4. Fits(h) /\ Checked(h) /\ Bounded(h)
  BY <1>1 DEF Fits, Checked, Bounded
<1>5. QED
  BY <1>1, <1>2, <1>3, <1>4 DEF h

LEMMA MoveBegins ==
  ASSUME TypeOK, Shape, NEW p \in Task, NEW op \in Moves, NEW u \in User,
         Begins(p, op, [Idle EXCEPT !.user = u])
  PROVE  \E h : Starts(p, h) /\ h.op = op /\ h.user = u /\ Checked(h) /\ Bounded(h) /\ Crosses(u)
<1> DEFINE h == [Idle EXCEPT !.user = u, !.op = op]
<1>1. h \in Requests /\ Fits(h) /\ h.op = op /\ h.user = u /\ Checked(h) /\ Bounded(h)
  BY MoveFits
<1>2. h = [[Idle EXCEPT !.user = u] EXCEPT !.op = op]
  BY MoveFits
<1>3. run[p].op = "idle" /\ run' = [run EXCEPT ![p] = h]
  BY <1>2 DEF Begins
<1>4. Crosses(u)
  BY DEF Begins, Crosses, Crossing, Idle
<1>5. QED
  BY <1>1, <1>3, <1>4 DEF Starts

\* The check of a request about members, and what it saw.
LEMMA MemberRequestStarts ==
  ASSUME TypeOK, Shape, NEW p \in Task, MemberRequest(p)
  PROVE  \E h, u : /\ u \in User
                   /\ Starts(p, h) /\ Checked(h) /\ Bounded(h) /\ Crosses(u) /\ Still
                   /\ h.op \in {"kick", "ban", "leave", "join"} /\ h.user = u
                   /\ h.op = "join" => u \notin member /\ u \notin banned
<1>0. Mover \subseteq User /\ {"kick", "ban", "leave", "join"} \subseteq Moves
  BY DEF Moves
<1>1. ASSUME NEW a \in Crew, NEW u \in Mover, Kick(p, a, u)
      PROVE  Begins(p, "kick", [Idle EXCEPT !.user = u]) /\ Still
  BY <1>1 DEF Kick, Still
<1>2. ASSUME NEW a \in Crew, NEW u \in Mover, Ban(p, a, u)
      PROVE  Begins(p, "ban", [Idle EXCEPT !.user = u]) /\ Still
  BY <1>2 DEF Ban, Still
<1>3. ASSUME NEW u \in Mover, Leave(p, u)
      PROVE  Begins(p, "leave", [Idle EXCEPT !.user = u]) /\ Still
  BY <1>3 DEF Leave, Still
<1>4. ASSUME NEW u \in Mover, Join(p, u)
      PROVE  Begins(p, "join", [Idle EXCEPT !.user = u]) /\ Still /\ u \notin member /\ u \notin banned
  BY <1>4 DEF Join, Still
<1>5. PICK u \in Mover, op \in {"kick", "ban", "leave", "join"} :
          /\ Begins(p, op, [Idle EXCEPT !.user = u]) /\ Still
          /\ op = "join" => u \notin member /\ u \notin banned
  BY <1>1, <1>2, <1>3, <1>4 DEF MemberRequest
<1>6. \E h : Starts(p, h) /\ h.op = op /\ h.user = u /\ Checked(h) /\ Bounded(h) /\ Crosses(u)
  BY <1>0, <1>5, MoveBegins
<1>7. QED
  BY <1>0, <1>5, <1>6

LEMMA ConnectStarts ==
  ASSUME TypeOK, Shape, NEW p \in Task, NEW u \in Mover, Connect(p, u)
  PROVE  /\ u \in User /\ u \notin online /\ online' = online \union {u}
         /\ UNCHANGED <<roles, worn, people, room>>
         /\ \/ u \notin member /\ UNCHANGED <<run, muddle>>
            \/ u \in member /\ \E h : /\ Starts(p, h) /\ Checked(h) /\ Bounded(h) /\ Crosses(u)
                                      /\ h.op = "connect" /\ h.user = u
<1>1. u \in User /\ "connect" \in Moves
  BY DEF Moves
<1>2. CASE u \in member
  <2>1. Begins(p, "connect", [Idle EXCEPT !.user = u])
    BY <1>2 DEF Connect
  <2>2. QED
    BY <1>1, <1>2, <2>1, MoveBegins DEF Connect
<1>3. CASE u \notin member
  BY <1>1, <1>3 DEF Connect
<1>4. QED
  BY <1>2, <1>3

-----------------------------------------------------------------------------
(* Types.                                                                   *)

LEMMA ShapeStarts ==
  ASSUME TypeOK, Shape, NEW p \in Task, NEW h, Starts(p, h), UNCHANGED member
  PROVE  /\ Shape' /\ run'[p] = h
         /\ \A q \in Task : q # p => run'[q] = run[q]
         /\ \A q \in Task : run'[q].give \subseteq Perm
<1>1. run' \in [Task -> Requests] /\ run'[p] = h /\ \A q \in Task : q # p => run'[q] = run[q]
  BY DEF Shape, Starts
<1>2. \A q \in Task : Fits(run[q])'
  BY <1>1 DEF Fits, Starts, Shape
<1>3. QED
  BY <1>1, <1>2 DEF Shape, Requests

LEMMA ShapeEnds ==
  ASSUME TypeOK, Shape, NEW p \in Task, Ends(p), member \subseteq member'
  PROVE  /\ Shape' /\ run'[p] = Idle
         /\ \A q \in Task : q # p => run'[q] = run[q]
         /\ \A q \in Task : run'[q].give \subseteq Perm
<1>1. run' \in [Task -> Requests] /\ run'[p] = Idle /\ \A q \in Task : q # p => run'[q] = run[q]
  BY IdleFits DEF Shape, Ends
<1>2. Idle.there = FALSE /\ Idle.op = "idle"
  BY DEF Idle
<1>3. Fits(run[p])'
  BY <1>1, <1>2 DEF Fits, Moves
<1>4. ASSUME NEW q \in Task, q # p
      PROVE  Fits(run[q])'
  BY <1>1, <1>4 DEF Fits, Shape
<1>5. QED
  BY <1>1, <1>3, <1>4 DEF Shape, Requests

\* Ids that are free: no role, and no request knows of them.
LEMMA FreshIsUnknown ==
  ASSUME TypeOK, Shape, NEW n \in Fresh
  PROVE  /\ n \in Role /\ n \notin Present /\ rank[n] = None /\ n # Everyone
         /\ \A q \in Task : run[q].role # n /\ n \notin DOMAIN run[q].seats
<1>1. Everyone \in Present
  BY DEF TypeOK, Present
<1>2. QED
  BY <1>1 DEF Fresh, Present

LEMMA Typed ==
  ASSUME TypeOK, Shape, [Next]_vars
  PROVE  TypeOK' /\ Shape'
<1> USE DEF roles, people
<1>a. muddle \in [users : SUBSET User, ranks : BOOLEAN]
  BY DEF TypeOK
<1>1. ASSUME NEW p \in Task, NEW a \in Crew, RoleRequest(p, a)
      PROVE  TypeOK' /\ Shape'
  <2>1. PICK h : Starts(p, h) /\ Still /\ UNCHANGED muddle
    BY <1>1, RoleRequestStarts
  <2>2. Shape' /\ \A q \in Task : run'[q].give \subseteq Perm
    BY <2>1, ShapeStarts DEF Still
  <2>3. QED
    BY <2>1, <2>2 DEF TypeOK, Still, Present
<1>2. ASSUME NEW p \in Task, MemberRequest(p)
      PROVE  TypeOK' /\ Shape'
  <2>1. PICK h, u : u \in User /\ Starts(p, h) /\ Crosses(u) /\ Still
    BY <1>2, MemberRequestStarts
  <2>2. Shape' /\ \A q \in Task : run'[q].give \subseteq Perm
    BY <2>1, ShapeStarts DEF Still
  <2>3. muddle' \in [users : SUBSET User, ranks : BOOLEAN]
    BY <1>a, <2>1 DEF Crosses, Crossing
  <2>4. QED
    BY <2>1, <2>2, <2>3 DEF TypeOK, Still, Present
<1>3. ASSUME NEW p \in Task, NEW u \in Mover, Connect(p, u)
      PROVE  TypeOK' /\ Shape'
  <2>1. u \in User /\ online' = online \union {u} /\ UNCHANGED <<roles, worn, people, room>>
    BY <1>3, ConnectStarts
  <2>2. CASE UNCHANGED <<run, muddle>>
    BY <2>1, <2>2 DEF TypeOK, Shape, Fits, Present
  <2>3. CASE \E h : Starts(p, h) /\ Crosses(u)
    <3>1. PICK h : Starts(p, h) /\ Crosses(u)
      BY <2>3
    <3>2. Shape' /\ \A q \in Task : run'[q].give \subseteq Perm
      BY <2>1, <3>1, ShapeStarts
    <3>3. muddle' \in [users : SUBSET User, ranks : BOOLEAN]
      BY <1>a, <2>1, <3>1 DEF Crosses, Crossing
    <3>4. QED
      BY <2>1, <3>2, <3>3 DEF TypeOK, Present
  <2>4. QED
    BY <1>3, <2>2, <2>3, ConnectStarts
<1>4. ASSUME NEW p \in Task, Creates(p)
      PROVE  TypeOK' /\ Shape'
  <2>1. Shape' /\ \A q \in Task : run'[q].give \subseteq Perm
    BY <1>4, ShapeEnds DEF Creates
  <2>2. PICK n \in Fresh :
          /\ rank' = [r \in Role |-> IF r = n THEN 1
                                     ELSE IF r \in Present /\ rank[r] >= 1 THEN rank[r] + 1
                                     ELSE rank[r]]
          /\ grants' = [grants EXCEPT ![n] = run[p].give]
    BY <1>4 DEF Creates
  <2>3. n \in Role /\ n \notin Present /\ n # Everyone
    BY FreshIsUnknown
  <2>4. Everyone \in Present /\ MaxRank \in Nat /\ 0 < MaxRank
    BY <1>4 DEF TypeOK, Present, Creates
  <2>5. \A r \in Role : rank'[r] \in 0..MaxRank \union {None}
    <3>1. \A r \in Present : rank[r] \in 0..MaxRank /\ rank[r] < MaxRank
      BY <1>4 DEF Creates, TypeOK, Present
    <3>2. \A r \in Role \ Present : rank[r] = None
      BY DEF Present
    <3>3. 1 \in 0..MaxRank /\ \A k \in 0..MaxRank : k < MaxRank => k + 1 \in 0..MaxRank
      BY <2>4
    <3>4. QED
      BY <2>2, <3>1, <3>2, <3>3
  <2>6. rank' \in [Role -> 0..MaxRank \union {None}] /\ rank'[Everyone] = 0
    BY <2>2, <2>3, <2>5 DEF TypeOK
  <2>7. Present \subseteq Present'
    <3>1. \A r \in Present : rank[r] \in 0..MaxRank
      BY DEF TypeOK, Present
    <3>2. \A k \in 0..MaxRank : k + 1 # None \/ k = MaxRank
      BY <2>4
    <3>3. \A r \in Present : rank'[r] # None
      BY <1>4, <2>2, <2>3, <2>4, <3>1, <3>2 DEF Creates, Present
    <3>4. QED
      BY <3>3 DEF Present
  <2>8. grants' \in [Role -> SUBSET Perm]
    BY <2>2, <2>3 DEF TypeOK
  <2>9. muddle' \in [users : SUBSET User, ranks : BOOLEAN]
    BY <1>a, <1>4 DEF Creates
  <2>10. worn' \in [User -> SUBSET (Present' \ {Everyone})]
    BY <1>4, <2>7 DEF Creates, TypeOK
  <2>11. QED
    BY <1>4, <2>1, <2>6, <2>8, <2>9, <2>10 DEF TypeOK, Creates
<1>5. ASSUME NEW p \in Task, Edits(p)
      PROVE  TypeOK' /\ Shape'
  <2>1. Shape' /\ \A q \in Task : run'[q].give \subseteq Perm
    BY <1>5, ShapeEnds DEF Edits
  <2>2. grants' \in [Role -> SUBSET Perm]
    BY <1>5 DEF Edits, TypeOK
  <2>3. QED
    BY <1>5, <2>1, <2>2 DEF Edits, TypeOK, Present
<1>6. ASSUME NEW p \in Task, Relocates(p)
      PROVE  TypeOK' /\ Shape'
  <2>1. Shape' /\ \A q \in Task : run'[q].give \subseteq Perm
    BY <1>6, ShapeEnds DEF Relocates
  <2>2. run[p].role # Everyone /\ run[p].seat \in 0..MaxRank
    BY <1>6 DEF Relocates, Shape, Fits, Requests
  <2>3. rank' \in [Role -> 0..MaxRank \union {None}] /\ rank'[Everyone] = 0
    BY <1>6, <2>2 DEF Relocates, TypeOK
  <2>4. Present' = Present
    BY <1>6, <2>2 DEF Relocates, TypeOK, Present
  <2>5. QED
    BY <1>6, <2>1, <2>3, <2>4 DEF Relocates, TypeOK
<1>7. ASSUME NEW p \in Task, Deletes(p)
      PROVE  TypeOK' /\ Shape'
  <2>1. Shape' /\ \A q \in Task : run'[q].give \subseteq Perm
    BY <1>7, ShapeEnds DEF Deletes
  <2>2. run[p].role \in Role /\ run[p].role # Everyone
    BY <1>7 DEF Deletes, Shape, Fits
  <2>3. /\ rank' \in [Role -> 0..MaxRank \union {None}] /\ rank'[Everyone] = 0
        /\ grants' \in [Role -> SUBSET Perm]
    BY <1>7, <2>2 DEF Deletes, TypeOK
  <2>4. Present' = Present \ {run[p].role}
    BY <1>7, <2>2 DEF Deletes, TypeOK, Present
  <2>5. worn' \in [User -> SUBSET (Present' \ {Everyone})] /\ \A u \in User \ member : worn'[u] = {}
    BY <1>7, <2>4 DEF Deletes, TypeOK
  <2>6. QED
    BY <1>7, <2>1, <2>3, <2>5 DEF Deletes, TypeOK
<1>8. ASSUME NEW p \in Task, Reorders(p)
      PROVE  TypeOK' /\ Shape'
  <2>1. Shape' /\ \A q \in Task : run'[q].give \subseteq Perm
    BY <1>8, ShapeEnds DEF Reorders
  <2>2. /\ \A r \in DOMAIN run[p].seats : run[p].seats[r] \in 0..MaxRank
        /\ Everyone \in DOMAIN run[p].seats => run[p].seats[Everyone] = 0
    BY <1>8 DEF Reorders, Shape, Fits, SeatMaps
  <2>3. rank' \in [Role -> 0..MaxRank \union {None}] /\ rank'[Everyone] = 0
    BY <1>8, <2>2 DEF Reorders, TypeOK
  <2>4. Present' = Present
    <3>1. \A r \in Role : rank'[r] # None <=> rank[r] # None
      BY <1>8, <2>2 DEF Reorders, Present
    <3>2. QED
      BY <3>1 DEF Present
  <2>5. QED
    BY <1>8, <2>1, <2>3, <2>4 DEF Reorders, TypeOK
<1>9. ASSUME NEW p \in Task, Assigns(p)
      PROVE  TypeOK' /\ Shape'
  <2>1. Shape' /\ \A q \in Task : run'[q].give \subseteq Perm
    BY <1>9, ShapeEnds DEF Assigns
  <2>2. run[p].user \in User /\ run[p].role # Everyone /\ (run[p].there => run[p].user \in member)
    BY <1>9 DEF Assigns, Shape, Fits
  <2>3. worn' \in [User -> SUBSET (Present \ {Everyone})] /\ \A u \in User \ member : worn'[u] = {}
    BY <1>9, <2>2 DEF Assigns, TypeOK
  <2>4. QED
    BY <1>9, <2>1, <2>3 DEF Assigns, TypeOK, Present
<1>10. ASSUME NEW p \in Task, Unassigns(p)
       PROVE  TypeOK' /\ Shape'
  <2>1. Shape' /\ \A q \in Task : run'[q].give \subseteq Perm
    BY <1>10, ShapeEnds DEF Unassigns
  <2>2. run[p].user \in User
    BY <1>10 DEF Unassigns, Shape, Fits
  <2>3. worn' \in [User -> SUBSET (Present \ {Everyone})] /\ \A u \in User \ member : worn'[u] = {}
    BY <1>10, <2>2 DEF Unassigns, TypeOK
  <2>4. QED
    BY <1>10, <2>1, <2>3 DEF Unassigns, TypeOK, Present
<1>11. ASSUME NEW p \in Task, Removes(p)
       PROVE  TypeOK' /\ Shape'
  <2> DEFINE u == run[p].user
             h == IF run[p].op = "leave" /\ u \notin member THEN Idle ELSE [run[p] EXCEPT !.op = "unroom"]
  <2>1. u \in User /\ run[p] \in Requests /\ run[p].there = FALSE
    BY <1>11 DEF Removes, Shape, Fits, Moves, Requests
  <2>2. h \in Requests /\ h.there = FALSE /\ h.op \in {"idle", "unroom"} /\ (h.op = "unroom" => h.user = u)
    BY <2>1, IdleFits DEF Idle, Requests, Ops, Moves
  <2>3. /\ member' = member \ {u} /\ worn' = [worn EXCEPT ![u] = {}]
        /\ run' = [WithoutRow(u) EXCEPT ![p] = h]
    BY <1>11 DEF Removes
  <2> HIDE DEF h
  <2>4. run'[p] = h
    BY <2>3 DEF WithoutRow
  <2>5. ASSUME NEW q \in Task, q # p
        PROVE  run'[q] = IF run[q].user = u THEN [run[q] EXCEPT !.there = FALSE] ELSE run[q]
    BY <2>3, <2>5 DEF WithoutRow
  <2>6. ASSUME NEW q \in Task
        PROVE  run'[q] \in Requests /\ Fits(run[q])'
    <3>1. CASE q = p
      BY <2>1, <2>2, <2>4, <3>1 DEF Fits, Moves
    <3>2. CASE q # p
      <4>1. run[q] \in Requests /\ Fits(run[q])
        BY DEF Shape
      <4>2. CASE run[q].user = u
        <5>1. run'[q] = [run[q] EXCEPT !.there = FALSE]
          BY <2>5, <3>2, <4>2
        <5>2. run'[q] \in Requests
          BY <4>1, <5>1 DEF Requests
        <5>3. /\ run'[q].op = run[q].op /\ run'[q].role = run[q].role /\ run'[q].user = run[q].user
              /\ run'[q].seat = run[q].seat /\ run'[q].seats = run[q].seats /\ run'[q].there = FALSE
          BY <4>1, <5>1 DEF Requests
        <5>4. Fits(run[q])'
          BY <4>1, <5>3 DEF Fits
        <5>5. QED
          BY <5>2, <5>4
      <4>3. CASE run[q].user # u
        <5>1. run'[q] = run[q]
          BY <2>5, <3>2, <4>3
        <5>2. run[q].user \in member => run[q].user \in member'
          BY <2>3, <4>3
        <5>3. QED
          BY <4>1, <5>1, <5>2 DEF Fits
      <4>4. QED
        BY <4>2, <4>3
    <3>3. QED
      BY <3>1, <3>2
  <2>7. run' \in [Task -> Requests]
    <3>1. DOMAIN run' = Task /\ run' = [q \in Task |-> run'[q]]
      BY <2>3 DEF WithoutRow
    <3>2. QED
      BY <2>6, <3>1
  <2>8. Shape' /\ \A q \in Task : run'[q].give \subseteq Perm
    BY <2>6, <2>7 DEF Shape, Requests
  <2>9. worn' \in [User -> SUBSET (Present \ {Everyone})] /\ \A v \in User \ member' : worn'[v] = {}
    BY <2>1, <2>3 DEF TypeOK
  <2>10. banned' \subseteq User
    BY <1>11, <2>1 DEF Removes, TypeOK
  <2>11. QED
    BY <1>11, <2>3, <2>8, <2>9, <2>10 DEF Removes, TypeOK, Present
<1>12. ASSUME NEW p \in Task, LeavesRoom(p) \/ EntersRoom(p) \/ ConnectEnters(p)
       PROVE  TypeOK' /\ Shape'
  <2>1. Ends(p) /\ UNCHANGED <<roles, worn, people, online, muddle>> /\ room' \subseteq online
    BY <1>12 DEF LeavesRoom, EntersRoom, ConnectEnters, TypeOK
  <2>2. Shape' /\ \A q \in Task : run'[q].give \subseteq Perm
    BY <2>1, ShapeEnds
  <2>3. QED
    BY <2>1, <2>2 DEF TypeOK, Present
<1>13. ASSUME NEW p \in Task, Inserts(p)
       PROVE  TypeOK' /\ Shape'
  <2>1. run[p].user \in User /\ run[p] \in Requests /\ run[p].op = "join" /\ run[p].there = FALSE
    BY <1>13 DEF Inserts, Shape, Fits, Moves, Requests
  <2>2. CASE run[p].user \in member
    <3>1. Ends(p) /\ UNCHANGED <<roles, worn, people, online, room, muddle>>
      BY <1>13, <2>2 DEF Inserts
    <3>2. Shape' /\ \A q \in Task : run'[q].give \subseteq Perm
      BY <3>1, ShapeEnds
    <3>3. QED
      BY <3>1, <3>2 DEF TypeOK, Present
  <2>3. CASE run[p].user \notin member
    <3>1. /\ member' = member \union {run[p].user} /\ run' = [run EXCEPT ![p].op = "room"]
          /\ UNCHANGED <<roles, worn, banned, online, room, muddle>>
      BY <1>13, <2>3 DEF Inserts
    <3>2. /\ run'[p] = [run[p] EXCEPT !.op = "room"] /\ \A q \in Task : q # p => run'[q] = run[q]
          /\ run' \in [Task -> Requests]
      BY <2>1, <3>1 DEF Shape, Requests, Ops, Moves
    <3>3. run'[p].op = "room" /\ run'[p].there = FALSE /\ run'[p].user \in User
      BY <2>1, <3>2 DEF Requests
    <3>4. Fits(run[p])'
      BY <3>3 DEF Fits
    <3>5. ASSUME NEW q \in Task, q # p
          PROVE  Fits(run[q])'
      BY <3>1, <3>2, <3>5 DEF Fits, Shape
    <3>6. Shape' /\ \A q \in Task : run'[q].give \subseteq Perm
      BY <3>2, <3>4, <3>5 DEF Shape, Requests
    <3>7. QED
      BY <2>1, <3>1, <3>6 DEF TypeOK, Present
  <2>4. QED
    BY <2>2, <2>3
<1>14. ASSUME NEW a \in Crew, NEW u \in Mover, Unban(a, u)
       PROVE  TypeOK' /\ Shape'
  BY <1>14 DEF Unban, TypeOK, Shape, Fits, Present
<1>15. ASSUME NEW u \in Mover, Disconnect(u)
       PROVE  TypeOK' /\ Shape'
  BY <1>15 DEF Disconnect, TypeOK, Shape, Fits, Present
<1>16. CASE UNCHANGED vars
  BY <1>16 DEF vars, TypeOK, Shape, Fits, Present
<1>17. QED
  BY <1>1, <1>2, <1>3, <1>4, <1>5, <1>6, <1>7, <1>8, <1>9, <1>10, <1>11, <1>12, <1>13,
     <1>14, <1>15, <1>16 DEF Next, Write

-----------------------------------------------------------------------------
(* What the crew can come to hold.                                          *)

\* A request that starts has been checked, and nothing else has changed.
LEMMA HeldStarts ==
  ASSUME TypeOK, Shape, Held, NEW p \in Task, NEW h, Starts(p, h), Checked(h),
         UNCHANGED <<roles, worn>>
  PROVE  Held'
<1>1. run'[p] = h /\ \A q \in Task : q # p => run'[q] = run[q]
  BY DEF Starts, Shape
<1>2. UNCHANGED <<rank, grants, worn>> /\ Present' = Present
  BY DEF roles, Present
<1>3. \A q \in Task : Checked(run[q])'
  BY <1>1, <1>2 DEF Checked, Held
<1>4. QED
  BY <1>2, <1>3 DEF Held

\* One that ends leaves those of the others, if the grants of their roles stay as they
\* are beyond the ceiling.
LEMMA CheckedEnds ==
  ASSUME TypeOK, Shape, Held, NEW p \in Task, Ends(p), member \subseteq member',
         \A q \in Task : run[q].op \in {"edit", "assign"} /\ run[q].role \in Present'
           => run[q].role \in Present /\ grants'[run[q].role] \ Ceiling = grants[run[q].role] \ Ceiling
  PROVE  \A q \in Task : Checked(run[q])'
<1>1. run'[p] = Idle /\ \A q \in Task : q # p => run'[q] = run[q]
  BY ShapeEnds
<1>2. Checked(run[p])'
  BY <1>1, IdleFits DEF Checked
<1>3. ASSUME NEW q \in Task, q # p
      PROVE  Checked(run[q])'
  <2>1. Checked(run[q])
    BY DEF Held
  <2>2. /\ run[q].op = "edit" /\ run[q].role \in Present'
              => run[q].give \ Ceiling = grants'[run[q].role] \ Ceiling
        /\ run[q].op = "assign" /\ run[q].role \in Present' => grants'[run[q].role] \subseteq Ceiling
    BY <2>1 DEF Checked
  <2>3. QED
    BY <1>1, <1>3, <2>1, <2>2 DEF Checked
<1>4. QED
  BY <1>2, <1>3

LEMMA HeldStays ==
  ASSUME TypeOK, Shape, Held, [Next]_vars
  PROVE  Held'
<1> USE DEF roles, people
<1>1. ASSUME NEW p \in Task, NEW a \in Crew, RoleRequest(p, a)
      PROVE  Held'
  BY <1>1, RoleRequestStarts, HeldStarts DEF Still
<1>2. ASSUME NEW p \in Task, MemberRequest(p)
      PROVE  Held'
  BY <1>2, MemberRequestStarts, HeldStarts DEF Still
<1>3. ASSUME NEW p \in Task, NEW u \in Mover, Connect(p, u)
      PROVE  Held'
  <2>1. UNCHANGED <<roles, worn, people, room>>
    BY <1>3, ConnectStarts
  <2>2. CASE UNCHANGED <<run, muddle>>
    BY <2>1, <2>2 DEF Held, Checked, Present
  <2>3. CASE \E h : Starts(p, h) /\ Checked(h)
    BY <2>1, <2>3, HeldStarts
  <2>4. QED
    BY <1>3, <2>2, <2>3, ConnectStarts
<1>4. ASSUME NEW p \in Task, Creates(p)
      PROVE  Held'
  <2>1. PICK n \in Fresh :
          /\ rank' = [r \in Role |-> IF r = n THEN 1
                                     ELSE IF r \in Present /\ rank[r] >= 1 THEN rank[r] + 1
                                     ELSE rank[r]]
          /\ grants' = [grants EXCEPT ![n] = run[p].give]
    BY <1>4 DEF Creates
  <2>2. /\ n \in Role /\ n \notin Present /\ n # Everyone
        /\ \A q \in Task : run[q].role # n /\ n \notin DOMAIN run[q].seats
    BY FreshIsUnknown
  <2>3. \A r \in Role : r # n => grants'[r] = grants[r] /\ (r \in Present' => r \in Present)
    BY <2>1, <2>2 DEF Present, TypeOK
  <2>4. \A q \in Task : Checked(run[q])'
    <3>1. ASSUME NEW q \in Task, run[q].role \in Present'
          PROVE  run[q].role \in Present /\ grants'[run[q].role] = grants[run[q].role]
      BY <2>2, <2>3, <3>1 DEF Present
    <3>2. QED
      BY <1>4, <3>1, CheckedEnds DEF Creates
  <2>5. worn' = worn /\ \A u \in User : n \notin worn[u] /\ worn[u] \subseteq Role
    BY <1>4, <2>2 DEF Creates, TypeOK, Present
  <2>6. grants'[Everyone] = grants[Everyone]
    BY <2>2, <2>3
  <2>7. \A u \in Crew : \A r \in worn'[u] : grants'[r] \subseteq Ceiling
    BY <2>3, <2>5 DEF Held
  <2>8. QED
    BY <2>4, <2>6, <2>7 DEF Held
<1>5. ASSUME NEW p \in Task, Edits(p)
      PROVE  Held'
  <2>1. /\ \A r \in Role : grants'[r] \ Ceiling = grants[r] \ Ceiling
        /\ UNCHANGED <<rank, worn, member>> /\ Present' = Present
    <3>1. UNCHANGED <<rank, worn, member>> /\ Present' = Present
      BY <1>5 DEF Edits, Present
    <3>2. Checked(run[p]) /\ run[p].role \in Role /\ run[p].op = "edit"
      BY <1>5 DEF Edits, Held, Shape, Fits
    <3>3. \A r \in Role : grants'[r] = grants[r] \/ (r = run[p].role /\ r \in Present /\ grants'[r] = run[p].give)
      BY <1>5, <3>2 DEF Edits, TypeOK
    <3>4. QED
      BY <3>1, <3>2, <3>3 DEF Checked
  <2>2. \A q \in Task : Checked(run[q])'
    BY <1>5, <2>1, CheckedEnds DEF Edits, Present
  <2>3. Everyone \in Role /\ \A u \in Crew : worn[u] \subseteq Role
    BY DEF TypeOK, Present
  <2>4. \A r \in Role : grants[r] \subseteq Ceiling => grants'[r] \subseteq Ceiling
    BY <2>1
  <2>5. QED
    BY <2>1, <2>2, <2>3, <2>4 DEF Held
<1>6. ASSUME NEW p \in Task, Relocates(p) \/ Reorders(p)
      PROVE  Held'
  <2>1. Ends(p) /\ UNCHANGED <<grants, worn, member>>
    BY <1>6 DEF Relocates, Reorders
  <2>2. \A r \in Role : rank[r] = None => rank'[r] = None
    BY <1>6 DEF Relocates, Reorders, TypeOK, Present
  <2>3. Present' \subseteq Present
    BY <2>2 DEF Present
  <2>4. \A q \in Task : Checked(run[q])'
    BY <2>1, <2>3, CheckedEnds
  <2>5. QED
    BY <2>1, <2>4 DEF Held
<1>7. ASSUME NEW p \in Task, Deletes(p)
      PROVE  Held'
  <2>1. run[p].role \in Role /\ run[p].role # Everyone
    BY <1>7 DEF Deletes, Shape, Fits
  <2>2. /\ Ends(p) /\ UNCHANGED member
        /\ \A r \in Role : r # run[p].role => grants'[r] = grants[r] /\ rank'[r] = rank[r]
        /\ grants'[run[p].role] = {} /\ rank'[run[p].role] = None
        /\ \A u \in User : worn'[u] \subseteq worn[u]
    BY <1>7, <2>1 DEF Deletes, TypeOK
  <2>3. \A r \in Present' : r \in Present /\ grants'[r] = grants[r]
    BY <2>2 DEF Present
  <2>4. \A q \in Task : Checked(run[q])'
    BY <2>2, <2>3, CheckedEnds
  <2>5. \A u \in Crew : u \in User /\ worn[u] \subseteq Role
    BY DEF TypeOK, Present
  <2>6. \A u \in Crew : \A r \in worn'[u] : grants'[r] \subseteq Ceiling
    BY <2>2, <2>5 DEF Held
  <2>7. QED
    BY <2>1, <2>2, <2>4, <2>6 DEF Held
<1>8. ASSUME NEW p \in Task, Assigns(p)
      PROVE  Held'
  <2>1. /\ Ends(p) /\ UNCHANGED <<rank, grants, member>> /\ Present' = Present
    BY <1>8 DEF Assigns, Present
  <2>2. \A q \in Task : Checked(run[q])'
    BY <2>1, CheckedEnds
  <2>3. Checked(run[p]) /\ run[p].op = "assign"
    BY <1>8 DEF Assigns, Held
  <2>4. ASSUME NEW u \in Crew, NEW r \in worn'[u]
        PROVE  r \in worn[u] \/ (r = run[p].role /\ r \in Present)
    BY <1>8, <2>4 DEF Assigns, TypeOK
  <2>5. QED
    BY <2>1, <2>2, <2>3, <2>4 DEF Held, Checked
<1>9. ASSUME NEW p \in Task, Unassigns(p)
      PROVE  Held'
  <2>1. /\ Ends(p) /\ UNCHANGED <<rank, grants, member>> /\ Present' = Present
    BY <1>9 DEF Unassigns, Present
  <2>2. \A q \in Task : Checked(run[q])'
    BY <2>1, CheckedEnds
  <2>3. \A u \in Crew : worn'[u] \subseteq worn[u]
    BY <1>9 DEF Unassigns, TypeOK
  <2>4. QED
    BY <2>1, <2>2, <2>3 DEF Held
<1>10. ASSUME NEW p \in Task, Removes(p)
       PROVE  Held'
  <2> DEFINE u == run[p].user
             h == IF run[p].op = "leave" /\ u \notin member THEN Idle ELSE [run[p] EXCEPT !.op = "unroom"]
  <2>1. UNCHANGED roles /\ Present' = Present /\ \A v \in User : worn'[v] \subseteq worn[v]
    BY <1>10 DEF Removes, TypeOK, Present
  <2>2. run[p] \in Requests /\ \A q \in Task : run[q] \in Requests
    BY DEF Shape
  <2>3. run'[p] = h /\ h.op \in {"idle", "unroom"}
    BY <1>10, <2>2, IdleFits DEF Removes, WithoutRow, Requests
  <2>4. ASSUME NEW q \in Task, q # p
        PROVE  run'[q].op = run[q].op /\ run'[q].role = run[q].role /\ run'[q].give = run[q].give
    <3>1. run'[q] = IF run[q].user = u THEN [run[q] EXCEPT !.there = FALSE] ELSE run[q]
      BY <1>10, <2>4 DEF Removes, WithoutRow
    <3>2. QED
      BY <2>2, <3>1 DEF Requests
  <2> HIDE DEF h
  <2>5. \A q \in Task : Checked(run[q])'
    <3>1. Checked(run[p])'
      BY <2>3 DEF Checked
    <3>2. ASSUME NEW q \in Task, q # p
          PROVE  Checked(run[q])'
      BY <2>1, <2>4, <3>2 DEF Checked, Held
    <3>3. QED
      BY <3>1, <3>2
  <2>6. QED
    BY <2>1, <2>5 DEF Held
<1>11. ASSUME NEW p \in Task, LeavesRoom(p) \/ EntersRoom(p) \/ ConnectEnters(p)
       PROVE  Held'
  <2>1. Ends(p) /\ UNCHANGED <<rank, grants, worn, member>> /\ Present' = Present
    BY <1>11 DEF LeavesRoom, EntersRoom, ConnectEnters, Present
  <2>2. \A q \in Task : Checked(run[q])'
    BY <2>1, CheckedEnds
  <2>3. QED
    BY <2>1, <2>2 DEF Held
<1>12. ASSUME NEW p \in Task, Inserts(p)
       PROVE  Held'
  <2>1. UNCHANGED <<rank, grants, worn>> /\ Present' = Present
    BY <1>12 DEF Inserts, Present
  <2>2. CASE run[p].user \in member
    <3>1. Ends(p) /\ UNCHANGED member
      BY <1>12, <2>2 DEF Inserts
    <3>2. \A q \in Task : Checked(run[q])'
      BY <2>1, <3>1, CheckedEnds
    <3>3. QED
      BY <2>1, <3>2 DEF Held
  <2>3. CASE run[p].user \notin member
    <3>1. run' = [run EXCEPT ![p].op = "room"]
      BY <1>12, <2>3 DEF Inserts
    <3>2. run'[p].op = "room" /\ \A q \in Task : q # p => run'[q] = run[q]
      BY <3>1 DEF Shape, Requests
    <3>3. \A q \in Task : Checked(run[q])'
      BY <2>1, <3>2 DEF Checked, Held
    <3>4. QED
      BY <2>1, <3>3 DEF Held
  <2>4. QED
    BY <2>2, <2>3
<1>13. ASSUME NEW a \in Crew, NEW u \in Mover, Unban(a, u)
       PROVE  Held'
  BY <1>13 DEF Unban, Held, Checked, Present
<1>14. ASSUME NEW u \in Mover, Disconnect(u)
       PROVE  Held'
  BY <1>14 DEF Disconnect, Held, Checked, Present
<1>15. CASE UNCHANGED vars
  BY <1>15 DEF vars, Held, Checked, Present
<1>16. QED
  BY <1>1, <1>2, <1>3, <1>4, <1>5, <1>6, <1>7, <1>8, <1>9, <1>10, <1>11, <1>12, <1>13,
     <1>14, <1>15 DEF Next, Write

-----------------------------------------------------------------------------
(* Whom the crew can come to outrank.                                       *)

LEMMA OrderedStarts ==
  ASSUME TypeOK, Shape, Ordered, NEW p \in Task, NEW h, Starts(p, h), Bounded(h),
         UNCHANGED <<roles, worn>>
  PROVE  Ordered'
<1>1. run'[p] = h /\ \A q \in Task : q # p => run'[q] = run[q]
  BY DEF Starts, Shape
<1>2. UNCHANGED <<rank, grants, worn>> /\ Present' = Present
  BY DEF roles, Present
<1>3. \A q \in Task : Bounded(run[q])'
  BY <1>1, <1>2 DEF Bounded, Ordered
<1>4. QED
  BY <1>2, <1>3 DEF Ordered, Within

LEMMA BoundedEnds ==
  ASSUME TypeOK, Shape, Ordered, NEW p \in Task, Ends(p), member \subseteq member',
         \A t \in High : rank'[t] = rank[t]
  PROVE  \A q \in Task : Bounded(run[q])'
<1>1. run'[p] = Idle /\ \A q \in Task : q # p => run'[q] = run[q]
  BY ShapeEnds
<1>2. Bounded(run[p])'
  BY <1>1, IdleFits DEF Bounded
<1>3. ASSUME NEW q \in Task, q # p
      PROVE  Bounded(run[q])'
  <2>1. Bounded(run[q])
    BY DEF Ordered
  <2>2. QED
    BY <1>1, <1>3, <2>1 DEF Bounded
<1>4. QED
  BY <1>2, <1>3

\* What does not touch the positions.
LEMMA OrderedEnds ==
  ASSUME TypeOK, Shape, Ordered, NEW p \in Task, Ends(p), member \subseteq member',
         UNCHANGED rank, \A u \in Crew : worn'[u] \subseteq Within
  PROVE  Ordered'
<1>1. \A q \in Task : Bounded(run[q])'
  BY BoundedEnds
<1>2. Present' = Present /\ Within' = Within
  BY DEF Present, Within
<1>3. QED
  BY <1>1, <1>2 DEF Ordered

LEMMA OrderedStays ==
  ASSUME TypeOK, Shape, Ordered, [Next]_vars
  PROVE  muddle'.ranks \/ Ordered'
<1> USE DEF roles, people
<1>0. \A t \in High : t \in Role /\ rank[t] \in 1..MaxRank
  BY DEF Ordered, TypeOK, Present
<1>1. ASSUME NEW p \in Task, NEW a \in Crew, RoleRequest(p, a)
      PROVE  Ordered'
  BY <1>1, RoleRequestStarts, OrderedStarts DEF Still
<1>2. ASSUME NEW p \in Task, MemberRequest(p)
      PROVE  Ordered'
  BY <1>2, MemberRequestStarts, OrderedStarts DEF Still
<1>3. ASSUME NEW p \in Task, NEW u \in Mover, Connect(p, u)
      PROVE  Ordered'
  <2>1. UNCHANGED <<roles, worn, people, room>>
    BY <1>3, ConnectStarts
  <2>2. CASE UNCHANGED <<run, muddle>>
    BY <2>1, <2>2 DEF Ordered, Bounded, Present, Within
  <2>3. CASE \E h : Starts(p, h) /\ Bounded(h)
    BY <2>1, <2>3, OrderedStarts
  <2>4. QED
    BY <1>3, <2>2, <2>3, ConnectStarts
<1>4. ASSUME NEW p \in Task, Creates(p), ~ muddle'.ranks
      PROVE  Ordered'
  <2>1. PICK n \in Fresh :
          rank' = [r \in Role |-> IF r = n THEN 1
                                  ELSE IF r \in Present /\ rank[r] >= 1 THEN rank[r] + 1
                                  ELSE rank[r]]
    BY <1>4 DEF Creates
  <2>2. n \in Role /\ n \notin Present /\ n \notin High
    BY FreshIsUnknown DEF Ordered
  <2>3. \A q \in Task : run[q].op # "reorder"
    BY <1>4 DEF Creates, TypeOK
  <2>4. \A t \in High : rank'[t] = rank[t] + 1
    BY <1>0, <2>1, <2>2 DEF Ordered
  <2>6. High \subseteq Present' /\ \A t \in High : rank'[t] # 0
    <3>0. \A t \in High : rank[t] < MaxRank
      BY <1>4 DEF Creates, Ordered
    <3>1. \A t \in High : rank'[t] \in 0..MaxRank
      BY <1>0, <2>4, <3>0
    <3>2. QED
      BY <1>0, <2>4, <3>1 DEF Present
  <2>7. Present' = Present \union {n}
    <3>1. \A r \in Role : r # n /\ r \notin Present => rank'[r] = None
      BY <2>1 DEF Present
    <3>2. \A r \in Present : rank[r] # MaxRank /\ rank[r] \in 0..MaxRank
      BY <1>4 DEF Creates, TypeOK, Present
    <3>3. \A r \in Present : rank'[r] \in 0..MaxRank
      BY <2>1, <2>2, <3>2 DEF Present
    <3>4. rank'[n] = 1 /\ 1 \in 0..MaxRank
      BY <1>4, <2>1, <2>2 DEF Creates, TypeOK, Present
    <3>5. QED
      BY <2>2, <3>1, <3>3, <3>4 DEF Present
  <2>8. Within' = Within \union {n}
    BY <2>2, <2>7 DEF Within
  <2>9. \A r \in Within' : \A t \in High : rank'[r] <= rank'[t]
    <3>1. \A t \in High : rank'[n] <= rank'[t]
      BY <1>0, <2>1, <2>2, <2>4
    <3>2. ASSUME NEW r \in Within, NEW t \in High
          PROVE  rank'[r] <= rank'[t]
      <4>1. r \in Role /\ rank[r] \in 0..MaxRank /\ r # n /\ rank[r] <= rank[t]
        BY <2>2 DEF Ordered, Within, Crowned, Present, TypeOK
      <4>2. rank'[r] \in {rank[r], rank[r] + 1}
        BY <2>1, <4>1
      <4>3. QED
        BY <1>0, <2>4, <4>1, <4>2
    <3>3. QED
      BY <2>8, <3>1, <3>2
  <2>10. \A q \in Task : Bounded(run[q])'
    <3>1. Ends(p) /\ UNCHANGED member
      BY <1>4 DEF Creates
    <3>2. run'[p] = Idle /\ \A q \in Task : q # p => run'[q] = run[q]
      BY <3>1, ShapeEnds
    <3>3. Bounded(run[p])'
      BY <3>2, IdleFits DEF Bounded
    <3>4. ASSUME NEW q \in Task, q # p
          PROVE  Bounded(run[q])'
      <4>1. Bounded(run[q]) /\ run[q].seat \in 0..MaxRank
        BY DEF Ordered, Shape, Requests
      <4>2. run[q].op = "move" => \A t \in High : run[q].seat <= rank'[t]
        BY <1>0, <2>4, <4>1 DEF Bounded
      <4>3. QED
        BY <2>3, <3>2, <3>4, <4>1, <4>2 DEF Bounded
    <3>5. QED
      BY <3>3, <3>4
  <2>11. \A u \in Crew : worn'[u] \subseteq Within'
    BY <1>4, <2>8 DEF Creates, Ordered
  <2>12. QED
    BY <2>6, <2>9, <2>10, <2>11 DEF Ordered
<1>5. ASSUME NEW p \in Task, Relocates(p)
      PROVE  Ordered'
  <2>1. /\ Ends(p) /\ UNCHANGED <<worn, member>>
        /\ run[p].op = "move" /\ run[p].role \in Role /\ run[p].seat \in 0..MaxRank /\ run[p].seat # None
    BY <1>5 DEF Relocates, Shape, Fits, Requests
  <2>2. run[p].role \notin High /\ \A t \in High : run[p].seat <= rank[t]
    BY <2>1 DEF Ordered, Bounded
  <2>3. /\ \A r \in Role : r # run[p].role => rank'[r] = rank[r]
        /\ rank'[run[p].role] = IF run[p].role \in Present THEN run[p].seat ELSE rank[run[p].role]
    BY <1>5, <2>1 DEF Relocates, TypeOK
  <2>4. \A t \in High : rank'[t] = rank[t]
    BY <1>0, <2>2, <2>3
  <2>5. Present' = Present /\ Within' = Within
    BY <2>1, <2>3 DEF Present, Within
  <2>6. \A r \in Within : r \in Role /\ r \in Present
    BY DEF Within, Crowned, Ordered, Present
  <2>7. \A r \in Within : \A t \in High : rank'[r] <= rank'[t]
    BY <2>2, <2>3, <2>4, <2>6 DEF Ordered
  <2>8. \A q \in Task : Bounded(run[q])'
    BY <2>1, <2>4, BoundedEnds
  <2>9. QED
    BY <2>1, <2>4, <2>5, <2>7, <2>8 DEF Ordered
<1>6. ASSUME NEW p \in Task, Deletes(p)
      PROVE  Ordered'
  <2>1. /\ Ends(p) /\ UNCHANGED member /\ run[p].op = "delete" /\ run[p].role \in Role
        /\ \A u \in User : worn'[u] = worn[u] \ {run[p].role}
    BY <1>6 DEF Deletes, Shape, Fits
  <2>2. run[p].role \notin High
    BY <2>1 DEF Ordered, Bounded
  <2>3. /\ \A r \in Role : r # run[p].role => rank'[r] = rank[r]
        /\ rank'[run[p].role] = None
    BY <1>6, <2>1 DEF Deletes, TypeOK
  <2>4. \A t \in High : rank'[t] = rank[t]
    BY <1>0, <2>2, <2>3
  <2>5. Present' = Present \ {run[p].role} /\ Within' = Within \ {run[p].role}
    BY <2>1, <2>2, <2>3 DEF Present, Within, Crowned
  <2>6. \A r \in Within : r \in Role
    BY DEF Within, Crowned, High, Present
  <2>7. \A r \in Within' : \A t \in High : rank'[r] <= rank'[t]
    BY <2>3, <2>4, <2>5, <2>6 DEF Ordered
  <2>8. \A q \in Task : Bounded(run[q])'
    BY <2>1, <2>4, BoundedEnds
  <2>9. \A u \in Crew : worn'[u] \subseteq Within'
    BY <2>1, <2>5 DEF Ordered
  <2>10. QED
    BY <2>2, <2>4, <2>5, <2>7, <2>8, <2>9 DEF Ordered
<1>7. ASSUME NEW p \in Task, Reorders(p)
      PROVE  Ordered'
  <2> DEFINE f == run[p].seats
  <2>1. /\ Ends(p) /\ UNCHANGED <<worn, member>> /\ run[p].op = "reorder"
        /\ \A r \in DOMAIN f : f[r] \in 0..MaxRank /\ f[r] # None
    BY <1>7 DEF Reorders, Shape, Fits, SeatMaps
  <2>2. \A r \in DOMAIN f : /\ r \in High => f[r] = rank[r]
                            /\ r \notin High => \A t \in High : f[r] <= rank[t]
    BY <2>1 DEF Ordered, Bounded
  <2>3. \A r \in Role : rank'[r] = IF r \in Present /\ r \in DOMAIN f THEN f[r] ELSE rank[r]
    BY <1>7 DEF Reorders
  <2> HIDE DEF f
  <2>4. \A t \in High : rank'[t] = rank[t]
    BY <1>0, <2>2, <2>3
  <2>5. Present' = Present
    BY <2>1, <2>3 DEF Present
  <2>6. Within' = Within
    BY <2>5 DEF Within
  <2>7. \A r \in Within : r \in Role
    BY DEF Within, Crowned, High, Present
  <2>8. ASSUME NEW r \in Within, NEW t \in High
        PROVE  rank'[r] <= rank'[t]
    <3>1. rank[r] <= rank[t]
      BY DEF Ordered
    <3>2. CASE r \in High
      BY <2>4, <3>1, <3>2
    <3>3. CASE r \notin High
      BY <2>2, <2>3, <2>4, <2>7, <3>1, <3>3
    <3>4. QED
      BY <3>2, <3>3
  <2>9. \A q \in Task : Bounded(run[q])'
    BY <2>1, <2>4, BoundedEnds
  <2>10. QED
    BY <2>1, <2>4, <2>5, <2>6, <2>8, <2>9 DEF Ordered
<1>8. ASSUME NEW p \in Task, Edits(p) \/ LeavesRoom(p) \/ EntersRoom(p) \/ ConnectEnters(p)
      PROVE  Ordered'
  <2>1. Ends(p) /\ UNCHANGED <<rank, worn, member>>
    BY <1>8 DEF Edits, LeavesRoom, EntersRoom, ConnectEnters
  <2>2. QED
    BY <2>1, OrderedEnds DEF Ordered
<1>9. ASSUME NEW p \in Task, Assigns(p)
      PROVE  Ordered'
  <2>1. Ends(p) /\ UNCHANGED <<rank, member>>
    BY <1>9 DEF Assigns
  <2>2. run[p].op = "assign" /\ Bounded(run[p])
    BY <1>9 DEF Assigns, Ordered
  <2>3. \A u \in Crew : \A r \in worn'[u] : r \in worn[u] \/ (r = run[p].role /\ r \in Present)
    BY <1>9 DEF Assigns, TypeOK
  <2>4. \A u \in Crew : worn'[u] \subseteq Within
    BY <2>2, <2>3 DEF Ordered, Bounded, Within
  <2>5. QED
    BY <2>1, <2>4, OrderedEnds
<1>10. ASSUME NEW p \in Task, Unassigns(p)
       PROVE  Ordered'
  <2>1. Ends(p) /\ UNCHANGED <<rank, member>> /\ \A u \in Crew : worn'[u] \subseteq worn[u]
    BY <1>10 DEF Unassigns, TypeOK
  <2>2. QED
    BY <2>1, OrderedEnds DEF Ordered
<1>11. ASSUME NEW p \in Task, Removes(p)
       PROVE  Ordered'
  <2> DEFINE u == run[p].user
             h == IF run[p].op = "leave" /\ u \notin member THEN Idle ELSE [run[p] EXCEPT !.op = "unroom"]
  <2>1. UNCHANGED rank /\ Present' = Present /\ \A v \in User : worn'[v] \subseteq worn[v]
    BY <1>11 DEF Removes, TypeOK, Present
  <2>2. run[p] \in Requests /\ \A q \in Task : run[q] \in Requests
    BY DEF Shape
  <2>3. run'[p] = h /\ h.op \in {"idle", "unroom"}
    BY <1>11, <2>2, IdleFits DEF Removes, WithoutRow, Requests
  <2>4. ASSUME NEW q \in Task, q # p
        PROVE  /\ run'[q].op = run[q].op /\ run'[q].role = run[q].role
               /\ run'[q].seat = run[q].seat /\ run'[q].seats = run[q].seats
    <3>1. run'[q] = IF run[q].user = u THEN [run[q] EXCEPT !.there = FALSE] ELSE run[q]
      BY <1>11, <2>4 DEF Removes, WithoutRow
    <3>2. QED
      BY <2>2, <3>1 DEF Requests
  <2> HIDE DEF h
  <2>5. \A q \in Task : Bounded(run[q])'
    <3>1. Bounded(run[p])'
      BY <2>3 DEF Bounded
    <3>2. ASSUME NEW q \in Task, q # p
          PROVE  Bounded(run[q])'
      BY <2>1, <2>4, <3>2 DEF Bounded, Ordered
    <3>3. QED
      BY <3>1, <3>2
  <2>6. QED
    BY <2>1, <2>5 DEF Ordered, Within
<1>12. ASSUME NEW p \in Task, Inserts(p)
       PROVE  Ordered'
  <2>1. UNCHANGED <<rank, worn>> /\ Present' = Present
    BY <1>12 DEF Inserts, Present
  <2>2. CASE run[p].user \in member
    <3>1. Ends(p) /\ UNCHANGED member
      BY <1>12, <2>2 DEF Inserts
    <3>2. QED
      BY <2>1, <3>1, OrderedEnds DEF Ordered
  <2>3. CASE run[p].user \notin member
    <3>1. run' = [run EXCEPT ![p].op = "room"]
      BY <1>12, <2>3 DEF Inserts
    <3>2. run'[p].op = "room" /\ \A q \in Task : q # p => run'[q] = run[q]
      BY <3>1 DEF Shape, Requests
    <3>3. \A q \in Task : Bounded(run[q])'
      BY <2>1, <3>2 DEF Bounded, Ordered
    <3>4. QED
      BY <2>1, <3>3 DEF Ordered, Within
  <2>4. QED
    BY <2>2, <2>3
<1>13. ASSUME NEW a \in Crew, NEW u \in Mover, Unban(a, u)
       PROVE  Ordered'
  BY <1>13 DEF Unban, Ordered, Bounded, Present, Within
<1>14. ASSUME NEW u \in Mover, Disconnect(u)
       PROVE  Ordered'
  BY <1>14 DEF Disconnect, Ordered, Bounded, Present, Within
<1>15. CASE UNCHANGED vars
  BY <1>15 DEF vars, Ordered, Bounded, Present, Within
<1>16. QED
  BY <1>1, <1>2, <1>3, <1>4, <1>5, <1>6, <1>7, <1>8, <1>9, <1>10, <1>11, <1>12, <1>13,
     <1>14, <1>15 DEF Next, Write

\* That a role was created while a reordering was under way is not forgotten.
LEMMA MuddleLasts ==
  ASSUME TypeOK, Shape, [Next]_vars
  PROVE  (muddle.ranks => muddle'.ranks) /\ muddle.users \subseteq muddle'.users
<1>0. muddle \in [users : SUBSET User, ranks : BOOLEAN]
  BY DEF TypeOK
<1>1. ASSUME NEW p \in Task, NEW a \in Crew, RoleRequest(p, a)
      PROVE  UNCHANGED muddle
  BY <1>1, RoleRequestStarts
<1>2. ASSUME NEW u, Crosses(u)
      PROVE  muddle.ranks = muddle'.ranks /\ muddle.users \subseteq muddle'.users
  BY <1>0, <1>2 DEF Crosses
<1>3. ASSUME NEW p \in Task, MemberRequest(p)
      PROVE  muddle.ranks = muddle'.ranks /\ muddle.users \subseteq muddle'.users
  BY <1>2, <1>3, MemberRequestStarts
<1>4. ASSUME NEW p \in Task, NEW u \in Mover, Connect(p, u)
      PROVE  muddle.ranks = muddle'.ranks /\ muddle.users \subseteq muddle'.users
  BY <1>2, <1>4, ConnectStarts
<1>5. ASSUME NEW p \in Task, Write(p)
      PROVE  (muddle.ranks => muddle'.ranks) /\ muddle.users \subseteq muddle'.users
  BY <1>0, <1>5 DEF Write, Creates, Edits, Relocates, Deletes, Reorders, Assigns, Unassigns,
        Removes, LeavesRoom, Inserts, EntersRoom, ConnectEnters
<1>6. QED
  BY <1>0, <1>1, <1>3, <1>4, <1>5 DEF Next, Unban, Disconnect, vars

-----------------------------------------------------------------------------
(* Members, bans and the room.                                              *)

LEMMA IdleIsNoMove == Idle.op \notin Moves /\ "unroom" \in Moves
BY DEF Idle, Moves

\* What leaves u and the requests about u alone.
LEMMA PlacedElsewhere ==
  ASSUME NEW u \in User, Placed(u), UNCHANGED online,
         u \in member' <=> u \in member, u \in room' <=> u \in room,
         u \in banned' => u \in banned,
         Going(u)' = Going(u), \A q \in Going(u) : run'[q].op = run[q].op
  PROVE  Placed(u)'
BY DEF Placed, Agrees

\* The only request about u takes its step.
LEMMA PlacedStep ==
  ASSUME NEW u \in User, NEW p \in Task, Going(u)' \subseteq {p},
         Going(u)' = {} => Agrees(u)',
         run'[p].op \notin {"kick", "ban", "leave", "join"},
         p \in Going(u)' /\ run'[p].op \in {"room", "connect"} => u \in member' /\ u \notin banned',
         p \in Going(u)' /\ run'[p].op = "unroom" => u \notin member'
  PROVE  Placed(u)'
BY DEF Placed

\* A request about u starts, and no other was at work on u.
LEMMA PlacedStarts ==
  ASSUME TypeOK, Shape, NEW u \in User \ muddle'.users, Placed(u),
         NEW p \in Task, NEW h, Starts(p, h), Crosses(u), h.op \in Moves, h.user = u
  PROVE  Going(u) = {} /\ Going(u)' = {p} /\ run'[p] = h /\ Agrees(u)
<1>1. run'[p] = h /\ \A q \in Task : q # p => run'[q] = run[q]
  BY DEF Starts, Shape
<1>2. Going(u) = {}
  BY DEF Crosses, Crossing, Going, TypeOK
<1>3. Going(u)' = {p}
  BY <1>1, <1>2 DEF Going
<1>4. QED
  BY <1>1, <1>2, <1>3 DEF Placed

\* A request that is not about u changes.
LEMMA GoingElsewhere ==
  ASSUME Shape, NEW u \in User, NEW p \in Task,
         \A q \in Task : q # p => run'[q].op = run[q].op /\ run'[q].user = run[q].user,
         ~ (run[p].op \in Moves /\ run[p].user = u),
         ~ (run'[p].op \in Moves /\ run'[p].user = u)
  PROVE  Going(u)' = Going(u) /\ \A q \in Going(u) : run'[q].op = run[q].op
BY DEF Going

LEMMA PlacedStays ==
  ASSUME TypeOK, Shape, [Next]_vars, NEW u \in User, u \notin muddle'.users, Placed(u)
  PROVE  Placed(u)'
<1> USE DEF roles, people
<1>1. ASSUME NEW p \in Task, NEW a \in Crew, RoleRequest(p, a)
      PROVE  Placed(u)'
  <2>1. PICK h : Starts(p, h) /\ Still /\ h.op \notin Moves
    BY <1>1, RoleRequestStarts
  <2>2. run'[p] = h /\ run[p].op = "idle" /\ \A q \in Task : q # p => run'[q] = run[q]
    BY <2>1 DEF Starts, Shape
  <2>3. Going(u)' = Going(u) /\ \A q \in Going(u) : run'[q].op = run[q].op
    BY <2>1, <2>2, GoingElsewhere DEF Moves
  <2>4. QED
    BY <2>1, <2>3, PlacedElsewhere DEF Still
<1>2. ASSUME NEW p \in Task, MemberRequest(p)
      PROVE  Placed(u)'
  <2>1. PICK h, v : /\ v \in User /\ Starts(p, h) /\ Crosses(v) /\ Still
                    /\ h.op \in {"kick", "ban", "leave", "join"} /\ h.user = v
                    /\ h.op = "join" => v \notin member /\ v \notin banned
    BY <1>2, MemberRequestStarts
  <2>2. run'[p] = h /\ run[p].op = "idle" /\ \A q \in Task : q # p => run'[q] = run[q]
    BY <2>1 DEF Starts, Shape
  <2>3. CASE v # u
    <3>1. Going(u)' = Going(u) /\ \A q \in Going(u) : run'[q].op = run[q].op
      BY <2>1, <2>2, <2>3, GoingElsewhere DEF Moves
    <3>2. QED
      BY <2>1, <3>1, PlacedElsewhere DEF Still
  <2>4. CASE v = u
    <3>1. h.op \in Moves
      BY <2>1 DEF Moves
    <3>2. Going(u)' = {p} /\ Agrees(u)
      BY <2>1, <2>4, <3>1, PlacedStarts
    <3>3. Agrees(u)'
      BY <2>1, <3>2 DEF Agrees, Still
    <3>4. QED
      BY <2>1, <2>2, <2>4, <3>2, <3>3 DEF Placed, Still
  <2>5. QED
    BY <2>3, <2>4
<1>3. ASSUME NEW p \in Task, NEW v \in Mover, Connect(p, v)
      PROVE  Placed(u)'
  <2>1. v \in User /\ v \notin online /\ online' = online \union {v} /\ UNCHANGED <<member, banned, room>>
    BY <1>3, ConnectStarts
  <2>2. v \notin room
    BY <2>1 DEF TypeOK
  <2>3. CASE v \notin member /\ UNCHANGED <<run, muddle>>
    <3>1. Going(u)' = Going(u)
      BY <2>3 DEF Going
    <3>2. Agrees(u) => Agrees(u)'
      BY <2>1, <2>2, <2>3 DEF Agrees
    <3>3. QED
      BY <2>1, <2>3, <3>1, <3>2 DEF Placed
  <2>4. CASE v \in member /\ \E h : Starts(p, h) /\ Crosses(v) /\ h.op = "connect" /\ h.user = v
    <3>1. PICK h : Starts(p, h) /\ Crosses(v) /\ h.op = "connect" /\ h.user = v
      BY <2>4
    <3>2. run'[p] = h /\ run[p].op = "idle" /\ \A q \in Task : q # p => run'[q] = run[q]
      BY <3>1 DEF Starts, Shape
    <3>3. CASE v # u
      <4>1. Going(u)' = Going(u) /\ \A q \in Going(u) : run'[q].op = run[q].op
        BY <3>1, <3>2, <3>3, GoingElsewhere DEF Moves
      <4>2. Agrees(u) => Agrees(u)'
        BY <2>1, <3>3 DEF Agrees
      <4>3. QED
        BY <2>1, <4>1, <4>2 DEF Placed
    <3>4. CASE v = u
      <4>1. "connect" \in Moves
        BY DEF Moves
      <4>2. Going(u)' = {p} /\ Agrees(u)
        BY <3>1, <3>4, <4>1, PlacedStarts
      <4>3. u \in member' /\ u \notin banned'
        BY <2>1, <2>4, <3>4, <4>2 DEF Agrees
      <4>4. QED
        BY <3>1, <3>2, <4>2, <4>3, PlacedStep
    <3>5. QED
      BY <3>3, <3>4
  <2>5. QED
    BY <1>3, <2>3, <2>4, ConnectStarts
<1>4. ASSUME NEW p \in Task,
             \/ Creates(p) \/ Edits(p) \/ Relocates(p) \/ Deletes(p) \/ Reorders(p)
             \/ Assigns(p) \/ Unassigns(p)
      PROVE  Placed(u)'
  <2>1. Ends(p) /\ UNCHANGED <<member, banned, online, room>> /\ run[p].op \notin Moves
    BY <1>4 DEF Creates, Edits, Relocates, Deletes, Reorders, Assigns, Unassigns, Moves
  <2>2. run'[p] = Idle /\ \A q \in Task : q # p => run'[q] = run[q]
    BY <2>1, ShapeEnds
  <2>3. Going(u)' = Going(u) /\ \A q \in Going(u) : run'[q].op = run[q].op
    BY <2>1, <2>2, GoingElsewhere, IdleIsNoMove
  <2>4. QED
    BY <2>1, <2>3, PlacedElsewhere
<1>5. ASSUME NEW p \in Task, Removes(p)
      PROVE  Placed(u)'
  <2> DEFINE v == run[p].user
             h == IF run[p].op = "leave" /\ v \notin member THEN Idle ELSE [run[p] EXCEPT !.op = "unroom"]
  <2>1. /\ run[p].op \in {"kick", "ban", "leave"} /\ member' = member \ {v}
        /\ banned' = IF run[p].op = "ban" THEN banned \union {v} ELSE banned
        /\ UNCHANGED <<online, room>> /\ run' = [WithoutRow(v) EXCEPT ![p] = h]
    BY <1>5 DEF Removes
  <2>2. run[p] \in Requests /\ \A q \in Task : run[q] \in Requests
    BY DEF Shape
  <2>3. run'[p] = h
    BY <2>1 DEF WithoutRow
  <2>4. \/ h = Idle /\ run[p].op = "leave" /\ v \notin member
        \/ h.op = "unroom" /\ h.user = v
    BY <2>2 DEF Requests
  <2>5. ASSUME NEW q \in Task, q # p
        PROVE  run'[q].op = run[q].op /\ run'[q].user = run[q].user
    <3>1. run'[q] = IF run[q].user = v THEN [run[q] EXCEPT !.there = FALSE] ELSE run[q]
      BY <2>1, <2>5 DEF WithoutRow
    <3>2. QED
      BY <2>2, <3>1 DEF Requests
  <2> HIDE DEF h
  <2>6. CASE v # u
    <3>1. Going(u)' = Going(u) /\ \A q \in Going(u) : run'[q].op = run[q].op
      BY <2>3, <2>4, <2>5, <2>6, GoingElsewhere, IdleIsNoMove
    <3>2. QED
      BY <2>1, <2>6, <3>1, PlacedElsewhere
  <2>7. CASE v = u
    <3>1. p \in Going(u)
      BY <2>1, <2>7 DEF Going, Moves
    <3>2. Going(u) = {p} /\ Agrees(u)
      BY <2>1, <3>1 DEF Placed
    <3>3. Going(u)' \subseteq {p}
      BY <2>5, <3>2 DEF Going
    <3>4. Going(u)' = {} => Agrees(u)'
      <4>1. Going(u)' = {} => h = Idle
        BY <2>3, <2>4, <2>7, IdleIsNoMove DEF Going
      <4>2. h = Idle => Agrees(u)'
        BY <2>1, <2>4, <2>7, <3>2, IdleIsNoMove DEF Agrees, Moves
      <4>3. QED
        BY <4>1, <4>2
    <3>5. h.op \in {"idle", "unroom"} /\ u \notin member'
      BY <2>1, <2>4, <2>7, IdleFits
    <3>6. QED
      BY <2>3, <3>3, <3>4, <3>5, PlacedStep
  <2>8. QED
    BY <2>6, <2>7
<1>6. ASSUME NEW p \in Task, LeavesRoom(p) \/ EntersRoom(p) \/ ConnectEnters(p)
      PROVE  Placed(u)'
  <2> DEFINE v == run[p].user
  <2>1. Ends(p) /\ UNCHANGED <<member, banned, online>> /\ run[p].op \in Moves
    BY <1>6 DEF LeavesRoom, EntersRoom, ConnectEnters, Moves
  <2>2. run'[p] = Idle /\ \A q \in Task : q # p => run'[q] = run[q]
    BY <2>1, ShapeEnds
  <2>3. \/ run[p].op = "unroom" /\ room' = room \ {v}
        \/ run[p].op \in {"room", "connect"} /\ room' = room \union ({v} \intersect online)
    BY <1>6 DEF LeavesRoom, EntersRoom, ConnectEnters
  <2>4. CASE v # u
    <3>1. Going(u)' = Going(u) /\ \A q \in Going(u) : run'[q].op = run[q].op
      BY <2>2, <2>4, GoingElsewhere, IdleIsNoMove
    <3>2. u \in room' <=> u \in room
      BY <2>3, <2>4
    <3>3. QED
      BY <2>1, <3>1, <3>2, PlacedElsewhere
  <2>5. CASE v = u
    <3>1. Going(u) = {p}
      BY <2>1, <2>5 DEF Placed, Going
    <3>2. Going(u)' = {}
      BY <2>2, <3>1, IdleIsNoMove DEF Going
    <3>3. room \subseteq online
      BY DEF TypeOK
    <3>4. Agrees(u)'
      <4>1. CASE run[p].op = "unroom" /\ room' = room \ {v}
        BY <2>1, <2>5, <3>1, <4>1 DEF Placed, Agrees
      <4>2. CASE run[p].op \in {"room", "connect"} /\ room' = room \union ({v} \intersect online)
        BY <2>1, <2>5, <3>1, <3>3, <4>2 DEF Placed, Agrees
      <4>3. QED
        BY <2>3, <4>1, <4>2
    <3>5. QED
      BY <3>2, <3>4 DEF Placed
  <2>6. QED
    BY <2>4, <2>5
<1>7. ASSUME NEW p \in Task, Inserts(p)
      PROVE  Placed(u)'
  <2> DEFINE v == run[p].user
  <2>1. run[p].op = "join" /\ run[p] \in Requests /\ UNCHANGED <<banned, online, room>>
    BY <1>7 DEF Inserts, Shape
  <2>2. \/ v \in member /\ Ends(p) /\ UNCHANGED member
        \/ /\ v \notin member /\ member' = member \union {v}
           /\ run' = [run EXCEPT ![p].op = "room"]
    BY <1>7 DEF Inserts
  <2>3. /\ \A q \in Task : q # p => run'[q] = run[q]
        /\ \/ v \in member /\ run'[p] = Idle /\ UNCHANGED member
           \/ /\ v \notin member /\ member' = member \union {v}
              /\ run'[p].op = "room" /\ run'[p].user = v
    <3>1. CASE v \in member /\ Ends(p) /\ UNCHANGED member
      BY <3>1, ShapeEnds
    <3>2. CASE v \notin member /\ member' = member \union {v} /\ run' = [run EXCEPT ![p].op = "room"]
      BY <2>1, <3>2 DEF Shape, Requests
    <3>3. QED
      BY <2>2, <3>1, <3>2
  <2>4. CASE v # u
    <3>1. Going(u)' = Going(u) /\ \A q \in Going(u) : run'[q].op = run[q].op
      BY <2>3, <2>4, GoingElsewhere, IdleIsNoMove
    <3>2. QED
      BY <2>1, <2>3, <2>4, <3>1, PlacedElsewhere
  <2>5. CASE v = u
    <3>1. Going(u) = {p} /\ Agrees(u) /\ u \notin member /\ u \notin banned
      BY <2>1, <2>5 DEF Placed, Going, Moves
    <3>2. run'[p].op = "room" /\ run'[p].user = u /\ member' = member \union {u}
      BY <2>3, <2>5, <3>1
    <3>3. Going(u)' = {p}
      BY <2>3, <3>1, <3>2 DEF Going, Moves
    <3>4. QED
      BY <2>1, <3>1, <3>2, <3>3, PlacedStep
  <2>6. QED
    BY <2>4, <2>5
<1>8. ASSUME NEW a \in Crew, NEW v \in Mover, Unban(a, v)
      PROVE  Placed(u)'
  <2>1. Going(u)' = Going(u) /\ UNCHANGED <<run, online, member, room>> /\ banned' \subseteq banned
    BY <1>8 DEF Unban, Going
  <2>2. QED
    BY <2>1, PlacedElsewhere
<1>9. ASSUME NEW v \in Mover, Disconnect(v)
      PROVE  Placed(u)'
  <2>1. Going(u)' = Going(u) /\ UNCHANGED <<run, member, banned>>
        /\ online' = online \ {v} /\ room' = room \ {v}
    BY <1>9 DEF Disconnect, Going
  <2>2. Agrees(u) => Agrees(u)'
    BY <2>1 DEF Agrees
  <2>3. QED
    BY <2>1, <2>2 DEF Placed
<1>10. CASE UNCHANGED vars
  <2>1. Going(u)' = Going(u)
    BY <1>10 DEF vars, Going
  <2>2. QED
    BY <1>10, <2>1, PlacedElsewhere DEF vars
<1>11. QED
  BY <1>1, <1>2, <1>3, <1>4, <1>5, <1>6, <1>7, <1>8, <1>9, <1>10 DEF Next, Write

-----------------------------------------------------------------------------
(* The invariant, and what follows from it.                                 *)

LEMMA SoundAtStart == Init => Sound
<1> SUFFICES ASSUME Init PROVE Sound
  OBVIOUS
<1> USE DEF Init
<1>1. \A p \in Task : run[p] = Idle
  OBVIOUS
<1>2. TypeOK
  BY IdleFits DEF TypeOK, Present, Requests
<1>3. Shape
  BY <1>1, IdleFits DEF Shape
<1>4. Held
  BY <1>1, IdleFits DEF Held, Checked
<1>5. Ordered
  <2>1. High \subseteq Present /\ \A t \in High : rank[t] # 0
    BY DEF High, Present
  <2>2. \A u \in Crew : worn[u] \subseteq Within
    <3>1. \A u \in Crew : \A r \in worn[u] : r \in Present
      BY DEF Present
    <3>2. QED
      BY <3>1 DEF Within, Crowned
  <2>3. ASSUME NEW r \in Within, NEW t \in High
        PROVE  rank[r] <= rank[t]
    <3>0. \A s \in Role : InitRank[s] # None => InitRank[s] \in 0..MaxRank
      OBVIOUS
    <3>1. CASE r \in Crowned
      BY <3>1 DEF Crowned, High
    <3>2. CASE r = Everyone
      BY <3>0, <3>2 DEF High
    <3>3. CASE r \in Present \ High /\ r # Everyone
      <4>0. r \in Role \ {Everyone} /\ InitRank[r] # None /\ r \notin High
        BY <3>3 DEF Present
      <4>a. PICK u \in Crew : \E s \in InitWorn[u] : ~ (InitRank[s] <= InitRank[r])
        BY <4>0 DEF High
      <4>1. PICK s \in InitWorn[u] : ~ (InitRank[s] <= InitRank[r])
        BY <4>a
      <4>2. /\ s \in Role /\ InitRank[s] \in 0..MaxRank /\ r \in Role /\ InitRank[r] \in 0..MaxRank
            /\ t \in Role /\ InitRank[t] \in 0..MaxRank
        BY <3>0, <3>3, <4>1 DEF Present, High
      <4>3. InitRank[s] <= InitRank[t]
        BY <4>1 DEF High
      <4>4. QED
        BY <4>1, <4>2, <4>3
    <3>4. QED
      BY <3>1, <3>2, <3>3 DEF Within
  <2>4. \A q \in Task : Bounded(run[q])
    BY <1>1, IdleFits DEF Bounded
  <2>5. QED
    BY <2>1, <2>2, <2>3, <2>4 DEF Ordered
<1>6. \A u \in User : Placed(u)
  <2>1. \A u \in User : Going(u) = {}
    BY <1>1, IdleIsNoMove DEF Going
  <2>2. QED
    BY <2>1 DEF Placed, Agrees
<1>7. QED
  BY <1>2, <1>3, <1>4, <1>5, <1>6 DEF Sound

LEMMA SoundStays == Sound /\ [Next]_vars => Sound'
<1> SUFFICES ASSUME Sound, [Next]_vars PROVE Sound'
  OBVIOUS
<1>1. TypeOK /\ Shape /\ Held /\ (muddle.ranks \/ Ordered)
  BY DEF Sound
<1>2. TypeOK' /\ Shape' /\ Held'
  BY <1>1, Typed, HeldStays
<1>3. (muddle.ranks => muddle'.ranks) /\ muddle.users \subseteq muddle'.users
  BY <1>1, MuddleLasts
<1>4. muddle'.ranks \/ Ordered'
  BY <1>1, <1>3, OrderedStays
<1>5. \A u \in User \ muddle'.users : Placed(u)'
  BY <1>1, <1>3, PlacedStays DEF Sound
<1>6. QED
  BY <1>2, <1>4, <1>5 DEF Sound

\* Members who send requests about roles, any number of them at the same time and in any
\* order (services/role.rs), never come to hold a permission that none of them had:
\* each write was checked, and what it writes beyond their permissions is there already.
THEOREM NobodyRises == Spec => []Inv
<1>1. Sound => Inv
  <2>1. SUFFICES ASSUME Sound PROVE Inv
    OBVIOUS
  <2>2. TypeOK /\ Held
    BY <2>1 DEF Sound
  <2>3. QED
    BY <2>2, PermsHeld DEF Inv, Contained
<1>2. QED
  BY <1>1, SoundAtStart, SoundStays, PTL DEF Spec

\* The roles that stood as high as the crew stay where the crew does not outrank them,
\* through every create, move, delete and reorder of services/role.rs, unless a role was
\* created between the check of a reordering and its write.
THEOREM HighStaysHigh == Spec => []RanksKept
<1>1. Sound => RanksKept
  <2>1. SUFFICES ASSUME Sound, ~ muddle.ranks, NEW r \in High
                 PROVE  rank[r] # None /\ \A u \in Crew : Height(u) <= rank[r]
    BY DEF RanksKept
  <2>2. TypeOK /\ Ordered
    BY <2>1 DEF Sound
  <2>3. QED
    BY <2>1, <2>2, HighIsAbove DEF Ordered, Present
<1>2. QED
  BY <1>1, SoundAtStart, SoundStays, PTL DEF Spec

\* Kicks, bans, joins, leaves and connects (services/moderation.rs, services/server.rs,
\* socket.rs) leave every user either a member in the room while online or neither, and
\* no banned member, if no two of them were at work on the user at once.
THEOREM RoomHoldsTheMembers == Spec => []MembersTrue
<1>1. Sound => MembersTrue
  <2>1. SUFFICES ASSUME Sound, NEW u \in User \ muddle.users,
                        \A p \in Task : run[p].op \in Moves => run[p].user # u
                 PROVE  Agrees(u)
    BY DEF MembersTrue, Agrees
  <2>2. Going(u) = {}
    BY <2>1 DEF Going
  <2>3. QED
    BY <2>1, <2>2 DEF Sound, Placed
<1>2. QED
  BY <1>1, SoundAtStart, SoundStays, PTL DEF Spec

=============================================================================
