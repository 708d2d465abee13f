---------------------------- MODULE DmCallProofs ----------------------------
(***************************************************************************)
(* Proofs about DmCall, for every finite set of users, every set of        *)
(* channels, any number of calls and any number of handlers at a time,     *)
(* with failures and restarts: types, that a call in Redis always has      *)
(* somebody on it, and that a conversation whose own handlers have not     *)
(* overlapped or failed is in order, whatever goes on in the others.       *)
(***************************************************************************)
EXTENDS DmCall, FiniteSetTheorems, SequenceTheorems, TLAPS

USE UsersAssumption, MembersAssumption, MaxCallsAssumption, NoneAssumption

-----------------------------------------------------------------------------
(* What a handler may have ahead of it.                                      *)

\* A copy worth writing: somebody is on the call, and is not rung for it.
Good(copy) == /\ copy \in Calls
              /\ copy.participants # {}
              /\ copy.participants \cap copy.ringing = {}
              /\ copy.participants \subseteq copy.joined

GoodCalls == {copy \in Calls : Good(copy)}

\* The writes a handler may have ahead of it.
Orders ==
        [do : {"save"}, channel : Channels, copy : GoodCalls \cup {None}]
  \cup  [do : {"bind"}, user : Users, to : Channels \cup {None}]
  \cup  [do : {"card"}, card : Channels \X Ids, says : {"live", "ended"}]
  \cup  [do : {"arm"}, timer : Channels \X Ids]

States == [ phase : {"idle", "start", "leave", "poll", "write"},
            user : Users \cup {None}, channel : Channels \cup {None},
            ask : SUBSET Users, ring : SUBSET Users, writes : Seq(Orders) ]

\* A handler writes about its own channel only.
Owned(w, c) ==
  /\ w.do = "save" => w.channel = c
  /\ w.do = "bind" => w.to \in {None, c}
  /\ w.do = "card" => \E n \in Ids : w.card = << c, n >>
  /\ w.do = "arm"  => \E n \in Ids : w.timer = << c, n >>

\* The card is the last to be written.
CardLast(list) == \A i \in 1..Len(list) : list[i].do = "card" => i = Len(list)

\* What a handler knows by the await it is at.
Fits(st) ==
  /\ (st.writes = << >>) <=> st.phase # "write"
  /\ st.phase \in {"start", "leave", "poll"} => st.user \in Users
  /\ st.phase # "idle" => st.channel \in Channels
  /\ st.phase \in {"start", "leave"} => st.ring = {}
  /\ st.phase = "poll" => st.user \notin st.ask \cup st.ring
  /\ CardLast(st.writes)
  /\ \A w \in ToSet(st.writes) : Owned(w, st.channel)

\* A card that was never sent shows nothing.
Unsent == \A c \in Channels, n \in Ids : n > calls => cards[<< c, n >>] = "none"

TypeInv ==
  /\ TypeOK
  /\ proc \in [Processes -> States]
  /\ \A p \in Processes : Fits(proc[p])
  /\ SomebodyOn
  /\ Unsent

-----------------------------------------------------------------------------
(* Lists of writes, and the set of the writes on a list.                     *)

Listed(list, set) == list \in Seq(Orders) /\ ToSet(list) = set

LEMMA ListedOne ==
  ASSUME NEW w \in Orders
  PROVE  Listed(<< w >>, {w})
<1>1. << w >> \in Seq(Orders)
  OBVIOUS
<1>2. DOMAIN << w >> = {1} /\ << w >>[1] = w
  OBVIOUS
<1>3. ToSet(<< w >>) = {w}
  BY <1>2 DEF ToSet
<1>4. QED
  BY <1>1, <1>3 DEF Listed

LEMMA ListedConcat ==
  ASSUME NEW a, NEW b, NEW S, NEW T, Listed(a, S), Listed(b, T)
  PROVE  Listed(a \o b, S \cup T)
<1>1. a \in Seq(Orders) /\ b \in Seq(Orders)
  BY DEF Listed
<1>2. a \o b \in Seq(Orders)
  BY <1>1, ConcatProperties
<1>3. Range(a \o b) = Range(a) \cup Range(b)
  BY <1>1, RangeConcatenation
<1>4. QED
  BY <1>2, <1>3 DEF Listed, ToSet, Range

LEMMA ListedTwo ==
  ASSUME NEW v \in Orders, NEW w \in Orders
  PROVE  Listed(<< v, w >>, {v, w})
<1>1. << v, w >> \in Seq(Orders)
  OBVIOUS
<1>2. DOMAIN << v, w >> = {1, 2} /\ << v, w >>[1] = v /\ << v, w >>[2] = w
  OBVIOUS
<1>3. ToSet(<< v, w >>) = {v, w}
  BY <1>2 DEF ToSet
<1>4. QED
  BY <1>1, <1>3 DEF Listed

LEMMA ListedThree ==
  ASSUME NEW u \in Orders, NEW v \in Orders, NEW w \in Orders
  PROVE  Listed(<< u, v, w >>, {u, v, w})
<1>1. << u, v, w >> \in Seq(Orders)
  OBVIOUS
<1>2. /\ DOMAIN << u, v, w >> = {1, 2, 3}
      /\ << u, v, w >>[1] = u /\ << u, v, w >>[2] = v /\ << u, v, w >>[3] = w
  OBVIOUS
<1>3. ToSet(<< u, v, w >>) = {u, v, w}
  BY <1>2 DEF ToSet
<1>4. QED
  BY <1>1, <1>3 DEF Listed

\* A list with a write on it is not empty.
LEMMA ListedNotEmpty ==
  ASSUME NEW list, NEW S, Listed(list, S), S # {}
  PROVE  list # << >>
<1>1. ToSet(<< >>) = {}
  BY DEF ToSet
<1>2. QED
  BY <1>1 DEF Listed

\* What is ahead after the first write is done.
LEMMA ListedTail ==
  ASSUME NEW list \in Seq(Orders), list # << >>
  PROVE  /\ Head(list) \in Orders /\ Tail(list) \in Seq(Orders)
         /\ ToSet(list) = {Head(list)} \cup ToSet(Tail(list))
<1>1. /\ Head(list) \in Orders /\ Tail(list) \in Seq(Orders)
      /\ Len(Tail(list)) = Len(list) - 1
      /\ \A i \in 1..Len(Tail(list)) : Tail(list)[i] = list[i + 1]
  BY HeadTailProperties
<1>2. Len(list) \in Nat \ {0}
  BY EmptySeq
<1>3. DOMAIN list = 1..Len(list) /\ DOMAIN Tail(list) = 1..(Len(list) - 1)
  BY <1>1, LenProperties
<1>4. Head(list) = list[1]
  OBVIOUS
<1>5. ToSet(list) \subseteq {Head(list)} \cup ToSet(Tail(list))
  <2> SUFFICES ASSUME NEW i \in 1..Len(list), i # 1
               PROVE  list[i] \in ToSet(Tail(list))
    BY <1>3, <1>4 DEF ToSet
  <2>1. i - 1 \in 1..(Len(list) - 1)
    BY <1>2
  <2>2. Tail(list)[i - 1] = list[i]
    BY <1>1, <2>1
  <2>3. QED
    BY <1>3, <2>1, <2>2 DEF ToSet
<1>6. {Head(list)} \cup ToSet(Tail(list)) \subseteq ToSet(list)
  <2>1. list[1] \in ToSet(list)
    BY <1>2, <1>3 DEF ToSet
  <2> SUFFICES ASSUME NEW i \in 1..(Len(list) - 1)
               PROVE  Tail(list)[i] \in ToSet(list)
    BY <1>3, <1>4, <2>1 DEF ToSet
  <2>2. i + 1 \in 1..Len(list)
    BY <1>2
  <2>3. Tail(list)[i] = list[i + 1]
    BY <1>1
  <2>4. QED
    BY <1>3, <2>2, <2>3 DEF ToSet
<1>7. QED
  BY <1>1, <1>5, <1>6

\* A set of users, put in some order: everybody is on the list.
LEMMA UsersInOrder ==
  ASSUME NEW S \in SUBSET Users
  PROVE  /\ SetToSeq(S) \in Seq(S)
         /\ ToSet(SetToSeq(S)) = S
<1>1. IsFiniteSet(S)
  BY FS_Subset
<1>2. Cardinality(S) \in Nat /\ ExistsBijection(1..Cardinality(S), S)
  BY <1>1, FS_CardinalityType
<1>3. PICK g \in [1..Cardinality(S) -> S] : IsInjective(g)
  BY <1>2 DEF ExistsBijection, Bijection, Injection
<1>4. SetToSeq(S) \in [1..Cardinality(S) -> S] /\ IsInjective(SetToSeq(S))
  BY <1>3 DEF SetToSeq
<1>5. SetToSeq(S) \in Seq(S)
  BY <1>2, <1>4
<1>6. SetToSeq(S) \in Injection(1..Cardinality(S), S)
  BY <1>4 DEF Injection
<1>7. Cardinality(1..Cardinality(S)) = Cardinality(S)
  <2>1. Cardinality(1..Cardinality(S)) = IF 1 > Cardinality(S) THEN 0 ELSE Cardinality(S) - 1 + 1
    BY <1>2, FS_Interval
  <2>2. QED
    BY <1>2, <2>1
<1>8. SetToSeq(S) \in Surjection(1..Cardinality(S), S)
  BY <1>1, <1>6, <1>7, FS_Injection
<1>9. ToSet(SetToSeq(S)) = S
  BY <1>4, <1>8 DEF ToSet, Surjection
<1>10. QED
  BY <1>5, <1>9

LEMMA BindTyped ==
  ASSUME NEW u \in Users, NEW c \in Channels \cup {None}
  PROVE  Bind(u, c) \in Orders
BY DEF Bind, Orders

LEMMA BindAllListed ==
  ASSUME NEW S \in SUBSET Users, NEW c \in Channels \cup {None}
  PROVE  Listed(BindAll(S, c), {Bind(u, c) : u \in S})
<1> DEFINE s == SetToSeq(S)
           b == [i \in 1..Len(s) |-> Bind(s[i], c)]
<1>1. s \in Seq(S) /\ ToSet(s) = S
  BY UsersInOrder
<1> HIDE DEF s
<1>2. Len(s) \in Nat /\ DOMAIN s = 1..Len(s)
  BY <1>1, LenProperties
<1>3. \A i \in 1..Len(s) : s[i] \in Users /\ Bind(s[i], c) \in Orders
  BY <1>1, <1>2, BindTyped DEF ToSet
<1>4. b \in [1..Len(s) -> Orders]
  BY <1>3
<1>5. b \in Seq(Orders)
  BY <1>2, <1>4
<1>6. ToSet(b) = {Bind(u, c) : u \in S}
  BY <1>1, <1>2 DEF ToSet
<1>7. BindAll(S, c) = b
  BY DEF BindAll, s
<1>8. QED
  BY <1>5, <1>6, <1>7 DEF Listed

-----------------------------------------------------------------------------
(* The lists the handlers make: what is on them, and the card at the end.    *)

\* No write of the set T is one of a card.
NoCard(T) == \A w \in T : w.do # "card"

LEMMA NoCardLast ==
  ASSUME NEW list, NEW S, Listed(list, S), NoCard(S)
  PROVE  CardLast(list)
<1>1. DOMAIN list = 1..Len(list)
  BY LenProperties DEF Listed
<1>2. QED
  BY <1>1 DEF Listed, NoCard, CardLast, ToSet

LEMMA ConcatCardLast ==
  ASSUME NEW f, NEW g, NEW S, NEW T, Listed(f, S), Listed(g, T), NoCard(S), CardLast(g)
  PROVE  CardLast(f \o g)
<1>1. /\ f \in Seq(Orders) /\ g \in Seq(Orders)
      /\ Len(f) \in Nat /\ Len(g) \in Nat /\ DOMAIN f = 1..Len(f)
  BY LenProperties DEF Listed
<1>2. /\ Len(f \o g) = Len(f) + Len(g)
      /\ \A i \in 1..(Len(f) + Len(g)) :
           (f \o g)[i] = IF i <= Len(f) THEN f[i] ELSE g[i - Len(f)]
  BY <1>1, ConcatProperties
<1> SUFFICES ASSUME NEW i \in 1..Len(f \o g), (f \o g)[i].do = "card"
             PROVE  i = Len(f \o g)
  BY DEF CardLast
<1>3. i \in 1..(Len(f) + Len(g))
  BY <1>2
<1>4. CASE i <= Len(f)
  <2>1. i \in DOMAIN f /\ (f \o g)[i] = f[i]
    BY <1>1, <1>2, <1>3, <1>4
  <2>2. f[i] \in S
    BY <2>1 DEF Listed, ToSet
  <2>3. QED
    BY <2>1, <2>2 DEF NoCard
<1>5. CASE ~ (i <= Len(f))
  <2>1. i - Len(f) \in 1..Len(g) /\ (f \o g)[i] = g[i - Len(f)]
    BY <1>1, <1>2, <1>3, <1>5
  <2>2. i - Len(f) = Len(g)
    BY <2>1 DEF CardLast
  <2>3. QED
    BY <1>1, <1>2, <1>3, <2>2
<1>6. QED
  BY <1>4, <1>5

LEMMA OneCardLast ==
  ASSUME NEW w \in Orders
  PROVE  CardLast(<< w >>)
<1>1. Len(<< w >>) = 1
  OBVIOUS
<1>2. QED
  BY <1>1 DEF CardLast

LEMMA SaveTyped ==
  ASSUME NEW c \in Channels, NEW copy, copy = None \/ Good(copy)
  PROVE  Save(c, copy) \in Orders
BY DEF Save, Orders, GoodCalls, Good

LEMMA CardTyped ==
  ASSUME NEW c \in Channels, NEW n \in Ids, NEW says \in {"live", "ended"}
  PROVE  Card(c, n, says) \in Orders
BY DEF Card, Orders

LEMMA ArmTyped ==
  ASSUME NEW c \in Channels, NEW n \in Ids
  PROVE  Arm(c, n) \in Orders
BY DEF Arm, Orders

Unbinds(S) == {Unbind(u) : u \in S}
Binds(S, c) == {Bind(u, c) : u \in S}

LEMMA UnbindAllListed ==
  ASSUME NEW S \in SUBSET Users
  PROVE  Listed(UnbindAll(S), Unbinds(S))
<1>1. Listed(BindAll(S, None), {Bind(u, None) : u \in S})
  BY BindAllListed
<1>2. Unbinds(S) = {Bind(u, None) : u \in S}
  BY DEF Unbinds, Unbind, Bind
<1>3. QED
  BY <1>1, <1>2 DEF UnbindAll

LEMMA UnbindTyped ==
  ASSUME NEW u \in Users
  PROVE  Unbind(u) \in Orders
BY DEF Unbind, Orders

DiscardSet(c, copy) ==
  ({Save(c, None)} \cup Unbinds(copy.ringing)) \cup Unbinds(copy.participants)

LEMMA DiscardListed ==
  ASSUME NEW c \in Channels, NEW copy \in Calls
  PROVE  Listed(Discard(c, copy), DiscardSet(c, copy))
<1>1. copy.ringing \in SUBSET Users /\ copy.participants \in SUBSET Users
  BY DEF Calls
<1>2. Listed(<< Save(c, None) >>, {Save(c, None)})
  BY SaveTyped, ListedOne
<1>3. /\ Listed(UnbindAll(copy.ringing), Unbinds(copy.ringing))
      /\ Listed(UnbindAll(copy.participants), Unbinds(copy.participants))
  BY <1>1, UnbindAllListed
<1>4. Listed(<< Save(c, None) >> \o UnbindAll(copy.ringing),
             {Save(c, None)} \cup Unbinds(copy.ringing))
  BY <1>2, <1>3, ListedConcat
<1>5. Listed((<< Save(c, None) >> \o UnbindAll(copy.ringing)) \o UnbindAll(copy.participants),
             DiscardSet(c, copy))
  BY <1>3, <1>4, ListedConcat DEF DiscardSet
<1>6. QED
  BY <1>5 DEF Discard

\* Somebody joins: the call, their key, its card.
LEMMA JoinListed ==
  ASSUME NEW u \in Users, NEW c \in Channels, NEW new, Good(new)
  PROVE  LET list == << Save(c, new), Bind(u, c), Card(c, new.id, "live") >>
         IN  /\ Listed(list, {Save(c, new), Bind(u, c), Card(c, new.id, "live")})
             /\ CardLast(list)
<1> DEFINE list == << Save(c, new), Bind(u, c), Card(c, new.id, "live") >>
<1>1. new.id \in Ids
  BY DEF Good, Calls
<1>2. Listed(list, {Save(c, new), Bind(u, c), Card(c, new.id, "live")})
  BY <1>1, SaveTyped, BindTyped, CardTyped, ListedThree
<1>3. CardLast(list)
  <2>1. Len(list) = 3 /\ list[1].do = "save" /\ list[2].do = "bind"
    BY DEF Save, Bind
  <2> HIDE DEF list
  <2>2. QED
    BY <2>1 DEF CardLast
<1>4. QED
  BY <1>2, <1>3

CreateSet(c, n, u, S, new) == ({Save(c, new), Bind(u, c)} \cup Binds(S, c)) \cup {Arm(c, n)}

LEMMA CreateListed ==
  ASSUME NEW u \in Users, NEW c \in Channels, NEW n \in Ids, NEW S \in SUBSET Users,
         NEW new, Good(new)
  PROVE  LET list == << Save(c, new), Bind(u, c) >> \o BindAll(S, c) \o << Arm(c, n) >>
         IN  Listed(list, CreateSet(c, n, u, S, new)) /\ CardLast(list)
<1>1. Listed(<< Save(c, new), Bind(u, c) >>, {Save(c, new), Bind(u, c)})
  BY SaveTyped, BindTyped, ListedTwo
<1>2. Listed(BindAll(S, c), Binds(S, c))
  BY BindAllListed DEF Binds
<1>3. Listed(<< Arm(c, n) >>, {Arm(c, n)})
  BY ArmTyped, ListedOne
<1>4. Listed(<< Save(c, new), Bind(u, c) >> \o BindAll(S, c),
             {Save(c, new), Bind(u, c)} \cup Binds(S, c))
  BY <1>1, <1>2, ListedConcat
<1>5. Listed((<< Save(c, new), Bind(u, c) >> \o BindAll(S, c)) \o << Arm(c, n) >>,
             CreateSet(c, n, u, S, new))
  BY <1>3, <1>4, ListedConcat DEF CreateSet
<1>6. NoCard(CreateSet(c, n, u, S, new))
  BY DEF NoCard, CreateSet, Save, Bind, Binds, Arm
<1>7. QED
  BY <1>5, <1>6, NoCardLast

LeaveSet(c, u, new) ==
  IF new.participants = {}
  THEN ({Unbind(u)} \cup DiscardSet(c, new)) \cup {Card(c, new.id, "ended")}
  ELSE {Unbind(u), Save(c, new), Card(c, new.id, "live")}

LEMMA DiscardNoCard ==
  ASSUME NEW c, NEW copy
  PROVE  NoCard(DiscardSet(c, copy))
BY DEF NoCard, DiscardSet, Save, Unbind, Unbinds

LEMMA LeaveListed ==
  ASSUME NEW u \in Users, NEW c \in Channels, NEW new \in Calls,
         new.participants \cap new.ringing = {}, new.participants \subseteq new.joined
  PROVE  Listed(LeaveWrites(c, u, new), LeaveSet(c, u, new)) /\ CardLast(LeaveWrites(c, u, new))
<1>1. new.id \in Ids
  BY DEF Calls
<1>2. CASE new.participants = {}
  <2>1. Listed(<< Unbind(u) >>, {Unbind(u)}) /\ Listed(Discard(c, new), DiscardSet(c, new))
    BY UnbindTyped, ListedOne, DiscardListed
  <2>2. /\ Listed(<< Card(c, new.id, "ended") >>, {Card(c, new.id, "ended")})
        /\ CardLast(<< Card(c, new.id, "ended") >>)
    BY <1>1, CardTyped, ListedOne, OneCardLast
  <2>3. Listed(<< Unbind(u) >> \o Discard(c, new), {Unbind(u)} \cup DiscardSet(c, new))
    BY <2>1, ListedConcat
  <2>4. NoCard({Unbind(u)} \cup DiscardSet(c, new))
    BY DiscardNoCard DEF NoCard, Unbind
  <2>5. Listed((<< Unbind(u) >> \o Discard(c, new)) \o << Card(c, new.id, "ended") >>,
               ({Unbind(u)} \cup DiscardSet(c, new)) \cup {Card(c, new.id, "ended")})
    BY <2>2, <2>3, ListedConcat
  <2>6. CardLast((<< Unbind(u) >> \o Discard(c, new)) \o << Card(c, new.id, "ended") >>)
    BY <2>2, <2>3, <2>4, ConcatCardLast
  <2>7. QED
    BY <1>2, <2>5, <2>6 DEF LeaveWrites, LeaveSet
<1>3. CASE new.participants # {}
  <2> DEFINE list == << Unbind(u), Save(c, new), Card(c, new.id, "live") >>
  <2>1. Good(new)
    BY <1>3 DEF Good
  <2>2. Listed(list, {Unbind(u), Save(c, new), Card(c, new.id, "live")})
    BY <1>1, <2>1, UnbindTyped, SaveTyped, CardTyped, ListedThree
  <2>3. Len(list) = 3 /\ list[1].do = "bind" /\ list[2].do = "save"
    BY DEF Save, Unbind
  <2>4. LeaveWrites(c, u, new) = list
    BY <1>3 DEF LeaveWrites
  <2> HIDE DEF list
  <2>5. CardLast(list)
    BY <2>3 DEF CardLast
  <2>6. QED
    BY <1>3, <2>2, <2>4, <2>5 DEF LeaveSet
<1>4. QED
  BY <1>2, <1>3

ExpireSet(c, old) ==
  LET new == [old EXCEPT !.ringing = {}] IN
  Unbinds(old.ringing) \cup
    IF Cardinality(new.participants) <= 1
    THEN DiscardSet(c, new) \cup {Card(c, new.id, "ended")}
    ELSE {Save(c, new), Card(c, new.id, "live")}

LEMMA ExpireListed ==
  ASSUME NEW c \in Channels, NEW old, Good(old)
  PROVE  /\ Listed(ExpireWrites(c, old), ExpireSet(c, old))
         /\ CardLast(ExpireWrites(c, old))
         /\ ExpireWrites(c, old) # << >>
<1> DEFINE new == [old EXCEPT !.ringing = {}]
           last == IF Cardinality(new.participants) <= 1
                  THEN Discard(c, new) \o << Card(c, new.id, "ended") >>
                  ELSE << Save(c, new), Card(c, new.id, "live") >>
           lastSet == IF Cardinality(new.participants) <= 1
                     THEN DiscardSet(c, new) \cup {Card(c, new.id, "ended")}
                     ELSE {Save(c, new), Card(c, new.id, "live")}
<1>1. /\ new \in Calls /\ new.ringing = {} /\ new.id \in Ids /\ old.ringing \in SUBSET Users
      /\ new.participants \subseteq new.joined
  BY DEF Good, Calls
<1> HIDE DEF new
<1>2. Listed(UnbindAll(old.ringing), Unbinds(old.ringing)) /\ NoCard(Unbinds(old.ringing))
  BY <1>1, UnbindAllListed DEF NoCard, Unbinds, Unbind
<1>3. ASSUME Cardinality(new.participants) <= 1 PROVE Listed(last, lastSet) /\ CardLast(last)
  <2>1. Listed(Discard(c, new), DiscardSet(c, new)) /\ NoCard(DiscardSet(c, new))
    BY <1>1, DiscardListed, DiscardNoCard
  <2>2. /\ Listed(<< Card(c, new.id, "ended") >>, {Card(c, new.id, "ended")})
        /\ CardLast(<< Card(c, new.id, "ended") >>)
    BY <1>1, CardTyped, ListedOne, OneCardLast
  <2>3. /\ Listed(Discard(c, new) \o << Card(c, new.id, "ended") >>,
                  DiscardSet(c, new) \cup {Card(c, new.id, "ended")})
        /\ CardLast(Discard(c, new) \o << Card(c, new.id, "ended") >>)
    BY <2>1, <2>2, ListedConcat, ConcatCardLast
  <2>4. /\ last = Discard(c, new) \o << Card(c, new.id, "ended") >>
        /\ lastSet = DiscardSet(c, new) \cup {Card(c, new.id, "ended")}
    BY <1>3
  <2>5. QED
    BY <2>3, <2>4
<1>4. ASSUME ~ (Cardinality(new.participants) <= 1) PROVE Listed(last, lastSet) /\ CardLast(last)
  <2> DEFINE l == << Save(c, new), Card(c, new.id, "live") >>
  <2>1. new.participants # {}
    BY <1>4, FS_EmptySet
  <2>2. Good(new)
    BY <1>1, <2>1 DEF Good
  <2>3. Listed(l, {Save(c, new), Card(c, new.id, "live")})
    BY <1>1, <2>2, SaveTyped, CardTyped, ListedTwo
  <2>4. last = l /\ lastSet = {Save(c, new), Card(c, new.id, "live")}
    BY <1>4
  <2>5. Len(l) = 2 /\ l[1].do = "save"
    BY DEF Save
  <2> HIDE DEF l
  <2>6. CardLast(l)
    BY <2>5 DEF CardLast
  <2>7. QED
    BY <2>3, <2>4, <2>6
<1>5. Listed(last, lastSet) /\ CardLast(last)
  BY <1>3, <1>4
<1> HIDE DEF last, lastSet
<1>6. /\ Listed(UnbindAll(old.ringing) \o last, Unbinds(old.ringing) \cup lastSet)
      /\ CardLast(UnbindAll(old.ringing) \o last)
  BY <1>2, <1>5, ListedConcat, ConcatCardLast
<1>7. ExpireWrites(c, old) = UnbindAll(old.ringing) \o last
  BY DEF ExpireWrites, new, last
<1>8. ExpireSet(c, old) = Unbinds(old.ringing) \cup lastSet
  BY DEF ExpireSet, new, lastSet
<1>9. lastSet # {}
  BY DEF DiscardSet, lastSet
<1>10. QED
  BY <1>6, <1>7, <1>8, <1>9, ListedNotEmpty

-----------------------------------------------------------------------------
(* Types, and somebody on every call.                                        *)

LEMMA IdleFits == Idle \in States /\ Fits(Idle)
<1>1. << >> \in Seq(Orders) /\ ToSet(<< >>) = {} /\ Len(<< >>) = 0
  BY DEF ToSet
<1>2. CardLast(<< >>)
  BY <1>1 DEF CardLast
<1>3. QED
  BY <1>1, <1>2 DEF Idle, States, Fits

\* A state that has nothing to write is of the right type.
LEMMA ReadingFits ==
  ASSUME NEW st \in States, st.writes = << >>, st.phase # "write",
         st.phase \in {"start", "leave", "poll"} => st.user \in Users,
         st.phase # "idle" => st.channel \in Channels,
         st.phase \in {"start", "leave"} => st.ring = {},
         st.phase = "poll" => st.user \notin st.ask \cup st.ring
  PROVE  Fits(st)
<1>1. CardLast(<< >>) /\ ToSet(<< >>) = {}
  BY IdleFits DEF Fits, Idle, ToSet
<1>2. QED
  BY <1>1 DEF Fits

LEMMA WritingFits ==
  ASSUME NEW u \in Users \cup {None}, NEW c \in Channels, NEW list, NEW S,
         Listed(list, S), CardLast(list), S # {}, \A w \in S : Owned(w, c)
  PROVE  Writing(u, c, list) \in States /\ Fits(Writing(u, c, list))
<1>1. list # << >> /\ list \in Seq(Orders) /\ ToSet(list) = S
  BY ListedNotEmpty DEF Listed
<1>2. QED
  BY <1>1 DEF Writing, Idle, States, Fits

\* A handler moves on, and the data it works on does not.
LEMMA TypeBecomes ==
  ASSUME TypeInv, NEW p \in Processes, NEW st \in States, Fits(st),
         proc' = [proc EXCEPT ![p] = st],
         UNCHANGED << call, bound, cards, calls >>, timers' \subseteq timers,
         muddled' \subseteq Channels
  PROVE  TypeInv'
<1>1. proc' \in [Processes -> States] /\ \A q \in Processes : Fits(proc'[q])
  BY DEF TypeInv
<1>2. Unsent'
  BY DEF TypeInv, Unsent
<1>3. SomebodyOn'
  BY DEF TypeInv, SomebodyOn
<1>4. TypeOK'
  BY <1>1 DEF TypeInv, TypeOK, States
<1>5. QED
  BY <1>1, <1>2, <1>3, <1>4 DEF TypeInv

LEMMA MuddledTyped ==
  ASSUME TypeInv, NEW p, NEW c \in Channels, Takes(p, c)
  PROVE  muddled' \subseteq Channels
BY DEF TypeInv, TypeOK, Takes

\* An action of the model that is one write of a handler.
LEMMA TypeWrite ==
  ASSUME TypeInv, NEW p \in Processes, Write(p)
  PROVE  TypeInv'
<1> DEFINE list == proc[p].writes
           w    == Head(list)
           st   == IF Tail(list) = << >> THEN Idle ELSE [proc[p] EXCEPT !.writes = Tail(list)]
<1>1. proc[p] \in States /\ Fits(proc[p]) /\ proc[p].phase = "write"
  BY DEF TypeInv, Write
<1>2. list \in Seq(Orders) /\ list # << >> /\ CardLast(list)
  BY <1>1 DEF States, Fits
<1>3. w \in Orders /\ Tail(list) \in Seq(Orders) /\ ToSet(Tail(list)) \subseteq ToSet(list)
  BY <1>2, ListedTail
<1>4. CardLast(Tail(list))
  <2>1. /\ Len(list) \in Nat /\ Len(Tail(list)) = Len(list) - 1
        /\ \A i \in 1..Len(Tail(list)) : Tail(list)[i] = list[i + 1]
    BY <1>2, HeadTailProperties
  <2> HIDE DEF list
  <2> SUFFICES ASSUME NEW i \in 1..Len(Tail(list)), Tail(list)[i].do = "card"
               PROVE  i = Len(Tail(list))
    BY DEF CardLast
  <2>2. i + 1 \in 1..Len(list) /\ list[i + 1].do = "card"
    BY <2>1
  <2>3. i + 1 = Len(list)
    BY <1>2, <2>2 DEF CardLast
  <2>4. QED
    BY <2>1, <2>3
<1>5. st \in States /\ Fits(st)
  <2>1. CASE Tail(list) = << >>
    BY <2>1, IdleFits
  <2>2. CASE Tail(list) # << >>
    <3> DEFINE next == [proc[p] EXCEPT !.writes = Tail(list)]
    <3>1. next \in States
      BY <1>1, <1>3 DEF States
    <3>2. /\ next.phase = "write" /\ next.writes = Tail(list)
          /\ next.channel = proc[p].channel /\ next.channel \in Channels
      BY <1>1 DEF States, Fits
    <3>3. \A v \in ToSet(Tail(list)) : Owned(v, next.channel)
      BY <1>1, <1>3, <3>2 DEF Fits
    <3>4. Fits(next)
      <4> HIDE DEF next, list
      <4>1. QED
        BY <1>4, <2>2, <3>2, <3>3 DEF Fits
    <3>5. QED
      BY <2>2, <3>1, <3>4
  <2>3. QED
    BY <2>1, <2>2
<1>6. proc' = [proc EXCEPT ![p] = st] /\ calls' = calls /\ muddled' = muddled
  BY DEF Write
<1> HIDE DEF st, w, list
<1>7. proc' \in [Processes -> States] /\ \A q \in Processes : Fits(proc'[q])
  BY <1>5, <1>6 DEF TypeInv
<1>8. ASSUME w.do = "save", call' = [call EXCEPT ![w.channel] = w.copy],
             UNCHANGED << bound, cards, timers >>
      PROVE  TypeOK' /\ SomebodyOn' /\ Unsent'
  <2>1. w.channel \in Channels /\ (w.copy = None \/ Good(w.copy))
    BY <1>3, <1>8 DEF Orders, GoodCalls
  <2>2. call' \in [Channels -> Calls \cup {None}]
    BY <1>8, <2>1 DEF TypeInv, TypeOK, Good
  <2>3. SomebodyOn'
    BY <1>8, <2>1 DEF TypeInv, TypeOK, SomebodyOn, Good
  <2>4. QED
    BY <1>6, <1>7, <1>8, <2>2, <2>3 DEF TypeInv, TypeOK, States, Unsent
<1>9. ASSUME w.do = "bind", bound' = [bound EXCEPT ![w.user] = w.to],
             UNCHANGED << call, cards, timers >>
      PROVE  TypeOK' /\ SomebodyOn' /\ Unsent'
  <2>1. w.user \in Users /\ w.to \in Channels \cup {None}
    BY <1>3, <1>9 DEF Orders
  <2>2. bound' \in [Users -> Channels \cup {None}]
    BY <1>9, <2>1 DEF TypeInv, TypeOK
  <2>3. QED
    BY <1>6, <1>7, <1>9, <2>2 DEF TypeInv, TypeOK, SomebodyOn, States, Unsent
<1>10. ASSUME w.do = "card",
              cards' \in {cards, [cards EXCEPT ![w.card] = IF @ = "none" THEN @ ELSE w.says]},
              UNCHANGED << redis, timers >>
       PROVE  TypeOK' /\ SomebodyOn' /\ Unsent'
  <2>1. w.says \in {"live", "ended"}
    BY <1>3, <1>10 DEF Orders
  <2>2. /\ cards' \in [Channels \X Ids -> {"none", "live", "ended"}]
        /\ \A k \in Channels \X Ids : cards[k] = "none" => cards'[k] = "none"
    BY <1>10, <2>1 DEF TypeInv, TypeOK
  <2>3. QED
    BY <1>6, <1>7, <1>10, <2>2 DEF TypeInv, TypeOK, SomebodyOn, States, redis, Unsent
<1>11. ASSUME w.do = "arm", timers' \in {timers, timers \cup {w.timer}}, UNCHANGED << redis, cards >>
       PROVE  TypeOK' /\ SomebodyOn' /\ Unsent'
  <2>1. w.timer \in Channels \X Ids
    BY <1>3, <1>11 DEF Orders
  <2>2. QED
    BY <1>6, <1>7, <1>11, <2>1 DEF TypeInv, TypeOK, SomebodyOn, States, redis, Unsent
<1>12. QED
  BY <1>7, <1>8, <1>9, <1>10, <1>11 DEF Write, TypeInv, w, list

\* What a call in Redis is like.
LEMMA CallTyped ==
  ASSUME TypeInv, NEW c \in Channels, call[c] # None
  PROVE  Good(call[c]) /\ call[c] \in Calls
BY DEF TypeInv, TypeOK, SomebodyOn, Good

\* A call with one more on it, and what is written of it.
LEMMA JoinedGood ==
  ASSUME NEW old, Good(old), NEW u \in Users
  PROVE  /\ Good(Joined(old, u)) /\ Joined(old, u).id = old.id /\ old.id \in Ids
         /\ Joined(old, u).participants = old.participants \cup {u}
         /\ Joined(old, u).ringing = old.ringing \ {u}
BY DEF Joined, Good, Calls

JoinSet(c, u, old) == {Save(c, Joined(old, u)), Bind(u, c), Card(c, old.id, "live")}

LEMMA JoinsFits ==
  ASSUME TypeInv, NEW p \in Processes, NEW u \in Users, NEW c \in Channels,
         call[c] # None, Joins(p, u, c)
  PROVE  \E list : /\ Listed(list, JoinSet(c, u, call[c]))
                   /\ Writing(u, c, list) \in States /\ Fits(Writing(u, c, list))
                   /\ Rewrites(p, u, c, list)
<1> DEFINE new  == Joined(call[c], u)
           list == << Save(c, new), Bind(u, c), Card(c, call[c].id, "live") >>
<1>1. Good(new) /\ new.id = call[c].id /\ call[c].id \in Ids
  BY CallTyped, JoinedGood
<1>2. Listed(list, JoinSet(c, u, call[c])) /\ CardLast(list)
  <2> HIDE DEF new
  <2>1. QED
    BY <1>1, JoinListed DEF JoinSet, new
<1>3. \A w \in JoinSet(c, u, call[c]) : Owned(w, c)
  BY <1>1 DEF JoinSet, Owned, Save, Bind, Card
<1>4. JoinSet(c, u, call[c]) # {}
  BY DEF JoinSet
<1>5. Rewrites(p, u, c, list)
  BY DEF Joins
<1> HIDE DEF list
<1>6. QED
  BY <1>2, <1>3, <1>4, <1>5, WritingFits

\* A call with one less on it.
Left(old, u) == [old EXCEPT !.ringing = @ \ {u}, !.participants = @ \ {u}]

LEMMA LeftTyped ==
  ASSUME NEW old, Good(old), NEW u \in Users
  PROVE  /\ Left(old, u) \in Calls /\ Left(old, u).id = old.id /\ old.id \in Ids
         /\ Left(old, u).ringing = old.ringing \ {u}
         /\ Left(old, u).participants = old.participants \ {u}
         /\ Left(old, u).participants \cap Left(old, u).ringing = {}
         /\ Left(old, u).participants \subseteq Left(old, u).joined
BY DEF Left, Good, Calls

LEMMA DiscardOwned ==
  ASSUME NEW c \in Channels, NEW copy
  PROVE  \A w \in DiscardSet(c, copy) : Owned(w, c)
BY DEF DiscardSet, Unbinds, Unbind, Save, Owned

LEMMA LeavesFits ==
  ASSUME TypeInv, NEW p \in Processes, NEW u \in Users, NEW c \in Channels, Leaves(p, u, c)
  PROVE  \E list, S :
           /\ Listed(list, S)
           /\ S = IF call[c] = None THEN {Unbind(u)} ELSE LeaveSet(c, u, Left(call[c], u))
           /\ Writing(u, c, list) \in States /\ Fits(Writing(u, c, list))
           /\ Rewrites(p, u, c, list)
<1>1. CASE call[c] = None
  <2>1. Listed(<< Unbind(u) >>, {Unbind(u)}) /\ CardLast(<< Unbind(u) >>)
    BY UnbindTyped, ListedOne, OneCardLast
  <2>2. \A w \in {Unbind(u)} : Owned(w, c)
    BY DEF Owned, Unbind
  <2>3. Rewrites(p, u, c, << Unbind(u) >>)
    BY <1>1 DEF Leaves
  <2>4. Writing(u, c, << Unbind(u) >>) \in States /\ Fits(Writing(u, c, << Unbind(u) >>))
    BY <2>1, <2>2, WritingFits
  <2>5. QED
    BY <1>1, <2>1, <2>3, <2>4
<1>2. CASE call[c] # None
  <2> DEFINE new  == Left(call[c], u)
             list == LeaveWrites(c, u, new)
  <2>1. Rewrites(p, u, c, list)
    BY <1>2 DEF Leaves, Left
  <2>2. /\ new \in Calls /\ new.id \in Ids
        /\ new.participants \cap new.ringing = {} /\ new.participants \subseteq new.joined
    BY <1>2, CallTyped, LeftTyped
  <2> HIDE DEF new
  <2>3. Listed(list, LeaveSet(c, u, new)) /\ CardLast(list)
    BY <2>2, LeaveListed
  <2>4. \A w \in LeaveSet(c, u, new) : Owned(w, c)
    <3>1. Owned(Unbind(u), c) /\ Owned(Save(c, new), c)
      BY DEF Owned, Unbind, Save
    <3>2. Owned(Card(c, new.id, "live"), c) /\ Owned(Card(c, new.id, "ended"), c)
      BY <2>2 DEF Owned, Card
    <3>3. QED
      BY <3>1, <3>2, DiscardOwned DEF LeaveSet
  <2>5. LeaveSet(c, u, new) # {}
    BY DEF LeaveSet
  <2> HIDE DEF list
  <2>6. Writing(u, c, list) \in States /\ Fits(Writing(u, c, list))
    BY <2>3, <2>4, <2>5, WritingFits
  <2>7. QED
    BY <1>2, <2>1, <2>3, <2>6 DEF new
<1>3. QED
  BY <1>1, <1>2

LEMMA TypeRewrites ==
  ASSUME TypeInv, NEW p \in Processes, NEW u \in Users \cup {None}, NEW c \in Channels, NEW list,
         Writing(u, c, list) \in States, Fits(Writing(u, c, list)), Rewrites(p, u, c, list)
  PROVE  TypeInv'
<1>1. muddled' \subseteq Channels
  BY MuddledTyped DEF Rewrites
<1>2. QED
  BY <1>1, TypeBecomes DEF Rewrites, Becomes, redis

\* An event that goes through a key first.
LEMMA TypeEvent ==
  ASSUME TypeInv, NEW p \in Processes, NEW u \in Users,
         Disconnects(p, u) \/ \E c \in Channels : StartReadsKey(p, u, c)
  PROVE  TypeInv'
<1> DEFINE st(phase, c) == [Idle EXCEPT !.phase = phase, !.user = u, !.channel = c]
<1>1. ASSUME NEW phase \in {"start", "leave"}, NEW c \in Channels
      PROVE  st(phase, c) \in States /\ Fits(st(phase, c))
  <2>1. st(phase, c) \in States
    BY IdleFits DEF Idle, States
  <2>2. QED
    BY <2>1, ReadingFits DEF Idle
<1>2. ASSUME NEW phase \in {"start", "leave"}, NEW c \in Channels,
             Becomes(p, st(phase, c)), UNCHANGED << calls, muddled >>
      PROVE  TypeInv'
  <2>1. muddled' \subseteq Channels
    BY <1>2 DEF TypeInv, TypeOK
  <2> HIDE DEF st
  <2>2. QED
    BY <1>1, <1>2, <2>1, TypeBecomes DEF Becomes, redis
<1>3. ASSUME NEW c \in Channels, StartReadsKey(p, u, c) PROVE TypeInv'
  BY <1>2, <1>3 DEF StartReadsKey
<1>4. CASE Disconnects(p, u)
  <2>1. bound[u] \in Channels
    BY <1>4 DEF Disconnects, TypeInv, TypeOK
  <2>2. QED
    BY <1>2, <1>4, <2>1 DEF Disconnects
<1>5. QED
  BY <1>3, <1>4

\* A handler returns.
LEMMA TypeReturns ==
  ASSUME TypeInv, NEW p \in Processes, Becomes(p, Idle), calls' = calls,
         muddled' \subseteq Channels
  PROVE  TypeInv'
BY IdleFits, TypeBecomes DEF Becomes, redis

\* The steps of a start up to its writes.
LEMMA TypeStart ==
  ASSUME TypeInv, NEW p \in Processes,
         StartFindsNone(p) \/ (\E m \in Users : StartPolls(p, m)) \/ StartRefused(p)
  PROVE  TypeInv'
<1>1. proc[p] \in States /\ Fits(proc[p]) /\ muddled \subseteq Channels
  BY DEF TypeInv, TypeOK
<1>2. CASE StartFindsNone(p)
  <2> DEFINE st == [proc[p] EXCEPT !.phase = "poll",
                                   !.ask = Members[proc[p].channel] \ {proc[p].user}]
  <2>1. proc[p].channel \in Channels /\ proc[p].user \in Users /\ proc[p].writes = << >>
    BY <1>1, <1>2 DEF StartFindsNone, Fits
  <2>2. Members[proc[p].channel] \subseteq Users
    BY <2>1
  <2>3. st \in States
    BY <1>1, <2>2 DEF States
  <2>4. Fits(st)
    BY <1>1, <1>2, <2>1, <2>3, ReadingFits DEF StartFindsNone, States, Fits
  <2>5. muddled' \subseteq Channels
    BY <1>2, <2>1, MuddledTyped DEF StartFindsNone
  <2>6. QED
    BY <1>2, <2>3, <2>4, <2>5, TypeBecomes DEF StartFindsNone, Becomes, redis
<1>3. ASSUME NEW m \in Users, StartPolls(p, m)
      PROVE  TypeInv'
  <2> DEFINE st == [proc[p] EXCEPT !.ask = @ \ {m},
                                   !.ring = IF bound[m] = None THEN @ \cup {m} ELSE @]
  <2>1. st \in States
    BY <1>1 DEF States
  <2>2. Fits(st)
    BY <1>1, <1>3, <2>1, ReadingFits DEF StartPolls, States, Fits
  <2>3. QED
    BY <1>1, <1>3, <2>1, <2>2, TypeBecomes DEF StartPolls, Becomes, redis
<1>4. CASE StartRefused(p)
  BY <1>1, <1>4, TypeReturns DEF StartRefused
<1>5. QED
  BY <1>2, <1>3, <1>4

LEMMA TypeJoins ==
  ASSUME TypeInv, NEW p \in Processes,
         StartJoins(p) \/ \E u \in Users, c \in Channels : Accepts(p, u, c)
  PROVE  TypeInv'
<1>1. ASSUME NEW u \in Users, NEW c \in Channels, call[c] # None, Joins(p, u, c)
      PROVE  TypeInv'
  BY <1>1, JoinsFits, TypeRewrites
<1>2. CASE StartJoins(p)
  <2>1. /\ proc[p].user \in Users /\ proc[p].channel \in Channels
        /\ muddled \subseteq Channels
    BY <1>2 DEF StartJoins, TypeInv, TypeOK, Fits
  <2>2. QED
    BY <1>1, <1>2, <2>1, TypeReturns DEF StartJoins
<1>3. QED
  BY <1>1, <1>2 DEF Accepts

\* What a start writes.
LEMMA CreatesFits ==
  ASSUME TypeInv, NEW p \in Processes, StartCreates(p)
  PROVE  LET u == proc[p].user
             c == proc[p].channel
             n == calls + 1
             new == [ id |-> n, ringing |-> proc[p].ring, participants |-> {u}, joined |-> {u} ]
         IN  /\ u \in Users /\ c \in Channels /\ n \in Ids /\ Good(new)
             /\ new.id = n /\ new.ringing = proc[p].ring /\ new.participants = {u}
             /\ \E list : /\ Listed(list, CreateSet(c, n, u, new.ringing, new))
                          /\ Writing(u, c, list) \in States /\ Fits(Writing(u, c, list))
                          /\ proc' = [proc EXCEPT ![p] = Writing(u, c, list)]
<1> DEFINE u == proc[p].user
           c == proc[p].channel
           n == calls + 1
           new == [ id |-> n, ringing |-> proc[p].ring, participants |-> {u}, joined |-> {u} ]
           list == << Save(c, new), Bind(u, c) >> \o BindAll(new.ringing, c) \o << Arm(c, n) >>
<1>1. /\ u \in Users /\ c \in Channels /\ u \notin proc[p].ring
      /\ proc[p].ring \in SUBSET Users
  BY DEF TypeInv, StartCreates, Fits, States
<1>2. n \in Ids
  BY DEF TypeInv, TypeOK, StartCreates, Ids
<1>3. Good(new) /\ new.ringing = proc[p].ring /\ new.id = n /\ new.participants = {u}
  BY <1>1, <1>2 DEF Good, Calls
<1>4. proc' = [proc EXCEPT ![p] = Writing(u, c, list)]
  BY DEF StartCreates
<1> HIDE DEF new, n
<1>5. Listed(list, CreateSet(c, n, u, new.ringing, new)) /\ CardLast(list)
  BY <1>1, <1>2, <1>3, CreateListed
<1>6. \A w \in CreateSet(c, n, u, new.ringing, new) : Owned(w, c)
  BY <1>2 DEF CreateSet, Binds, Owned, Save, Bind, Arm
<1>7. CreateSet(c, n, u, new.ringing, new) # {}
  BY DEF CreateSet
<1> HIDE DEF list
<1>8. Writing(u, c, list) \in States /\ Fits(Writing(u, c, list))
  BY <1>1, <1>5, <1>6, <1>7, WritingFits
<1>9. QED
  BY <1>1, <1>2, <1>3, <1>4, <1>5, <1>8 DEF new, n

LEMMA TypeCreates ==
  ASSUME TypeInv, NEW p \in Processes, StartCreates(p)
  PROVE  TypeInv'
<1> DEFINE n == calls + 1
           c == proc[p].channel
<1>1. n \in Ids /\ c \in Channels
  BY CreatesFits
<1>2. \E st \in States : Fits(st) /\ proc' = [proc EXCEPT ![p] = st]
  BY CreatesFits
<1>3. proc' \in [Processes -> States] /\ \A q \in Processes : Fits(proc'[q])
  BY <1>2 DEF TypeInv
<1>4. /\ UNCHANGED << call, bound, timers, muddled >> /\ calls' = n /\ calls < MaxCalls
      /\ cards' \in {cards, [cards EXCEPT ![<< c, n >>] = "live"]}
  BY DEF StartCreates, redis
<1>5. TypeOK'
  <2>1. cards' \in [Channels \X Ids -> {"none", "live", "ended"}]
    BY <1>1, <1>4 DEF TypeInv, TypeOK
  <2>2. calls' \in 0..MaxCalls
    BY <1>4 DEF TypeInv, TypeOK
  <2>3. QED
    BY <1>3, <1>4, <2>1, <2>2 DEF TypeInv, TypeOK, States
<1>6. SomebodyOn'
  BY <1>4 DEF TypeInv, SomebodyOn
<1>7. Unsent'
  <2> SUFFICES ASSUME NEW d \in Channels, NEW m \in Ids, m > calls'
               PROVE  cards'[<< d, m >>] = "none"
    BY DEF Unsent
  <2>1. calls \in Nat /\ m \in Nat /\ m > calls /\ m # n
    BY <1>4 DEF TypeInv, TypeOK, Ids
  <2>2. cards[<< d, m >>] = "none" /\ << d, m >> # << c, n >>
    BY <2>1 DEF TypeInv, Unsent
  <2>3. QED
    BY <1>4, <2>2 DEF TypeInv, TypeOK
<1>8. QED
  BY <1>3, <1>5, <1>6, <1>7 DEF TypeInv

LEMMA TypeLeaves ==
  ASSUME TypeInv, NEW p \in Processes,
         DisconnectLeaves(p) \/ \E u \in Users, c \in Channels : LeavesNow(p, u, c)
  PROVE  TypeInv'
<1>1. ASSUME NEW u \in Users, NEW c \in Channels, Leaves(p, u, c)
      PROVE  TypeInv'
  BY <1>1, LeavesFits, TypeRewrites
<1>2. CASE DisconnectLeaves(p)
  <2>1. /\ proc[p].user \in Users /\ proc[p].channel \in Channels
        /\ muddled \subseteq Channels
    BY <1>2 DEF DisconnectLeaves, TypeInv, TypeOK, Fits
  <2>2. QED
    BY <1>1, <1>2, <2>1, TypeReturns DEF DisconnectLeaves
<1>3. QED
  BY <1>1, <1>2 DEF LeavesNow

\* What the expiry of a ring writes.
LEMMA ExpireFits ==
  ASSUME TypeInv, NEW c \in Channels, call[c] # None
  PROVE  LET list == ExpireWrites(c, call[c])
         IN  /\ Listed(list, ExpireSet(c, call[c]))
             /\ Writing(None, c, list) \in States /\ Fits(Writing(None, c, list))
<1> DEFINE old  == call[c]
           new  == [old EXCEPT !.ringing = {}]
           list == ExpireWrites(c, old)
<1>1. Good(old) /\ new.id \in Ids
  BY CallTyped DEF Calls
<1>2. Listed(list, ExpireSet(c, old)) /\ CardLast(list) /\ list # << >>
  BY <1>1, ExpireListed
<1>3. \A w \in ExpireSet(c, old) : Owned(w, c)
  <2>1. \A w \in Unbinds(old.ringing) : Owned(w, c)
    BY DEF Unbinds, Unbind, Owned
  <2>2. Owned(Save(c, new), c)
    BY DEF Owned, Save
  <2>3. Owned(Card(c, new.id, "live"), c) /\ Owned(Card(c, new.id, "ended"), c)
    BY <1>1 DEF Owned, Card
  <2>4. \A w \in DiscardSet(c, new) : Owned(w, c)
    BY DiscardOwned
  <2>5. QED
    BY <2>1, <2>2, <2>3, <2>4 DEF ExpireSet
<1>4. ExpireSet(c, old) # {}
  BY DEF ExpireSet, DiscardSet
<1> HIDE DEF list
<1>5. Writing(None, c, list) \in States /\ Fits(Writing(None, c, list))
  BY <1>2, <1>3, <1>4, WritingFits
<1>6. QED
  BY <1>2, <1>5 DEF list

LEMMA TypeTimesOut ==
  ASSUME TypeInv, NEW p \in Processes, NEW c \in Channels, NEW n \in Ids, RingTimesOut(p, c, n)
  PROVE  TypeInv'
<1>1. UNCHANGED << call, bound, cards, calls >> /\ timers' \subseteq timers
  BY DEF RingTimesOut, redis
<1>2. CASE StillRings(call[c], n)
  <2> DEFINE list == ExpireWrites(c, call[c])
  <2>1. call[c] # None
    BY <1>2 DEF StillRings
  <2>2. Writing(None, c, list) \in States /\ Fits(Writing(None, c, list))
    BY <2>1, ExpireFits
  <2>3. proc' = [proc EXCEPT ![p] = Writing(None, c, list)] /\ Takes(p, c)
    BY <1>2 DEF RingTimesOut
  <2> HIDE DEF list
  <2>4. QED
    BY <1>1, <2>2, <2>3, MuddledTyped, TypeBecomes
<1>3. CASE ~ StillRings(call[c], n)
  <2>1. UNCHANGED << proc, muddled >>
    BY <1>3 DEF RingTimesOut
  <2>2. QED
    BY <1>1, <2>1 DEF TypeInv, TypeOK, SomebodyOn, Unsent
<1>4. QED
  BY <1>2, <1>3

LEMMA TypeFails ==
  ASSUME TypeInv, (\E p \in Processes : GivesUp(p)) \/ Restart
  PROVE  TypeInv'
<1>1. ASSUME NEW p \in Processes, GivesUp(p)
      PROVE  TypeInv'
  <2>1. proc[p].channel \in Channels
    BY <1>1 DEF GivesUp, TypeInv, Fits
  <2>2. muddled' \subseteq Channels
    BY <1>1, <2>1 DEF GivesUp, TypeInv, TypeOK
  <2>3. QED
    BY <1>1, <2>2, TypeReturns DEF GivesUp
<1>2. CASE Restart
  <2>1. proc' \in [Processes -> States] /\ \A q \in Processes : Fits(proc'[q])
    BY <1>2, IdleFits DEF Restart
  <2>2. muddled' \subseteq Channels
    BY <1>2 DEF Restart, TypeInv, TypeOK, Fits
  <2>3. QED
    BY <1>2, <2>1, <2>2 DEF Restart, TypeInv, TypeOK, SomebodyOn, Unsent, States, redis
<1>3. QED
  BY <1>1, <1>2

LEMMA TypeInvInit == Init => TypeInv
<1> SUFFICES ASSUME Init PROVE TypeInv
  OBVIOUS
<1>1. Idle \in States /\ Fits(Idle)
  BY IdleFits
<1>2. proc \in [Processes -> States] /\ \A p \in Processes : Fits(proc[p])
  BY <1>1 DEF Init
<1>3. TypeOK
  BY DEF Init, TypeOK, Idle
<1>4. Unsent
  BY DEF Init, Unsent
<1>5. QED
  BY <1>2, <1>3, <1>4 DEF TypeInv, Init, SomebodyOn

LEMMA TypeInvStep == TypeInv /\ [Next]_vars => TypeInv'
<1> SUFFICES ASSUME TypeInv, [Next]_vars PROVE TypeInv'
  OBVIOUS
<1>1. CASE UNCHANGED vars
  BY <1>1 DEF vars, TypeInv, TypeOK, SomebodyOn, Unsent
<1>2. ASSUME NEW p \in Processes, NEW u \in Users, NEW c \in Channels, Receive(p, u, c)
      PROVE  TypeInv'
  BY <1>2, TypeEvent, TypeJoins, TypeLeaves DEF Receive
<1>3. ASSUME NEW p \in Processes, NEW u \in Users, Disconnects(p, u)
      PROVE  TypeInv'
  BY <1>3, TypeEvent
<1>4. ASSUME NEW p \in Processes, Handle(p)
      PROVE  TypeInv'
  BY <1>4, TypeStart, TypeJoins, TypeCreates, TypeLeaves, TypeWrite, TypeFails DEF Handle
<1>5. ASSUME NEW p \in Processes, Times(p)
      PROVE  TypeInv'
  BY <1>5, TypeTimesOut DEF Times
<1>6. QED
  BY <1>1, <1>2, <1>3, <1>4, <1>5, TypeFails DEF Next

\* Types, whatever the handlers interleave.
THEOREM TypeCorrect == Spec => []TypeOK
<1>1. TypeInv => TypeOK
  BY DEF TypeInv
<1>2. QED
  BY <1>1, TypeInvInit, TypeInvStep, PTL DEF Spec

\* A call in Redis always has somebody on it, rings nobody who is on it and
\* counts them among those who joined: whichever copies the handlers have read,
\* whenever they write them back and wherever they stop.
THEOREM CallsHavePeople == Spec => []SomebodyOn
<1>1. TypeInv => SomebodyOn
  BY DEF TypeInv
<1>2. QED
  BY <1>1, TypeInvInit, TypeInvStep, PTL DEF Spec

-----------------------------------------------------------------------------
(* A conversation that is in order.                                          *)

\* What is left for p to write, and whether u is on a call, or rung for it.
Ahead(p) == ToSet(proc[p].writes)

Has(copy, u) == copy # None /\ u \in copy.ringing \cup copy.participants

Rings(copy) == IF copy = None THEN {} ELSE copy.ringing

\* The call of c is `last' when the writes W are done ...
Leads(W, c, last) ==
  /\ \A w \in W : w.do = "save" => w.copy = last
  /\ (\A w \in W : w.do # "save") => last = call[c]

\* ... and then keys and card agree with it.  Whom it takes off the list of those
\* rung has a reason to stop ringing.
KeysAgree(W, c, last) ==
  /\ \A u \in Users : bound[u] = c /\ Unbind(u) \notin W => Has(last, u)
  /\ \A u \in Users : Bind(u, c) \in W => Has(last, u)

CardAgrees(W, c, last) ==
  /\ \A n \in Ids : Card(c, n, "ended") \in W => last = None
  /\ last # None => cards[<< c, last.id >>] # "ended"

HasReason(W, user, c, last) ==
  \A u \in Rings(call[c]) \ Rings(last) :
    \/ user = u
    \/ call[c].participants = {user}
    \/ << c, call[c].id >> \notin timers /\ \A w \in W : w.do # "arm"

Promised(W, user, c, last) ==
  /\ Leads(W, c, last)
  /\ KeysAgree(W, c, last)
  /\ CardAgrees(W, c, last)
  /\ HasReason(W, user, c, last)

InHand(p, c) ==
  /\ \E last \in GoodCalls \cup {None} : Promised(Ahead(p), proc[p].user, c, last)
  /\ proc[p].phase = "poll" => call[c] = None

CardOpen(c) == call[c] # None => cards[<< c, call[c].id >>] # "ended"

KeysTrue(c) == \A u \in Users : bound[u] = c => Has(call[c], u)

Ordered(c) ==
  /\ \A p, q \in Processes : Holds(p, c) /\ Holds(q, c) => p = q
  /\ CardOpen(c)
  /\ \A p \in Processes : Holds(p, c) => InHand(p, c)
  /\ AtRest(c) => KeysTrue(c)

OrderInv == \A c \in InOrder : Ordered(c)

\* A step that leaves the keys, the card, the timers and the handlers of c alone.
LEMMA Elsewhere ==
  ASSUME TypeInv, NEW c \in Channels, Ordered(c),
         call'[c] = call[c],
         \A u \in Users : bound'[u] = c => bound[u] = c,
         \A n \in Ids : cards'[<< c, n >>] = cards[<< c, n >>],
         \A n \in Ids : << c, n >> \in timers' => << c, n >> \in timers,
         \A q \in Processes : Holds(q, c) \/ Holds(q, c)' => proc'[q] = proc[q]
  PROVE  Ordered(c)'
<1>1. \A q \in Processes : Holds(q, c)' <=> Holds(q, c)
  BY DEF Holds
<1>2. call[c] # None => call[c].id \in Ids
  BY CallTyped DEF Calls
<1>3. CardOpen(c)'
  BY <1>2 DEF Ordered, CardOpen
<1>4. ASSUME NEW q \in Processes, Holds(q, c) PROVE InHand(q, c)'
  <2> DEFINE W    == Ahead(q)
             user == proc[q].user
  <2>1. proc'[q] = proc[q] /\ InHand(q, c)
    BY <1>4 DEF Ordered
  <2>2. Ahead(q)' = W /\ proc'[q].user = user
    BY <2>1 DEF Ahead
  <2>3. PICK last \in GoodCalls \cup {None} : Promised(W, user, c, last)
    BY <2>1 DEF InHand
  <2>4. last # None => last.id \in Ids
    BY DEF GoodCalls, Calls
  <2> HIDE DEF W, user
  <2>5. /\ \A w \in W : w.do = "save" => w.copy = last
        /\ (\A w \in W : w.do # "save") => last = call'[c]
    BY <2>3 DEF Promised, Leads
  <2>6. /\ \A u \in Users : bound'[u] = c /\ Unbind(u) \notin W => Has(last, u)
        /\ \A u \in Users : Bind(u, c) \in W => Has(last, u)
    BY <2>3 DEF Promised, KeysAgree
  <2>7. /\ \A n \in Ids : Card(c, n, "ended") \in W => last = None
        /\ last # None => cards'[<< c, last.id >>] # "ended"
    BY <2>3, <2>4 DEF Promised, CardAgrees
  <2>8. \A u \in Rings(call'[c]) \ Rings(last) :
          \/ user = u
          \/ call'[c].participants = {user}
          \/ << c, call'[c].id >> \notin timers' /\ \A w \in W : w.do # "arm"
    BY <1>2, <2>3 DEF Promised, HasReason, Rings
  <2>9. proc'[q].phase = "poll" => call'[c] = None
    BY <2>1 DEF InHand
  <2>10. QED
    BY <2>2, <2>5, <2>6, <2>7, <2>8, <2>9
       DEF InHand, Promised, Leads, KeysAgree, CardAgrees, HasReason
<1>5. AtRest(c)' => KeysTrue(c)'
  BY <1>1 DEF Ordered, AtRest, KeysTrue
<1>6. QED
  BY <1>1, <1>3, <1>4, <1>5 DEF Ordered

\* A step of a handler of another conversation, or of one that has taken nothing.
LEMMA Bystander ==
  ASSUME TypeInv, NEW c \in Channels, Ordered(c), NEW p \in Processes, NEW st,
         proc' = [proc EXCEPT ![p] = st],
         ~ Holds(p, c), ~ (st.phase \in {"poll", "write"} /\ st.channel = c),
         call'[c] = call[c],
         \A u \in Users : bound'[u] = c => bound[u] = c,
         \A n \in Ids : cards'[<< c, n >>] = cards[<< c, n >>],
         \A n \in Ids : << c, n >> \in timers' => << c, n >> \in timers
  PROVE  Ordered(c)'
<1>1. \A q \in Processes : q # p => proc'[q] = proc[q]
  BY DEF TypeInv
<1>2. proc'[p] = st
  BY DEF TypeInv
<1>3. ~ Holds(p, c)'
  BY <1>2 DEF Holds
<1>4. QED
  BY <1>1, <1>3, Elsewhere

\* A handler takes the conversation, and nobody else has it.
LEMMA TakesUp ==
  ASSUME TypeInv, NEW c \in Channels, Ordered(c), NEW p \in Processes, NEW st,
         proc' = [proc EXCEPT ![p] = st], ~ Holds(p, c), Takes(p, c), c \notin muddled',
         st.phase \in {"poll", "write"}, st.channel = c,
         CardOpen(c)', KeysTrue(c) => InHand(p, c)'
  PROVE  Ordered(c)'
<1>1. \A q \in Processes \ {p} : ~ Holds(q, c) /\ proc'[q] = proc[q]
  BY DEF Takes, TypeInv
<1>2. AtRest(c)
  BY <1>1 DEF AtRest
<1>3. KeysTrue(c)
  BY <1>2 DEF Ordered
<1>4. \A q \in Processes : Holds(q, c)' <=> q = p
  <2>1. proc'[p] = st
    BY DEF TypeInv
  <2>2. QED
    BY <1>1, <2>1 DEF Holds
<1>5. ~ AtRest(c)'
  BY <1>4 DEF AtRest
<1>6. QED
  BY <1>3, <1>4, <1>5 DEF Ordered

-----------------------------------------------------------------------------
(* What each handler sets out to write keeps the conversation in order.      *)

LEMMA JoinPromised ==
  ASSUME NEW c \in Channels, NEW u \in Users, Good(call[c]), call[c] # None,
         CardOpen(c), KeysTrue(c)
  PROVE  Promised(JoinSet(c, u, call[c]), u, c, Joined(call[c], u))
<1> DEFINE old == call[c]
           new == Joined(old, u)
           W   == JoinSet(c, u, old)
<1>1. /\ Good(new) /\ new.id = old.id
      /\ new.participants = old.participants \cup {u} /\ new.ringing = old.ringing \ {u}
  BY JoinedGood
<1>2. new # None
  BY <1>1 DEF Good
<1>3. W = {Save(c, new), Bind(u, c), Card(c, old.id, "live")}
  BY DEF JoinSet
<1> HIDE DEF new, W
<1>4. Leads(W, c, new)
  BY <1>3 DEF Leads, Save, Bind, Card
<1>5. \A v \in Users : Has(old, v) \/ v = u => Has(new, v)
  BY <1>1, <1>2 DEF Has
<1>6. \A v \in Users : Bind(v, c) \in W => v = u
  BY <1>3 DEF Save, Bind, Card
<1>7. KeysAgree(W, c, new)
  BY <1>5, <1>6 DEF KeysAgree, KeysTrue
<1>8. \A n \in Ids : Card(c, n, "ended") \notin W
  BY <1>3 DEF Save, Bind, Card
<1>9. CardAgrees(W, c, new)
  BY <1>1, <1>8 DEF CardAgrees, CardOpen
<1>10. HasReason(W, u, c, new)
  BY <1>1, <1>2 DEF HasReason, Rings
<1>11. QED
  BY <1>4, <1>7, <1>9, <1>10 DEF Promised, new, W

\* A leave that finds no call takes the user's key.
LEMMA StrayPromised ==
  ASSUME NEW c \in Channels, NEW u \in Users, call[c] = None, KeysTrue(c)
  PROVE  Promised({Unbind(u)}, u, c, None)
<1>1. Leads({Unbind(u)}, c, None)
  BY DEF Leads, Unbind
<1>2. \A v \in Users : bound[v] # c
  BY DEF KeysTrue, Has
<1>3. \A v \in Users : Bind(v, c) \notin {Unbind(u)}
  BY DEF Bind, Unbind
<1>4. \A n \in Ids : Card(c, n, "ended") \notin {Unbind(u)}
  BY DEF Card, Unbind
<1>5. QED
  BY <1>1, <1>2, <1>3, <1>4 DEF Promised, KeysAgree, CardAgrees, HasReason, Rings

\* What is in the list of an ended call: one save, of nothing, and no card.
LEMMA DiscardWrites ==
  ASSUME NEW c \in Channels, NEW copy
  PROVE  /\ \A w \in DiscardSet(c, copy) : w.do = "save" => w.copy = None
         /\ \E w \in DiscardSet(c, copy) : w.do = "save"
         /\ \A v : Bind(v, c) \notin DiscardSet(c, copy)
         /\ \A n : Card(c, n, "ended") \notin DiscardSet(c, copy)
         /\ \A v \in copy.ringing \cup copy.participants : Unbind(v) \in DiscardSet(c, copy)
<1>1. Save(c, None) \in DiscardSet(c, copy) /\ Save(c, None).do = "save"
  BY DEF DiscardSet, Save
<1>2. \A w \in DiscardSet(c, copy) : w.do = "save" => w.copy = None
  BY DEF DiscardSet, Save, Unbinds, Unbind
<1>3. \A v : Bind(v, c) \notin DiscardSet(c, copy)
  BY DEF DiscardSet, Save, Unbinds, Unbind, Bind
<1>4. \A n : Card(c, n, "ended") \notin DiscardSet(c, copy)
  BY DEF DiscardSet, Save, Unbinds, Unbind, Card
<1>5. \A v \in copy.ringing \cup copy.participants : Unbind(v) \in DiscardSet(c, copy)
  BY DEF DiscardSet, Unbinds
<1>6. QED
  BY <1>1, <1>2, <1>3, <1>4, <1>5

LEMMA LeavePromised ==
  ASSUME NEW c \in Channels, NEW u \in Users, Good(call[c]), call[c] # None,
         CardOpen(c), KeysTrue(c)
  PROVE  \E last \in GoodCalls \cup {None} :
           Promised(LeaveSet(c, u, Left(call[c], u)), u, c, last)
<1> DEFINE old  == call[c]
           new  == Left(old, u)
           W    == LeaveSet(c, u, new)
<1>1. /\ new \in Calls /\ new.id = old.id
      /\ new.ringing = old.ringing \ {u} /\ new.participants = old.participants \ {u}
      /\ new.participants \cap new.ringing = {} /\ new.participants \subseteq new.joined
  BY LeftTyped
<1>2. new # None
  BY <1>1
<1>3. \A v \in Users : Has(old, v) => v = u \/ v \in new.ringing \cup new.participants
  BY <1>1 DEF Has
<1>4. CASE new.participants = {}
  <2>1. W = ({Unbind(u)} \cup DiscardSet(c, new)) \cup {Card(c, new.id, "ended")}
    BY <1>4 DEF LeaveSet
  <2>2. old.participants = {u}
    BY <1>1, <1>4 DEF Good
  <2> HIDE DEF new, W
  <2>3. Leads(W, c, None)
    <3>1. Unbind(u).do = "bind" /\ Card(c, new.id, "ended").do = "card"
      BY DEF Unbind, Card
    <3>2. QED
      BY <2>1, <3>1, DiscardWrites DEF Leads
  <2>4. KeysAgree(W, c, None)
    <3>1. \A v \in Users : Bind(v, c) \notin W
      BY <2>1, DiscardWrites DEF Bind, Unbind, Card
    <3>2. \A v \in Users : bound[v] = c => Unbind(v) \in W
      BY <1>3, <2>1, DiscardWrites DEF KeysTrue
    <3>3. QED
      BY <3>1, <3>2 DEF KeysAgree
  <2>5. CardAgrees(W, c, None)
    BY DEF CardAgrees
  <2>6. HasReason(W, u, c, None)
    BY <2>2 DEF HasReason
  <2>7. QED
    BY <2>3, <2>4, <2>5, <2>6 DEF Promised, new, W
<1>5. CASE new.participants # {}
  <2>1. W = {Unbind(u), Save(c, new), Card(c, new.id, "live")}
    BY <1>5 DEF LeaveSet
  <2>2. new \in GoodCalls
    BY <1>1, <1>5 DEF Good, GoodCalls
  <2> HIDE DEF new, W
  <2>3. Leads(W, c, new)
    BY <2>1 DEF Leads, Unbind, Save, Card
  <2>4. KeysAgree(W, c, new)
    <3>1. \A v \in Users : Bind(v, c) \notin W
      BY <2>1 DEF Bind, Unbind, Save, Card
    <3>2. \A v \in Users : bound[v] = c /\ Unbind(v) \notin W => Has(new, v)
      BY <1>2, <1>3, <2>1 DEF KeysTrue, Has
    <3>3. QED
      BY <3>1, <3>2 DEF KeysAgree
  <2>5. CardAgrees(W, c, new)
    <3>1. \A n \in Ids : Card(c, n, "ended") \notin W
      BY <2>1 DEF Unbind, Save, Card
    <3>2. QED
      BY <1>1, <3>1 DEF CardAgrees, CardOpen
  <2>6. HasReason(W, u, c, new)
    BY <1>1, <1>2 DEF HasReason, Rings
  <2>7. QED
    BY <2>2, <2>3, <2>4, <2>5, <2>6 DEF Promised, new, W
<1>6. QED
  BY <1>4, <1>5

LEMMA UnbindsWrites ==
  ASSUME NEW c \in Channels, NEW S
  PROVE  /\ \A w \in Unbinds(S) : w.do = "bind"
         /\ \A v : Bind(v, c) \notin Unbinds(S)
         /\ \A v \in S : Unbind(v) \in Unbinds(S)
<1>1. \A w \in Unbinds(S) : w.do = "bind"
  BY DEF Unbinds, Unbind
<1>2. \A v : Bind(v, c) \notin Unbinds(S)
  BY DEF Unbinds, Unbind, Bind
<1>3. \A v \in S : Unbind(v) \in Unbinds(S)
  BY DEF Unbinds
<1>4. QED
  BY <1>1, <1>2, <1>3

\* The expiry of a ring whose timer has fired; user stands for nobody.
LEMMA ExpirePromised ==
  ASSUME NEW c \in Channels, NEW user, Good(call[c]), call[c] # None,
         CardOpen(c), KeysTrue(c)
  PROVE  \E last \in GoodCalls \cup {None} :
           /\ Leads(ExpireSet(c, call[c]), c, last)
           /\ KeysAgree(ExpireSet(c, call[c]), c, last)
           /\ CardAgrees(ExpireSet(c, call[c]), c, last)
           /\ \A w \in ExpireSet(c, call[c]) : w.do # "arm"
<1> DEFINE old  == call[c]
           new  == [old EXCEPT !.ringing = {}]
           W    == ExpireSet(c, old)
<1>1. /\ new \in Calls /\ new.id = old.id
      /\ new.ringing = {} /\ new.participants = old.participants
      /\ new.participants \subseteq new.joined /\ new.participants # {}
  BY DEF Good, Calls
<1>2. new # None /\ new \in GoodCalls
  BY <1>1 DEF Good, GoodCalls
<1>3. W = Unbinds(old.ringing) \cup
            IF Cardinality(new.participants) <= 1
            THEN DiscardSet(c, new) \cup {Card(c, new.id, "ended")}
            ELSE {Save(c, new), Card(c, new.id, "live")}
  BY DEF ExpireSet
<1> HIDE DEF new, W
<1>4. /\ \A w \in Unbinds(old.ringing) : w.do = "bind"
      /\ \A v : Bind(v, c) \notin Unbinds(old.ringing)
      /\ \A v \in old.ringing : Unbind(v) \in Unbinds(old.ringing)
  BY UnbindsWrites
<1>5. CASE Cardinality(new.participants) <= 1
  <2>1. W = Unbinds(old.ringing) \cup (DiscardSet(c, new) \cup {Card(c, new.id, "ended")})
    BY <1>3, <1>5
  <2>2. Card(c, new.id, "ended").do = "card"
    BY DEF Card
  <2>3. Leads(W, c, None)
    BY <1>4, <2>1, <2>2, DiscardWrites DEF Leads
  <2>4. \A v \in Users : Bind(v, c) \notin W
    BY <1>4, <2>1, DiscardWrites DEF Bind, Card
  <2>5. \A v \in Users : bound[v] = c => Unbind(v) \in W
    BY <1>1, <1>4, <2>1, DiscardWrites DEF KeysTrue, Has
  <2>6. \A w \in W : w.do # "arm"
    BY <1>4, <2>1, <2>2 DEF DiscardSet, Unbinds, Unbind, Save
  <2>7. KeysAgree(W, c, None) /\ CardAgrees(W, c, None)
    BY <2>4, <2>5 DEF KeysAgree, CardAgrees
  <2>8. QED
    BY <2>3, <2>6, <2>7 DEF W
<1>6. CASE ~ (Cardinality(new.participants) <= 1)
  <2>1. W = Unbinds(old.ringing) \cup {Save(c, new), Card(c, new.id, "live")}
    BY <1>3, <1>6
  <2>2. Leads(W, c, new)
    <3>1. /\ Save(c, new).do = "save" /\ Save(c, new).copy = new
          /\ Card(c, new.id, "live").do = "card"
      BY DEF Save, Card
    <3>2. QED
      BY <1>4, <2>1, <3>1 DEF Leads
  <2>3. \A v \in Users : Bind(v, c) \notin W
    BY <1>4, <2>1 DEF Bind, Save, Card
  <2>4. \A v \in Users : bound[v] = c /\ Unbind(v) \notin W => Has(new, v)
    BY <1>1, <1>2, <1>4, <2>1 DEF KeysTrue, Has
  <2>5. \A n \in Ids : Card(c, n, "ended") \notin W
    BY <2>1 DEF Unbinds, Unbind, Save, Card
  <2>6. CardAgrees(W, c, new)
    BY <1>1, <2>5 DEF CardAgrees, CardOpen
  <2>7. \A w \in W : w.do # "arm"
    BY <1>4, <2>1 DEF Save, Card
  <2>8. KeysAgree(W, c, new)
    BY <2>3, <2>4 DEF KeysAgree
  <2>9. QED
    BY <1>2, <2>2, <2>6, <2>7, <2>8 DEF W
<1>7. QED
  BY <1>5, <1>6 DEF W

\* A new call: nobody's key names the conversation yet.
LEMMA CreatePromised ==
  ASSUME NEW c \in Channels, NEW n \in Ids, NEW u \in Users, NEW new \in GoodCalls,
         new.participants = {u}, call[c] = None,
         \A v \in Users : bound[v] # c
  PROVE  LET W == CreateSet(c, n, u, new.ringing, new)
         IN  /\ Leads(W, c, new) /\ KeysAgree(W, c, new) /\ HasReason(W, u, c, new)
             /\ \A m \in Ids : Card(c, m, "ended") \notin W
<1> DEFINE W == CreateSet(c, n, u, new.ringing, new)
<1>1. W = ({Save(c, new), Bind(u, c)} \cup Binds(new.ringing, c)) \cup {Arm(c, n)}
  BY DEF CreateSet
<1> HIDE DEF W
<1>2. new # None
  BY DEF GoodCalls
<1>3. Leads(W, c, new)
  <2>1. /\ Save(c, new).do = "save" /\ Save(c, new).copy = new
        /\ \A v : Bind(v, c).do = "bind"
        /\ Arm(c, n).do = "arm"
    BY DEF Save, Bind, Arm
  <2>2. \A w \in Binds(new.ringing, c) : w.do = "bind"
    BY <2>1 DEF Binds
  <2>3. QED
    BY <1>1, <2>1, <2>2 DEF Leads
<1>4. \A v \in Users : Bind(v, c) \in W => v = u \/ v \in new.ringing
  BY <1>1 DEF Save, Bind, Binds, Arm
<1>5. KeysAgree(W, c, new)
  BY <1>2, <1>4 DEF KeysAgree, Has
<1>6. \A m \in Ids : Card(c, m, "ended") \notin W
  BY <1>1 DEF Save, Bind, Binds, Arm, Card
<1>7. HasReason(W, u, c, new)
  BY DEF HasReason, Rings
<1>8. QED
  BY <1>3, <1>5, <1>6, <1>7 DEF W

-----------------------------------------------------------------------------
(* One write of what was promised.                                           *)

LEMMA PromiseKept ==
  ASSUME TypeInv, NEW c \in Channels, NEW user, NEW W \in SUBSET Orders, NEW R, NEW w \in Orders,
         NEW last \in GoodCalls \cup {None},
         W = {w} \cup R, Owned(w, c), w.do = "card" => R = {},
         Promised(W, user, c, last), CardOpen(c),
         \/ /\ w.do = "save" /\ call' = [call EXCEPT ![w.channel] = w.copy]
            /\ UNCHANGED << bound, cards, timers >>
         \/ /\ w.do = "bind" /\ bound' = [bound EXCEPT ![w.user] = w.to]
            /\ UNCHANGED << call, cards, timers >>
         \/ /\ w.do = "card"
            /\ cards' \in {cards, [cards EXCEPT ![w.card] = IF @ = "none" THEN @ ELSE w.says]}
            /\ UNCHANGED << redis, timers >>
         \/ /\ w.do = "arm"
            /\ timers' \in {timers, timers \cup {w.timer}}
            /\ UNCHANGED << redis, cards >>
  PROVE  /\ Leads(R, c, last)' /\ KeysAgree(R, c, last)' /\ CardAgrees(R, c, last)'
         /\ HasReason(R, user, c, last)' /\ CardOpen(c)'
<1>1. /\ call \in [Channels -> Calls \cup {None}] /\ bound \in [Users -> Channels \cup {None}]
      /\ cards \in [Channels \X Ids -> {"none", "live", "ended"}]
  BY DEF TypeInv, TypeOK
<1>2. /\ Leads(W, c, last) /\ KeysAgree(W, c, last)
      /\ CardAgrees(W, c, last) /\ HasReason(W, user, c, last)
  BY DEF Promised
<1>3. /\ call[c] # None => call[c].id \in Ids
      /\ last # None => last.id \in Ids
  BY CallTyped DEF Calls, GoodCalls
<1>4. CASE /\ w.do = "save" /\ call' = [call EXCEPT ![w.channel] = w.copy]
           /\ UNCHANGED << bound, cards, timers >>
  <2>1. call'[c] = last
    BY <1>1, <1>2, <1>4 DEF Leads, Owned
  <2>2. Leads(R, c, last)'
    BY <1>2, <2>1 DEF Leads
  <2>3. \A u \in Users : Unbind(u) # w
    BY <1>4 DEF Unbind
  <2>4. KeysAgree(R, c, last)'
    BY <1>2, <1>4, <2>3 DEF KeysAgree
  <2>5. CardAgrees(R, c, last)' /\ CardOpen(c)'
    BY <1>2, <1>4, <2>1 DEF CardAgrees, CardOpen
  <2>6. HasReason(R, user, c, last)'
    BY <2>1 DEF HasReason
  <2>7. QED
    BY <2>2, <2>4, <2>5, <2>6
<1>5. CASE /\ w.do = "bind" /\ bound' = [bound EXCEPT ![w.user] = w.to]
           /\ UNCHANGED << call, cards, timers >>
  <2>1. w.user \in Users /\ w.to \in {None, c} /\ w = Bind(w.user, w.to)
    BY <1>5 DEF Orders, Owned, Bind
  <2>2. Leads(R, c, last)'
    BY <1>2, <1>5 DEF Leads
  <2>3. KeysAgree(R, c, last)'
    <3> SUFFICES ASSUME NEW u \in Users, bound'[u] = c, Unbind(u) \notin R
                 PROVE  Has(last, u)
      BY <1>2 DEF KeysAgree
    <3>1. CASE u = w.user
      <4>1. w.to = c
        BY <1>1, <1>5, <2>1, <3>1
      <4>2. Bind(u, c) \in W
        BY <2>1, <3>1, <4>1
      <4>3. QED
        BY <1>2, <4>2 DEF KeysAgree
    <3>2. CASE u # w.user
      <4>1. bound[u] = c
        BY <1>1, <1>5, <3>2
      <4>2. Unbind(u).user = u
        BY DEF Unbind
      <4>3. Unbind(u) \notin W
        BY <3>2, <4>2
      <4>4. QED
        BY <1>2, <4>1, <4>3 DEF KeysAgree
    <3>3. QED
      BY <3>1, <3>2
  <2>4. CardAgrees(R, c, last)' /\ CardOpen(c)'
    BY <1>2, <1>5 DEF CardAgrees, CardOpen
  <2>5. HasReason(R, user, c, last)'
    BY <1>2, <1>5 DEF HasReason
  <2>6. QED
    BY <2>2, <2>3, <2>4, <2>5
<1>6. CASE /\ w.do = "card"
           /\ cards' \in {cards, [cards EXCEPT ![w.card] = IF @ = "none" THEN @ ELSE w.says]}
           /\ UNCHANGED << redis, timers >>
  <2>1. R = {} /\ W = {w} /\ call' = call /\ bound' = bound /\ timers' = timers
    BY <1>6 DEF redis
  <2>2. PICK n \in Ids : w.card = << c, n >>
    BY <1>6 DEF Owned
  <2>3. w.says \in {"live", "ended"} /\ w = Card(c, n, w.says)
    BY <1>6, <2>2 DEF Orders, Card
  <2>4. last = call[c]
    BY <1>2, <1>6, <2>1 DEF Leads
  <2>5. Leads(R, c, last)'
    BY <2>1, <2>4 DEF Leads
  <2>6. KeysAgree(R, c, last)'
    <3>1. \A u \in Users : Unbind(u) # w
      BY <1>6 DEF Unbind
    <3>2. QED
      BY <1>2, <2>1, <3>1 DEF KeysAgree
  <2>7. CardOpen(c)'
    <3>1. CASE w.says = "ended"
      <4>1. last = None
        BY <1>2, <2>1, <2>2, <2>3, <3>1 DEF CardAgrees
      <4>2. QED
        BY <2>1, <2>4, <4>1 DEF CardOpen
    <3>2. CASE w.says = "live"
      BY <1>1, <1>3, <1>6, <2>1, <3>2 DEF CardOpen
    <3>3. QED
      BY <2>3, <3>1, <3>2
  <2>8. CardAgrees(R, c, last)'
    BY <2>1, <2>4, <2>7 DEF CardAgrees, CardOpen
  <2>9. HasReason(R, user, c, last)'
    BY <2>1, <2>4 DEF HasReason
  <2>10. QED
    BY <2>5, <2>6, <2>7, <2>8, <2>9
<1>7. CASE /\ w.do = "arm"
           /\ timers' \in {timers, timers \cup {w.timer}}
           /\ UNCHANGED << redis, cards >>
  <2>1. call' = call /\ bound' = bound /\ cards' = cards
    BY <1>7 DEF redis
  <2>2. Leads(R, c, last)'
    BY <1>2, <1>7, <2>1 DEF Leads
  <2>3. KeysAgree(R, c, last)'
    <3>1. \A u \in Users : Unbind(u) # w
      BY <1>7 DEF Unbind
    <3>2. QED
      BY <1>2, <2>1, <3>1 DEF KeysAgree
  <2>4. CardAgrees(R, c, last)' /\ CardOpen(c)'
    BY <1>2, <2>1 DEF CardAgrees, CardOpen
  <2>5. HasReason(R, user, c, last)'
    BY <1>2, <1>7, <2>1 DEF HasReason
  <2>6. QED
    BY <2>2, <2>3, <2>4, <2>5
<1>8. QED
  BY <1>4, <1>5, <1>6, <1>7

LEMMA OrderWrite ==
  ASSUME TypeInv, NEW c \in Channels, Ordered(c), NEW p \in Processes, Write(p)
  PROVE  Ordered(c)'
<1> DEFINE list == proc[p].writes
           w    == Head(list)
           user == proc[p].user
           W    == Ahead(p)
           R    == ToSet(Tail(list))
           st   == IF Tail(list) = << >> THEN Idle ELSE [proc[p] EXCEPT !.writes = Tail(list)]
<1>1. /\ proc[p] \in States /\ Fits(proc[p]) /\ proc[p].phase = "write"
      /\ proc[p].channel \in Channels
  BY DEF TypeInv, Write, Fits
<1>2. list \in Seq(Orders) /\ list # << >> /\ CardLast(list)
  BY <1>1 DEF States, Fits
<1>3. w \in Orders /\ Tail(list) \in Seq(Orders) /\ W = {w} \cup R /\ W \in SUBSET Orders
  <2>1. w \in Orders /\ Tail(list) \in Seq(Orders) /\ W = {w} \cup R
    BY <1>2, ListedTail DEF Ahead
  <2>2. R \subseteq Orders
    <3> HIDE DEF list
    <3>1. QED
      BY <2>1 DEF ToSet
  <2>3. QED
    BY <2>1, <2>2
<1>4. Owned(w, proc[p].channel)
  BY <1>1, <1>3 DEF Fits, Ahead
<1>5. w.do = "card" => Tail(list) = << >> /\ R = {}
  <2> HIDE DEF list
  <2>1. Len(list) \in Nat \ {0} /\ Len(Tail(list)) = Len(list) - 1 /\ w = list[1]
    BY <1>2, HeadTailProperties, EmptySeq
  <2> HIDE DEF w
  <2>2. w.do = "card" => Len(list) = 1
    <3>1. 1 \in 1..Len(list)
      BY <2>1
    <3>2. QED
      BY <1>2, <2>1, <3>1 DEF CardLast
  <2>3. ASSUME w.do = "card" PROVE Tail(list) = << >>
    <3>1. Len(list) = 1
      BY <2>2, <2>3
    <3>2. Len(Tail(list)) = 0
      BY <2>1, <3>1
    <3>3. \A t \in Seq(Orders) : Len(t) = 0 => t = << >>
      BY EmptySeq
    <3>4. QED
      BY <1>3, <3>2, <3>3
  <2>4. QED
    BY <2>3 DEF ToSet
<1>6. proc' = [proc EXCEPT ![p] = st] /\ proc'[p] = st
  BY DEF Write, TypeInv
<1>7. \/ /\ w.do = "save" /\ call' = [call EXCEPT ![w.channel] = w.copy]
         /\ UNCHANGED << bound, cards, timers >>
      \/ /\ w.do = "bind" /\ bound' = [bound EXCEPT ![w.user] = w.to]
         /\ UNCHANGED << call, cards, timers >>
      \/ /\ w.do = "card"
         /\ cards' \in {cards, [cards EXCEPT ![w.card] = IF @ = "none" THEN @ ELSE w.says]}
         /\ UNCHANGED << redis, timers >>
      \/ /\ w.do = "arm"
         /\ timers' \in {timers, timers \cup {w.timer}}
         /\ UNCHANGED << redis, cards >>
  BY DEF Write
<1>8. Holds(p, proc[p].channel)
  BY <1>1 DEF Holds
<1>9. /\ Tail(list) = << >> => st = Idle
      /\ Tail(list) # << >> => /\ st.phase = "write" /\ st.channel = proc[p].channel
                               /\ st.user = user /\ st.writes = Tail(list)
  BY <1>1 DEF States
<1> HIDE DEF st, w, list, W, R, user
<1>10. CASE proc[p].channel # c
  <2>1. /\ ~ Holds(p, c) /\ ~ (st.phase \in {"poll", "write"} /\ st.channel = c)
    BY <1>9, <1>10 DEF Holds, Idle
  <2>2. /\ call \in [Channels -> Calls \cup {None}] /\ bound \in [Users -> Channels \cup {None}]
        /\ cards \in [Channels \X Ids -> {"none", "live", "ended"}]
    BY DEF TypeInv, TypeOK
  <2>3. call'[c] = call[c]
    BY <1>1, <1>4, <1>7, <1>10, <2>2 DEF Owned, redis
  <2>4. ASSUME NEW u \in Users, bound'[u] = c PROVE bound[u] = c
    BY <1>1, <1>4, <1>7, <1>10, <2>2, <2>4 DEF Owned, redis
  <2>5. ASSUME NEW n \in Ids PROVE cards'[<< c, n >>] = cards[<< c, n >>]
    BY <1>1, <1>4, <1>7, <1>10, <2>2 DEF Owned
  <2>6. ASSUME NEW n \in Ids, << c, n >> \in timers' PROVE << c, n >> \in timers
    BY <1>1, <1>4, <1>7, <1>10, <2>6 DEF Owned
  <2>7. QED
    BY <1>6, <2>1, <2>3, <2>4, <2>5, <2>6, Bystander
<1>11. CASE proc[p].channel = c
  <2>1. InHand(p, c) /\ CardOpen(c) /\ \A q \in Processes : Holds(q, c) => q = p
    BY <1>8, <1>11 DEF Ordered
  <2>2. PICK last \in GoodCalls \cup {None} : Promised(W, user, c, last)
    BY <2>1 DEF InHand, W, user
  <2>3. PICK V, Q, o, who : V = W /\ Q = R /\ o = w /\ who = user
    OBVIOUS
  <2>4. /\ o \in Orders /\ V \in SUBSET Orders /\ V = {o} \cup Q
        /\ Owned(o, c) /\ (o.do = "card" => Q = {}) /\ Promised(V, who, c, last)
    BY <1>3, <1>4, <1>5, <1>11, <2>2, <2>3
  <2>5. \/ /\ o.do = "save" /\ call' = [call EXCEPT ![o.channel] = o.copy]
           /\ UNCHANGED << bound, cards, timers >>
        \/ /\ o.do = "bind" /\ bound' = [bound EXCEPT ![o.user] = o.to]
           /\ UNCHANGED << call, cards, timers >>
        \/ /\ o.do = "card"
           /\ cards' \in {cards, [cards EXCEPT ![o.card] = IF @ = "none" THEN @ ELSE o.says]}
           /\ UNCHANGED << redis, timers >>
        \/ /\ o.do = "arm"
           /\ timers' \in {timers, timers \cup {o.timer}}
           /\ UNCHANGED << redis, cards >>
    BY <1>7, <2>3
  <2>6. /\ Leads(Q, c, last)' /\ KeysAgree(Q, c, last)' /\ CardAgrees(Q, c, last)'
        /\ HasReason(Q, who, c, last)' /\ CardOpen(c)'
    BY <2>1, <2>4, <2>5, PromiseKept
  <2>7. \A q \in Processes \ {p} : ~ Holds(q, c)'
    <3>1. \A q \in Processes \ {p} : proc'[q] = proc[q]
      BY <1>6 DEF TypeInv
    <3>2. QED
      BY <2>1, <3>1 DEF Holds
  <2>8. CASE Tail(list) = << >>
    <3>1. Q = {}
      BY <2>3, <2>8 DEF R, ToSet
    <3>2. ~ Holds(p, c)'
      BY <1>6, <1>9, <2>8 DEF Holds, Idle
    <3>3. KeysTrue(c)'
      <4>1. last = call'[c]
        BY <2>6, <3>1 DEF Leads
      <4>2. QED
        BY <2>6, <3>1, <4>1 DEF KeysAgree, KeysTrue
    <3>4. QED
      BY <2>6, <2>7, <3>2, <3>3 DEF Ordered
  <2>9. CASE Tail(list) # << >>
    <3>1. Ahead(p)' = Q /\ proc'[p].user = who /\ proc'[p].phase = "write"
      BY <1>6, <1>9, <2>3, <2>9 DEF Ahead, R
    <3>2. Promised(Ahead(p), proc[p].user, c, last)'
      BY <2>6, <3>1 DEF Promised
    <3>3. InHand(p, c)'
      BY <3>1, <3>2 DEF InHand
    <3>4. Holds(p, c)'
      BY <1>6, <1>9, <1>11, <2>9 DEF Holds
    <3>5. ~ AtRest(c)'
      BY <3>4 DEF AtRest
    <3>6. QED
      BY <2>6, <2>7, <3>3, <3>5 DEF Ordered
  <2>10. QED
    BY <2>8, <2>9
<1>12. QED
  BY <1>10, <1>11

-----------------------------------------------------------------------------
(* Every step keeps a conversation in order, or marks it.                    *)

\* A handler that has not taken the conversation does not take it.
LEMMA OrderQuiet ==
  ASSUME TypeInv, NEW c \in Channels, Ordered(c), NEW p \in Processes, NEW st,
         Becomes(p, st), ~ Holds(p, c), ~ (st.phase \in {"poll", "write"} /\ st.channel = c)
  PROVE  Ordered(c)'
BY Bystander DEF Becomes, redis

LEMMA OrderEvent ==
  ASSUME TypeInv, NEW c \in Channels, Ordered(c), NEW p \in Processes, NEW u \in Users,
         Disconnects(p, u) \/ \E d \in Channels : StartReadsKey(p, u, d)
  PROVE  Ordered(c)'
<1>1. ~ Holds(p, c)
  BY DEF Disconnects, StartReadsKey, Begins, Holds
<1>2. ASSUME NEW phase \in {"start", "leave"}, NEW d,
             Becomes(p, [Idle EXCEPT !.phase = phase, !.user = u, !.channel = d])
      PROVE  Ordered(c)'
  BY <1>1, <1>2, OrderQuiet DEF Idle
<1>3. QED
  BY <1>2 DEF Disconnects, StartReadsKey

\* A handler reads a call and has its writes ready.
LEMMA OrderRewrites ==
  ASSUME TypeInv, NEW c \in Channels, Ordered(c), c \notin muddled',
         NEW p \in Processes, NEW u \in Users, NEW d \in Channels, NEW list, NEW S,
         proc[p].phase \in {"idle", "start", "leave"},
         Listed(list, S), Rewrites(p, u, d, list),
         d = c /\ CardOpen(c) /\ KeysTrue(c) =>
           \E last \in GoodCalls \cup {None} : Promised(S, u, c, last)
  PROVE  Ordered(c)'
<1> DEFINE st == Writing(u, d, list)
<1>1. ~ Holds(p, c)
  BY DEF Holds
<1>2. /\ Becomes(p, st) /\ Takes(p, d)
      /\ st.phase = "write" /\ st.channel = d /\ st.user = u /\ st.writes = list
  BY DEF Rewrites, Writing, Idle
<1> HIDE DEF st
<1>3. CASE d # c
  BY <1>1, <1>2, <1>3, OrderQuiet
<1>4. CASE d = c
  <2>1. UNCHANGED << call, bound, cards, timers >> /\ proc' = [proc EXCEPT ![p] = st]
    BY <1>2 DEF Becomes, redis
  <2>2. CardOpen(c) /\ CardOpen(c)'
    BY <2>1 DEF Ordered, CardOpen
  <2>3. ASSUME KeysTrue(c) PROVE InHand(p, c)'
    <3>1. PICK last \in GoodCalls \cup {None} : Promised(S, u, c, last)
      BY <1>4, <2>2, <2>3
    <3>2. Promised(S, u, c, last)'
      BY <2>1, <3>1 DEF Promised, Leads, KeysAgree, CardAgrees, HasReason
    <3>3. proc'[p] = st
      BY <2>1 DEF TypeInv
    <3>4. Ahead(p)' = S /\ proc'[p].user = u /\ proc'[p].phase = "write"
      BY <1>2, <3>3 DEF Ahead, Listed
    <3>5. Promised(Ahead(p), proc[p].user, c, last)'
      BY <3>2, <3>4
    <3>6. QED
      BY <3>4, <3>5 DEF InHand
  <2>4. QED
    BY <1>1, <1>2, <1>4, <2>1, <2>2, <2>3, TakesUp
<1>5. QED
  BY <1>3, <1>4

LEMMA OrderJoins ==
  ASSUME TypeInv, NEW c \in Channels, Ordered(c), c \notin muddled', NEW p \in Processes,
         StartJoins(p) \/ \E u \in Users, d \in Channels : Accepts(p, u, d)
  PROVE  Ordered(c)'
<1>1. ASSUME NEW u \in Users, NEW d \in Channels, call[d] # None, Joins(p, u, d),
             proc[p].phase \in {"idle", "start", "leave"}
      PROVE  Ordered(c)'
  <2>1. PICK S : S = JoinSet(d, u, call[d])
    OBVIOUS
  <2>2. PICK list : Listed(list, S) /\ Rewrites(p, u, d, list)
    BY <1>1, <2>1, JoinsFits
  <2>3. ASSUME d = c, CardOpen(c), KeysTrue(c)
        PROVE  \E last \in GoodCalls \cup {None} : Promised(S, u, c, last)
    <3>1. Good(call[c])
      BY <1>1, <2>3, CallTyped
    <3>2. Promised(S, u, c, Joined(call[c], u))
      BY <1>1, <2>1, <2>3, <3>1, JoinPromised
    <3>3. Joined(call[c], u) \in GoodCalls
      BY <3>1, JoinedGood DEF GoodCalls, Good
    <3>4. QED
      BY <3>2, <3>3
  <2>4. QED
    BY <1>1, <2>2, <2>3, OrderRewrites
<1>2. CASE StartJoins(p)
  <2>1. proc[p].user \in Users /\ proc[p].channel \in Channels
    BY <1>2 DEF StartJoins, TypeInv, Fits
  <2>2. CASE Becomes(p, Idle)
    BY <1>2, <2>2, OrderQuiet DEF StartJoins, Holds, Idle
  <2>3. CASE Joins(p, proc[p].user, proc[p].channel)
    BY <1>1, <1>2, <2>1, <2>3 DEF StartJoins
  <2>4. QED
    BY <1>2, <2>2, <2>3 DEF StartJoins
<1>3. QED
  BY <1>1, <1>2 DEF Accepts, Begins

LEMMA OrderLeaves ==
  ASSUME TypeInv, NEW c \in Channels, Ordered(c), c \notin muddled', NEW p \in Processes,
         DisconnectLeaves(p) \/ \E u \in Users, d \in Channels : LeavesNow(p, u, d)
  PROVE  Ordered(c)'
<1>1. ASSUME NEW u \in Users, NEW d \in Channels, Leaves(p, u, d),
             proc[p].phase \in {"idle", "start", "leave"}
      PROVE  Ordered(c)'
  <2>1. PICK S : S = IF call[d] = None THEN {Unbind(u)} ELSE LeaveSet(d, u, Left(call[d], u))
    OBVIOUS
  <2>2. ASSUME d = c, CardOpen(c), KeysTrue(c)
        PROVE  \E last \in GoodCalls \cup {None} : Promised(S, u, c, last)
    <3>1. CASE call[c] = None
      BY <2>1, <2>2, <3>1, StrayPromised
    <3>2. CASE call[c] # None
      BY <2>1, <2>2, <3>2, CallTyped, LeavePromised
    <3>3. QED
      BY <3>1, <3>2
  <2>3. PICK list : Listed(list, S) /\ Rewrites(p, u, d, list)
    BY <1>1, <2>1, LeavesFits
  <2>4. QED
    BY <1>1, <2>2, <2>3, OrderRewrites
<1>2. CASE DisconnectLeaves(p)
  <2>1. proc[p].user \in Users /\ proc[p].channel \in Channels
    BY <1>2 DEF DisconnectLeaves, TypeInv, Fits
  <2>2. CASE Becomes(p, Idle)
    BY <1>2, <2>2, OrderQuiet DEF DisconnectLeaves, Holds, Idle
  <2>3. CASE Leaves(p, proc[p].user, proc[p].channel)
    BY <1>1, <1>2, <2>1, <2>3 DEF DisconnectLeaves
  <2>4. QED
    BY <1>2, <2>2, <2>3 DEF DisconnectLeaves
<1>3. QED
  BY <1>1, <1>2 DEF LeavesNow, Begins

\* While a start asks who is busy there is no call, and no key names one.
LEMMA Asking ==
  ASSUME TypeInv, NEW c \in Channels, Ordered(c), NEW p \in Processes, Holds(p, c),
         proc[p].phase = "poll"
  PROVE  /\ call[c] = None /\ KeysTrue(c) /\ Ahead(p) = {}
         /\ \A u \in Users : bound[u] # c
<1>1. InHand(p, c) /\ call[c] = None
  BY DEF Ordered, InHand
<1>2. Ahead(p) = {}
  BY DEF TypeInv, Fits, Ahead, ToSet
<1>3. PICK last : Promised(Ahead(p), proc[p].user, c, last)
  BY <1>1 DEF InHand
<1>4. last = None
  BY <1>1, <1>2, <1>3 DEF Promised, Leads
<1>5. \A u \in Users : bound[u] # c
  BY <1>2, <1>3, <1>4 DEF Promised, KeysAgree, Has
<1>6. QED
  BY <1>1, <1>2, <1>5 DEF KeysTrue

LEMMA OrderFindsNone ==
  ASSUME TypeInv, NEW c \in Channels, Ordered(c), c \notin muddled', NEW p \in Processes,
         StartFindsNone(p)
  PROVE  Ordered(c)'
<1> DEFINE st == [proc[p] EXCEPT !.phase = "poll", !.ask = Members[proc[p].channel] \ {proc[p].user}]
<1>1. /\ proc[p] \in States /\ Fits(proc[p]) /\ ~ Holds(p, c) /\ proc[p].writes = << >>
  BY DEF StartFindsNone, TypeInv, Fits, Holds
<1>2. /\ st.phase = "poll" /\ st.channel = proc[p].channel /\ st.writes = << >>
      /\ Becomes(p, st) /\ Takes(p, proc[p].channel) /\ call[proc[p].channel] = None
  BY <1>1 DEF StartFindsNone, States
<1> HIDE DEF st
<1>3. CASE proc[p].channel # c
  BY <1>1, <1>2, <1>3, OrderQuiet
<1>4. CASE proc[p].channel = c
  <2>1. UNCHANGED << call, bound, cards, timers >> /\ proc' = [proc EXCEPT ![p] = st]
    BY <1>2 DEF Becomes, redis
  <2>2. CardOpen(c)' /\ call'[c] = None
    BY <1>2, <1>4, <2>1 DEF CardOpen
  <2>3. ASSUME KeysTrue(c) PROVE InHand(p, c)'
    <3>1. proc'[p] = st
      BY <2>1 DEF TypeInv
    <3>2. Ahead(p)' = {}
      BY <1>2, <3>1 DEF Ahead, ToSet
    <3>3. \A u \in Users : bound'[u] # c
      BY <1>2, <1>4, <2>1, <2>3 DEF KeysTrue, Has
    <3>4. Promised(Ahead(p), proc[p].user, c, None)'
      BY <2>2, <3>2, <3>3 DEF Promised, Leads, KeysAgree, CardAgrees, HasReason, Rings
    <3>5. QED
      BY <2>2, <3>4 DEF InHand
  <2>4. QED
    BY <1>1, <1>2, <1>4, <2>1, <2>2, <2>3, TakesUp
<1>5. QED
  BY <1>3, <1>4

LEMMA OrderPolls ==
  ASSUME TypeInv, NEW c \in Channels, Ordered(c), NEW p \in Processes, NEW m \in Users,
         StartPolls(p, m)
  PROVE  Ordered(c)'
<1> DEFINE st == [proc[p] EXCEPT !.ask = @ \ {m},
                                 !.ring = IF bound[m] = None THEN @ \cup {m} ELSE @]
<1>1. /\ st.phase = proc[p].phase /\ st.channel = proc[p].channel
      /\ st.user = proc[p].user /\ st.writes = proc[p].writes
  BY DEF TypeInv, States
<1>2. proc' = [proc EXCEPT ![p] = st] /\ UNCHANGED << call, bound, cards, timers >>
  BY DEF StartPolls, Becomes, redis
<1> HIDE DEF st
<1>3. \A q \in Processes : /\ proc'[q].phase = proc[q].phase /\ proc'[q].channel = proc[q].channel
                           /\ proc'[q].user = proc[q].user /\ proc'[q].writes = proc[q].writes
  BY <1>1, <1>2 DEF TypeInv
<1>4. \A q \in Processes : (Holds(q, c)' <=> Holds(q, c)) /\ Ahead(q)' = Ahead(q)
  BY <1>3 DEF Holds, Ahead
<1>5. ASSUME NEW q \in Processes, Holds(q, c)
      PROVE  InHand(q, c)'
  <2>1. PICK W, user : W = Ahead(q) /\ user = proc[q].user
    OBVIOUS
  <2>2. PICK last \in GoodCalls \cup {None} : Promised(W, user, c, last)
    BY <1>5, <2>1 DEF Ordered, InHand
  <2>3. Promised(W, user, c, last)'
    BY <1>2, <2>2 DEF Promised, Leads, KeysAgree, CardAgrees, HasReason
  <2>4. Promised(Ahead(q), proc[q].user, c, last)'
    BY <1>3, <1>4, <2>1, <2>3
  <2>5. proc'[q].phase = "poll" => call'[c] = None
    BY <1>2, <1>3, <1>5 DEF Ordered, InHand
  <2>6. QED
    BY <2>4, <2>5 DEF InHand
<1>6. CardOpen(c)' /\ (KeysTrue(c)' <=> KeysTrue(c)) /\ (AtRest(c)' <=> AtRest(c))
  BY <1>2, <1>4 DEF Ordered, CardOpen, KeysTrue, AtRest
<1>7. QED
  BY <1>4, <1>5, <1>6 DEF Ordered

LEMMA OrderRefused ==
  ASSUME TypeInv, NEW c \in Channels, Ordered(c), NEW p \in Processes, StartRefused(p)
  PROVE  Ordered(c)'
<1>1. proc' = [proc EXCEPT ![p] = Idle] /\ UNCHANGED << call, bound, cards, timers >>
  BY DEF StartRefused, Becomes, redis
<1>2. CASE ~ Holds(p, c)
  BY <1>2, OrderQuiet DEF StartRefused, Idle
<1>3. CASE Holds(p, c)
  <2>1. \A q \in Processes : ~ Holds(q, c)'
    <3>1. \A q \in Processes : proc'[q] = IF q = p THEN Idle ELSE proc[q]
      BY <1>1 DEF TypeInv
    <3>2. QED
      BY <1>3, <3>1 DEF Ordered, Holds, Idle
  <2>2. KeysTrue(c) /\ CardOpen(c)
    BY <1>3, Asking DEF StartRefused, Ordered
  <2>3. KeysTrue(c)' /\ CardOpen(c)'
    BY <1>1, <2>2 DEF KeysTrue, CardOpen
  <2>4. QED
    BY <2>1, <2>3 DEF Ordered
<1>4. QED
  BY <1>2, <1>3

LEMMA OrderCreates ==
  ASSUME TypeInv, NEW c \in Channels, Ordered(c), NEW p \in Processes, StartCreates(p)
  PROVE  Ordered(c)'
<1>1. PICK u, d, n, new :
        /\ u = proc[p].user /\ d = proc[p].channel /\ n = calls + 1
        /\ new = [ id |-> n, ringing |-> proc[p].ring, participants |-> {u}, joined |-> {u} ]
  OBVIOUS
<1>2. /\ u \in Users /\ d \in Channels /\ n \in Ids /\ Good(new)
      /\ new.id = n /\ new.participants = {u}
      /\ \E list : /\ Listed(list, CreateSet(d, n, u, new.ringing, new))
                   /\ proc' = [proc EXCEPT ![p] = Writing(u, d, list)]
  BY <1>1, CreatesFits
<1>3. /\ UNCHANGED << call, bound, timers >>
      /\ cards' \in {cards, [cards EXCEPT ![<< d, n >>] = "live"]}
  BY <1>1 DEF StartCreates, redis
<1>4. PICK list : /\ Listed(list, CreateSet(d, n, u, new.ringing, new))
                  /\ proc' = [proc EXCEPT ![p] = Writing(u, d, list)]
  BY <1>2
<1>5. PICK st : st = Writing(u, d, list)
  OBVIOUS
<1>6. st.phase = "write" /\ st.channel = d /\ st.user = u /\ st.writes = list
  BY <1>5 DEF Writing, Idle
<1>7. proc' = [proc EXCEPT ![p] = st]
  BY <1>4, <1>5
<1>8. cards \in [Channels \X Ids -> {"none", "live", "ended"}]
  BY DEF TypeInv, TypeOK
<1>9. Holds(p, d)
  BY <1>1 DEF StartCreates, Holds
<1>10. CASE d # c
  <2>1. ~ Holds(p, c)
    BY <1>1, <1>10 DEF Holds
  <2>2. \A m \in Ids : cards'[<< c, m >>] = cards[<< c, m >>]
    BY <1>3, <1>8, <1>10
  <2>3. QED
    BY <1>3, <1>6, <1>7, <1>10, <2>1, <2>2, Bystander
<1>11. CASE d = c
  <2>1. call[c] = None /\ \A v \in Users : bound[v] # c
    BY <1>9, <1>11, Asking DEF StartCreates
  <2>2. PICK W : W = CreateSet(c, n, u, new.ringing, new)
    OBVIOUS
  <2>3. new \in GoodCalls
    BY <1>2 DEF GoodCalls, Good
  <2>4. /\ Leads(W, c, new) /\ KeysAgree(W, c, new) /\ HasReason(W, u, c, new)
        /\ \A m \in Ids : Card(c, m, "ended") \notin W
    BY <1>2, <2>1, <2>2, <2>3, CreatePromised
  <2>5. cards'[<< c, n >>] # "ended"
    <3>1. n > calls
      BY <1>1 DEF TypeInv, TypeOK
    <3>2. cards[<< c, n >>] = "none"
      BY <1>2, <3>1 DEF TypeInv, Unsent
    <3>3. QED
      BY <1>2, <1>3, <1>8, <1>11, <3>2
  <2>6. Promised(W, u, c, new)'
    BY <1>2, <1>3, <2>4, <2>5 DEF Promised, Leads, KeysAgree, CardAgrees, HasReason
  <2>7. proc'[p] = st /\ \A q \in Processes \ {p} : proc'[q] = proc[q]
    BY <1>7 DEF TypeInv
  <2>8. Ahead(p)' = W /\ proc'[p].user = u /\ proc'[p].phase = "write" /\ Holds(p, c)'
    BY <1>4, <1>6, <1>11, <2>2, <2>7 DEF Ahead, Listed, Holds
  <2>9. Promised(Ahead(p), proc[p].user, c, new)'
    BY <2>6, <2>8
  <2>10. InHand(p, c)'
    BY <2>3, <2>8, <2>9 DEF InHand
  <2>11. \A q \in Processes : Holds(q, c)' => q = p
    BY <1>9, <1>11, <2>7 DEF Ordered, Holds
  <2>12. CardOpen(c)'
    BY <1>3, <2>1 DEF CardOpen
  <2>13. ~ AtRest(c)'
    BY <2>8 DEF AtRest
  <2>14. QED
    BY <2>10, <2>11, <2>12, <2>13 DEF Ordered
<1>12. QED
  BY <1>10, <1>11

LEMMA OrderTimesOut ==
  ASSUME TypeInv, NEW c \in Channels, Ordered(c), c \notin muddled', NEW p \in Processes,
         NEW d \in Channels, NEW n \in Ids, RingTimesOut(p, d, n)
  PROVE  Ordered(c)'
<1>1. /\ UNCHANGED << call, bound, cards >> /\ timers' = timers \ {<< d, n >>}
      /\ proc[p].phase = "idle" /\ ~ Holds(p, c)
  BY DEF RingTimesOut, Begins, redis, Holds
<1>2. CASE ~ StillRings(call[d], n)
  BY <1>1, <1>2, Elsewhere DEF RingTimesOut
<1>3. CASE StillRings(call[d], n)
  <2>1. PICK list, S : list = ExpireWrites(d, call[d]) /\ S = ExpireSet(d, call[d])
    OBVIOUS
  <2>2. call[d] # None /\ call[d].id = n
    BY <1>3 DEF StillRings
  <2>3. Listed(list, S)
    BY <2>1, <2>2, ExpireFits
  <2>4. PICK st : st = Writing(None, d, list)
    OBVIOUS
  <2>5. /\ st.phase = "write" /\ st.channel = d /\ st.user = None /\ st.writes = list
        /\ proc' = [proc EXCEPT ![p] = st] /\ Takes(p, d)
    BY <1>3, <2>1, <2>4 DEF RingTimesOut, Writing, Idle
  <2>6. CASE d # c
    BY <1>1, <2>5, <2>6, Bystander
  <2>7. CASE d = c
    <3>1. CardOpen(c) /\ CardOpen(c)'
      BY <1>1 DEF Ordered, CardOpen
    <3>2. ASSUME KeysTrue(c) PROVE InHand(p, c)'
      <4>1. Good(call[c])
        BY <2>2, <2>7, CallTyped
      <4>2. PICK last \in GoodCalls \cup {None} :
              /\ Leads(S, c, last) /\ KeysAgree(S, c, last) /\ CardAgrees(S, c, last)
              /\ \A w \in S : w.do # "arm"
        BY <2>1, <2>2, <2>7, <3>1, <3>2, <4>1, ExpirePromised
      <4>3. << c, call'[c].id >> \notin timers'
        BY <1>1, <2>2, <2>7
      <4>4. Promised(S, None, c, last)'
        BY <1>1, <4>2, <4>3 DEF Promised, Leads, KeysAgree, CardAgrees, HasReason
      <4>5. proc'[p] = st
        BY <2>5 DEF TypeInv
      <4>6. Ahead(p)' = S /\ proc'[p].user = None /\ proc'[p].phase = "write"
        BY <2>3, <2>5, <4>5 DEF Ahead, Listed
      <4>7. Promised(Ahead(p), proc[p].user, c, last)'
        BY <4>4, <4>6
      <4>8. QED
        BY <4>6, <4>7 DEF InHand
    <3>3. QED
      BY <1>1, <2>5, <2>7, <3>1, <3>2, TakesUp
  <2>8. QED
    BY <2>6, <2>7
<1>4. QED
  BY <1>2, <1>3

LEMMA OrderGivesUp ==
  ASSUME TypeInv, NEW c \in Channels, Ordered(c), c \notin muddled', NEW p \in Processes,
         GivesUp(p)
  PROVE  Ordered(c)'
<1>1. ~ Holds(p, c)
  BY DEF GivesUp, Holds
<1>2. QED
  BY <1>1, OrderQuiet DEF GivesUp, Idle

\* A handler that is cut short had written nothing, or the conversation is marked.
LEMMA OrderRestart ==
  ASSUME TypeInv, NEW c \in Channels, Ordered(c), c \notin muddled', Restart
  PROVE  Ordered(c)'
<1>1. \A q \in Processes : ~ Holds(q, c)'
  BY DEF Restart, Holds, Idle
<1>2. \A q \in Processes : Holds(q, c) => proc[q].phase = "poll"
  BY DEF Restart, Holds
<1>3. KeysTrue(c)
  BY <1>2, Asking DEF Ordered, AtRest
<1>4. KeysTrue(c)' /\ CardOpen(c)'
  BY <1>3 DEF Restart, redis, KeysTrue, CardOpen, Ordered
<1>5. QED
  BY <1>1, <1>4 DEF Ordered

LEMMA OrderInit == Init => OrderInv
<1> SUFFICES ASSUME Init, NEW c \in Channels PROVE Ordered(c)
  BY DEF OrderInv, InOrder
<1>1. \A p \in Processes : ~ Holds(p, c)
  BY DEF Init, Idle, Holds
<1>2. call[c] = None /\ \A u \in Users : bound[u] # c
  BY DEF Init
<1>3. QED
  BY <1>1, <1>2 DEF Ordered, CardOpen, KeysTrue

\* A conversation that is marked stays marked, and a call changes by a write only.
LEMMA Frame ==
  ASSUME Next
  PROVE  /\ muddled \subseteq muddled'
         /\ call' = call \/ \E p \in Processes : Write(p)
<1>1. ASSUME NEW p, NEW c, Takes(p, c) PROVE muddled \subseteq muddled'
  BY <1>1 DEF Takes
<1>2. ASSUME NEW p, NEW u, NEW c, NEW list, Rewrites(p, u, c, list)
      PROVE  muddled \subseteq muddled' /\ call' = call
  BY <1>1, <1>2 DEF Rewrites, Becomes, redis
<1>3. ASSUME NEW p, NEW u, NEW c, Joins(p, u, c) \/ Leaves(p, u, c)
      PROVE  muddled \subseteq muddled' /\ call' = call
  BY <1>2, <1>3 DEF Joins, Leaves
<1>4. ASSUME NEW p \in Processes, NEW u \in Users, NEW c \in Channels, Receive(p, u, c)
      PROVE  muddled \subseteq muddled' /\ call' = call
  BY <1>3, <1>4 DEF Receive, StartReadsKey, Accepts, LeavesNow, Becomes, redis
<1>5. ASSUME NEW p \in Processes, NEW u \in Users, Disconnects(p, u)
      PROVE  muddled \subseteq muddled' /\ call' = call
  BY <1>5 DEF Disconnects, Becomes, redis
<1>6. ASSUME NEW p \in Processes, StartJoins(p) \/ DisconnectLeaves(p)
      PROVE  muddled \subseteq muddled' /\ call' = call
  BY <1>3, <1>6 DEF StartJoins, DisconnectLeaves, Becomes, redis
<1>7. ASSUME NEW p \in Processes,
             StartFindsNone(p) \/ (\E m \in Users : StartPolls(p, m)) \/ StartRefused(p)
      PROVE  muddled \subseteq muddled' /\ call' = call
  BY <1>1, <1>7 DEF StartFindsNone, StartPolls, StartRefused, Becomes, redis
<1>8. ASSUME NEW p \in Processes, StartCreates(p) \/ GivesUp(p) \/ Times(p)
      PROVE  muddled \subseteq muddled' /\ call' = call
  BY <1>1, <1>8 DEF StartCreates, GivesUp, Times, RingTimesOut, Becomes, redis
<1>9. ASSUME NEW p \in Processes, Write(p)
      PROVE  muddled \subseteq muddled'
  BY <1>9 DEF Write
<1>10. CASE Restart
  BY <1>10 DEF Restart, redis
<1>11. QED
  BY <1>4, <1>5, <1>6, <1>7, <1>8, <1>9, <1>10 DEF Next, Handle

LEMMA OrderStep == TypeInv /\ OrderInv /\ [Next]_vars => OrderInv'
<1> SUFFICES ASSUME TypeInv, OrderInv, [Next]_vars, NEW c \in Channels, c \notin muddled'
             PROVE  Ordered(c)'
  BY DEF OrderInv, InOrder
<1>1. c \notin muddled
  BY Frame DEF vars
<1>2. Ordered(c)
  BY <1>1 DEF OrderInv, InOrder
<1>3. CASE UNCHANGED vars
  BY <1>2, <1>3, Elsewhere DEF vars
<1>4. ASSUME NEW p \in Processes, NEW u \in Users, NEW d \in Channels, Receive(p, u, d)
      PROVE  Ordered(c)'
  BY <1>2, <1>4, OrderEvent, OrderJoins, OrderLeaves DEF Receive
<1>5. ASSUME NEW p \in Processes, NEW u \in Users, Disconnects(p, u)
      PROVE  Ordered(c)'
  BY <1>2, <1>5, OrderEvent
<1>6. ASSUME NEW p \in Processes, Handle(p)
      PROVE  Ordered(c)'
  BY <1>2, <1>6, OrderFindsNone, OrderPolls, OrderRefused, OrderJoins, OrderCreates, OrderLeaves,
     OrderWrite, OrderGivesUp DEF Handle
<1>7. ASSUME NEW p \in Processes, Times(p)
      PROVE  Ordered(c)'
  BY <1>2, <1>7, OrderTimesOut DEF Times
<1>8. CASE Restart
  BY <1>2, <1>8, OrderRestart
<1>9. QED
  BY <1>3, <1>4, <1>5, <1>6, <1>7, <1>8 DEF Next

-----------------------------------------------------------------------------
(* What that says of the conversations in order.                             *)

\* Whoever is told that they are already on a call is on it, or is rung for it,
\* whatever goes on in the other conversations they are in.
THEOREM KeysTellTheTruth == Spec => []BusyMeansOnCall
<1>1. OrderInv => BusyMeansOnCall
  BY DEF OrderInv, Ordered, KeysTrue, Has, BusyMeansOnCall
<1>2. QED
  BY <1>1, TypeInvInit, TypeInvStep, OrderInit, OrderStep, PTL DEF Spec

\* A card says that a call is over only once it is.
THEOREM EndedCardsAreOver == Spec => []EndedMeansOver
<1>1. OrderInv => EndedMeansOver
  BY DEF OrderInv, Ordered, CardOpen, EndedMeansOver
<1>2. QED
  BY <1>1, TypeInvInit, TypeInvStep, OrderInit, OrderStep, PTL DEF Spec

\* A phone stops ringing for a reason: a timer that outlived another call, or a
\* handler of another conversation, is none.
THEOREM RingsOutInOrder == Spec => RingsOut
<1> DEFINE Reason(c, u) ==
             \E p \in Processes :
               /\ Holds(p, c)
               /\ proc[p].user = u \/ call[c].participants = {proc[p].user}
<1>1. ASSUME TypeInv, OrderInv, [Next]_vars, NEW c \in InOrder, NEW u \in Users,
             u \in Rung(c), u \notin Rung(c)', << c, call[c].id >> \in timers
      PROVE  Reason(c, u)
  <2>1. call[c] # None /\ call'[c] # call[c] /\ u \in Rings(call[c]) /\ u \notin Rings(call'[c])
    BY <1>1 DEF Rung, Rings
  <2>2. PICK p \in Processes : Write(p)
    BY <1>1, <2>1, Frame DEF vars
  <2>3. PICK w : w = Head(proc[p].writes)
    OBVIOUS
  <2>4. call' = [call EXCEPT ![w.channel] = w.copy] /\ w.do = "save"
    BY <2>1, <2>2, <2>3 DEF Write, redis
  <2>5. w \in Ahead(p) /\ Owned(w, proc[p].channel)
    <3>1. /\ proc[p] \in States /\ Fits(proc[p]) /\ proc[p].phase = "write"
      BY <1>1, <2>2 DEF TypeInv, Write
    <3>2. proc[p].writes \in Seq(Orders) /\ proc[p].writes # << >>
      BY <3>1 DEF States, Fits
    <3>3. w \in ToSet(proc[p].writes)
      BY <2>3, <3>2, ListedTail
    <3>4. QED
      BY <3>1, <3>3 DEF Ahead, Fits
  <2>6. w.channel = c /\ proc[p].channel = c /\ call'[c] = w.copy
    <3>1. call \in [Channels -> Calls \cup {None}] /\ c \in Channels
      BY <1>1 DEF TypeInv, TypeOK, InOrder
    <3>2. w.channel = c
      BY <2>1, <2>4, <3>1
    <3>3. QED
      BY <2>4, <2>5, <3>1, <3>2 DEF Owned
  <2>7. Holds(p, c)
    BY <2>2, <2>6 DEF Write, Holds
  <2>8. PICK last : Promised(Ahead(p), proc[p].user, c, last)
    BY <1>1, <2>7 DEF OrderInv, Ordered, InHand
  <2>9. call'[c] = last
    BY <2>4, <2>5, <2>6, <2>8 DEF Promised, Leads
  <2>10. proc[p].user = u \/ call[c].participants = {proc[p].user}
    <3>1. u \in Rings(call[c]) \ Rings(last)
      BY <2>1, <2>9
    <3>2. \/ proc[p].user = u
          \/ call[c].participants = {proc[p].user}
          \/ << c, call[c].id >> \notin timers
      BY <2>8, <3>1 DEF Promised, HasReason
    <3>3. QED
      BY <1>1, <3>2
  <2>11. QED
    BY <2>7, <2>10
<1>2. TypeInv /\ OrderInv /\ [Next]_vars =>
        [\A c \in InOrder, u \in Users :
           /\ u \in Rung(c) /\ u \notin Rung(c)'
           /\ << c, call[c].id >> \in timers
           => Reason(c, u)]_vars
  BY <1>1
<1>3. QED
  BY <1>2, TypeInvInit, TypeInvStep, OrderInit, OrderStep, PTL DEF Spec, RingsOut

=============================================================================
