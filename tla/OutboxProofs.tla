---------------------------- MODULE OutboxProofs ----------------------------
(***************************************************************************)
(* Proofs about Outbox, for any tabs, entries and files, and any number of *)
(* drops, refusals and retries: nothing that was written is lost, what     *)
(* nothing held up keeps its order, and a message with files is stored     *)
(* once.                                                                   *)
(***************************************************************************)
EXTENDS Outbox, FiniteSetTheorems, SequenceTheorems, WellFoundedInduction, TLAPS

USE OutboxAssumption

-----------------------------------------------------------------------------
(* What holds besides the properties.                                       *)

\* The flush of a tab has an entry in its hands.
InHand(t) == flush[t].pc \notin {"idle", "find"}

\* Attempt n is in the table of messages.
InRows(n) == \E i \in DOMAIN rows : rows[i] = n

\* An entry that is anywhere was written, and by whoever it says.
Known(e) == origin[e] # None

KnownInv ==
    /\ \A i \in DOMAIN written : Known(written[i])
    /\ \A t \in Tab : \A e \in InQueue(t) : Known(e)
    /\ \A t \in Tab : InHand(t) => flush[t].entry \in Entry /\ Known(flush[t].entry)
    /\ \A n \in Attempt : Known(sends[n].entry)
    /\ \A e \in saved : Known(e)
    /\ \A t \in Tab : \A e \in records[t] : Known(e)

\* What was stored is in the table, once; an attempt that waits or is
\* acknowledged belongs to the entry the flush has in its hands.
StoredInv ==
    /\ \A n \in Attempt :
        /\ sends[n].pc \in {"arrived", "claimed"} => ~ InRows(n)
        /\ sends[n].pc \in {"stored", "told"} => InRows(n)
    /\ \A i, j \in DOMAIN rows : rows[i] = rows[j] => i = j
    /\ \A t \in Tab :
        /\ flush[t].pc = "ack" => /\ flush[t].attempt \in Attempt
                                  /\ sends[flush[t].attempt].entry = flush[t].entry
        /\ flush[t].pc = "confirm" => Stored(flush[t].entry)

\* What a tab hears of was stored, and it only retires what was.
HeardInv ==
    /\ \A t \in Tab : \A n \in echo[t] : InRows(n)
    /\ \A t \in Tab, e \in Entry : cipher[t][e] # 0 => sends[cipher[t][e]].entry = e
    /\ \A t \in Tab : \A e \in matched[t] : Stored(e)

\* Files are on the server from the moment they are staged until the first
\* attempt that carries them is handled.
Claimed(n) == sends[n].pc \in {"claimed", "stored", "told"} \/ InRows(n)

Nowhere(e) ==
    /\ payload[e] = {} /\ FilesOf[e] \cap uploads = {}
    /\ \A n \in Attempt : sends[n].entry # e
    /\ e \notin saved /\ \A t \in Tab : e \notin records[t]
    /\ \A t \in Tab : InHand(t) => flush[t].entry # e

FilesInv ==
    /\ \A e \in Entry : payload[e] \in {{}, FilesOf[e]}
    /\ \A e \in Entry : ~ Known(e) => Nowhere(e)
    /\ \A t \in Tab : \A e \in holding[t] :
        Nowhere(e) /\ origin[e] = t /\ \A u \in Tab \ {t} : e \notin InQueue(u)
    /\ \A n \in Attempt : Claimed(n) => payload[sends[n].entry] \cap uploads = {}
    /\ \A m, n \in Attempt :
        Claimed(m) /\ Claimed(n) /\ sends[m].entry = sends[n].entry
          /\ payload[sends[n].entry] # {} => m = n

\* The entries nothing held up.
Calm == Entry \ (disturbed \union abandoned)

Before(e, f) ==
    /\ origin[e] = origin[f]
    /\ \E i, j \in DOMAIN written : i < j /\ written[i] = e /\ written[j] = f

OrderInv ==
    /\ \A t \in Tab : holding[t] \union failed[t] \subseteq disturbed
    /\ \A t \in Tab, e \in Calm : e \in InQueue(t) => origin[e] = t
    /\ \A t \in Tab, e \in Calm : origin[e] = t => Stored(e) \/ e \in InQueue(t)
    /\ \A e, f \in Calm : Before(e, f) =>
        /\ \A t \in Tab : InHand(t) /\ flush[t].entry = f => Stored(e)
        /\ \A n \in Attempt : sends[n].entry = f => Stored(e)
        /\ \A t \in Tab : \A b \in DOMAIN queue[t] : queue[t][b] = f =>
             Stored(e) \/ \E a \in 1..(b - 1) : queue[t][a] = e
-----------------------------------------------------------------------------
(* Queues.                                                                  *)

\* A set of natural numbers that is not empty has a least element.
LEMMA LeastNumber ==
  ASSUME NEW I \in SUBSET Nat, I # {}
  PROVE  Min(I) \in I /\ \A y \in I : Min(I) <= y
<1> DEFINE Less == OpToRel(<, Nat)
<1>1. IsWellFoundedOn(Less, Nat)
  BY NatLessThanWellFounded
<1>2. PICK x \in I : \A y \in I : ~ (<< y, x >> \in Less)
  <2> HIDE DEF Less
  <2> QED BY <1>1, WFMin
<1>3. \A y \in I : x <= y
  <2> SUFFICES ASSUME NEW y \in I, ~ (x <= y) PROVE FALSE
    OBVIOUS
  <2>1. x \in Nat /\ y \in Nat /\ y < x
    OBVIOUS
  <2>2. << y, x >> \in Less
    BY <2>1 DEF OpToRel
  <2> QED BY <1>2, <2>2
<1> QED BY <1>3 DEF Min

\* SelectInSeq finds the first element that is in a set.
LEMMA FirstOf ==
  ASSUME NEW S, NEW s \in Seq(S), NEW C, \E i \in DOMAIN s : s[i] \in C
  PROVE  LET m == SelectInSeq(s, LAMBDA e : e \in C)
         IN  m \in DOMAIN s /\ s[m] \in C /\ \A a \in 1..(m - 1) : s[a] \notin C
<1> DEFINE I == {i \in 1..Len(s) : s[i] \in C}
           m == SelectInSeq(s, LAMBDA e : e \in C)
<1>1. DOMAIN s = 1..Len(s) /\ Len(s) \in Nat
  OBVIOUS
<1>2. I # {} /\ I \in SUBSET Nat
  BY <1>1
<1>3. m = Min(I)
  BY <1>2 DEF SelectInSeq
<1>4. m \in I /\ \A y \in I : m <= y
  <2> HIDE DEF I, m
  <2> QED BY <1>2, <1>3, LeastNumber
<1>5. ASSUME NEW a \in 1..(m - 1), s[a] \in C PROVE FALSE
  <2>1. m \in 1..Len(s)
    BY <1>4
  <2> HIDE DEF m
  <2>2. a \in 1..Len(s) /\ ~ (m <= a)
    BY <1>1, <2>1
  <2>3. a \in I
    BY <1>5, <2>2
  <2> QED BY <1>4, <2>2, <2>3
<1>6. m \in DOMAIN s /\ s[m] \in C
  BY <1>1, <1>4
<1> QED BY <1>5, <1>6

\* The entry the loop or an echo takes is in the queue, and the first of its kind.
LEMMA OldestIsFirst ==
  ASSUME NEW t \in Tab, queue[t] \in Seq(Entry), NEW S, InQueue(t) \cap S # {}
  PROVE  /\ Oldest(t, S) \in S \cap InQueue(t)
         /\ \E m \in DOMAIN queue[t] : /\ queue[t][m] = Oldest(t, S)
                                       /\ \A a \in 1..(m - 1) : queue[t][a] \notin S
<1>1. \E i \in DOMAIN queue[t] : queue[t][i] \in S
  BY DEF InQueue, ToSet
<1> DEFINE m == SelectInSeq(queue[t], LAMBDA e : e \in S)
<1>2. m \in DOMAIN queue[t] /\ queue[t][m] \in S /\ \A a \in 1..(m - 1) : queue[t][a] \notin S
  BY <1>1, FirstOf
<1>3. Oldest(t, S) = queue[t][m]
  BY DEF Oldest
<1> HIDE DEF m
<1>4. queue[t][m] \in InQueue(t)
  BY <1>2 DEF InQueue, ToSet
<1> QED BY <1>2, <1>3, <1>4

\* What an operation on a queue leaves of an order: whoever stands in the new queue
\* is one of fresh, or stood in the old one behind the same others, but for gone.
KeepsOrder(old, new, fresh, gone) ==
  \A b \in DOMAIN new :
    new[b] \notin fresh =>
      \E c \in DOMAIN old :
        /\ new[b] = old[c]
        /\ \A d \in 1..(c - 1) : old[d] \in gone \/ \E a \in 1..(b - 1) : new[a] = old[d]

\* An entry is cut out, and what was behind it moves up.
LEMMA CutOut ==
  ASSUME NEW S, NEW s \in Seq(S), NEW m \in 1..Len(s)
  PROVE  /\ RemoveAt(s, m) \in Seq(S) /\ Len(RemoveAt(s, m)) = Len(s) - 1
         /\ \A i \in 1..(Len(s) - 1) : RemoveAt(s, m)[i] = IF i < m THEN s[i] ELSE s[i + 1]
<1>1. PICK n : n = Len(s)
  OBVIOUS
<1>2. n \in Nat /\ m \in 1..n /\ \A i \in 1..n : s[i] \in S
  BY <1>1
<1>3. PICK x : x = SubSeq(s, 1, m - 1)
  OBVIOUS
<1>4. PICK y : y = SubSeq(s, m + 1, n)
  OBVIOUS
<1>5. /\ x \in Seq(S) /\ Len(x) = m - 1 /\ \A i \in 1..(m - 1) : x[i] = s[i]
  <2>1. m - 1 \in Int /\ \A i \in 1..(m - 1) : s[i] \in S
    BY <1>2
  <2> QED BY <1>2, <1>3, <2>1, SubSeqProperties
<1>6. /\ y \in Seq(S) /\ Len(y) = n - m /\ \A i \in 1..(n - m) : y[i] = s[m + i]
  <2>1. m + 1 \in Int /\ n \in Int /\ \A i \in (m + 1)..n : s[i] \in S
    BY <1>2
  <2>2. /\ y \in Seq(S) /\ Len(y) = IF m + 1 <= n THEN n - (m + 1) + 1 ELSE 0
        /\ \A i \in 1..(n - (m + 1) + 1) : y[i] = s[m + 1 + i - 1]
    BY <1>4, <2>1, SubSeqProperties
  <2>3. n - (m + 1) + 1 = n - m /\ \A i \in 1..(n - m) : m + 1 + i - 1 = m + i
    BY <1>2
  <2>4. (IF m + 1 <= n THEN n - (m + 1) + 1 ELSE 0) = n - m
    BY <1>2
  <2> QED BY <2>2, <2>3, <2>4
<1>7. PICK r : r = x \o y
  OBVIOUS
<1>8. /\ r \in Seq(S) /\ Len(r) = Len(x) + Len(y)
      /\ \A i \in 1..(Len(x) + Len(y)) : r[i] = IF i <= Len(x) THEN x[i] ELSE y[i - Len(x)]
  BY <1>5, <1>6, <1>7, ConcatProperties
<1>9. Len(x) + Len(y) = n - 1
  BY <1>2, <1>5, <1>6
<1>10. ASSUME NEW i \in 1..(n - 1)
       PROVE  r[i] = IF i < m THEN s[i] ELSE s[i + 1]
  <2>1. r[i] = IF i <= m - 1 THEN x[i] ELSE y[i - (m - 1)]
    BY <1>5, <1>8, <1>9
  <2>2. CASE i < m
    <3>1. i <= m - 1 /\ i \in 1..(m - 1)
      BY <1>2, <2>2
    <3> QED BY <1>5, <2>1, <2>2, <3>1
  <2>3. CASE ~ (i < m)
    <3>1. i - (m - 1) \in 1..(n - m) /\ m + (i - (m - 1)) = i + 1 /\ ~ (i <= m - 1)
      BY <1>2, <2>3
    <3>2. y[i - (m - 1)] = s[m + (i - (m - 1))]
      BY <1>6, <3>1
    <3> QED BY <2>1, <2>3, <3>1, <3>2
  <2> QED BY <2>2, <2>3
<1>11. RemoveAt(s, m) = r
  BY <1>1, <1>3, <1>4, <1>7 DEF RemoveAt
<1> QED BY <1>1, <1>8, <1>9, <1>10, <1>11

LEMMA RemoveOne ==
  ASSUME NEW S, NEW s \in Seq(S), NEW e
  PROVE  /\ RemoveFirst(s, e) \in Seq(S)
         /\ ToSet(RemoveFirst(s, e)) \subseteq ToSet(s)
         /\ \A x \in ToSet(s) : x # e => x \in ToSet(RemoveFirst(s, e))
         /\ KeepsOrder(s, RemoveFirst(s, e), {}, {e})
<1> DEFINE n == Len(s)
<1> SUFFICES ASSUME NEW r, r = RemoveFirst(s, e)
             PROVE  /\ r \in Seq(S)
                    /\ ToSet(r) \subseteq ToSet(s)
                    /\ \A x \in ToSet(s) : x # e => x \in ToSet(r)
                    /\ KeepsOrder(s, r, {}, {e})
  OBVIOUS
<1>1. n \in Nat /\ DOMAIN s = 1..n /\ \A i \in 1..n : s[i] \in S
  OBVIOUS
<1>2. CASE ~ \E i \in 1..n : s[i] = e
  <2>1. r = s
    BY <1>2 DEF RemoveFirst
  <2>2. KeepsOrder(s, s, {}, {e})
    BY <1>1 DEF KeepsOrder
  <2> QED BY <2>1, <2>2
<1>3. CASE \E i \in 1..n : s[i] = e
  <2>8. PICK m \in 1..n : /\ r \in Seq(S) /\ Len(r) = n - 1 /\ s[m] = e
                          /\ \A i \in 1..(n - 1) : r[i] = IF i < m THEN s[i] ELSE s[i + 1]
    <3>1. SelectInSeq(s, LAMBDA v : v = e) \in {i \in 1..n : s[i] = e}
      <4> DEFINE I == {i \in 1..n : s[i] = e}
      <4>1. I # {} /\ I \in SUBSET Nat
        BY <1>1, <1>3
      <4>2. SelectInSeq(s, LAMBDA v : v = e) = Min(I)
        BY <4>1 DEF SelectInSeq
      <4> HIDE DEF I
      <4>3. Min(I) \in I
        BY <4>1, LeastNumber
      <4> QED BY <4>2, <4>3 DEF I
    <3>2. r = RemoveAt(s, SelectInSeq(s, LAMBDA v : v = e))
      BY <1>3 DEF RemoveFirst
    <3>3. PICK m \in 1..n : s[m] = e /\ r = RemoveAt(s, m)
      BY <3>1, <3>2
    <3> QED BY <3>3, CutOut
  <2>4. m \in 1..n /\ s[m] = e
    BY <2>8
  <2> HIDE DEF n
  <2>9. DOMAIN r = 1..(n - 1)
    BY <2>8
  <2>10. ToSet(r) \subseteq ToSet(s)
    <3>1. \A i \in 1..(n - 1) : \E j \in 1..n : r[i] = s[j]
      BY <1>1, <2>4, <2>8
    <3> QED BY <1>1, <2>9, <3>1 DEF ToSet
  <2>11. \A z \in ToSet(s) : z # e => z \in ToSet(r)
    <3> SUFFICES ASSUME NEW j \in 1..n, s[j] # e PROVE \E i \in 1..(n - 1) : r[i] = s[j]
      BY <1>1, <2>9 DEF ToSet
    <3>1. CASE j < m
      BY <1>1, <2>4, <2>8, <3>1
    <3>2. CASE j > m
      <4>1. j - 1 \in 1..(n - 1) /\ ~ (j - 1 < m) /\ (j - 1) + 1 = j
        BY <1>1, <2>4, <3>2
      <4> QED BY <2>8, <4>1
    <3> QED BY <1>1, <2>4, <3>1, <3>2
  <2>12. KeepsOrder(s, r, {}, {e})
    <3> SUFFICES ASSUME NEW b \in DOMAIN r
                 PROVE  \E c \in DOMAIN s :
                          /\ r[b] = s[c]
                          /\ \A d \in 1..(c - 1) : s[d] \in {e} \/ \E a \in 1..(b - 1) : r[a] = s[d]
      BY DEF KeepsOrder
    <3>0. b \in 1..(n - 1) /\ DOMAIN s = 1..n
      BY <1>1, <2>9
    <3>1. CASE b < m
      <4>1. b \in 1..n /\ r[b] = s[b] /\ \A d \in 1..(b - 1) : r[d] = s[d]
        BY <1>1, <2>4, <2>8, <3>0, <3>0, <3>1
      <4> QED BY <3>0, <4>1
    <3>2. CASE ~ (b < m)
      <4>1. b + 1 \in 1..n /\ r[b] = s[b + 1]
        BY <1>1, <2>4, <2>8, <3>0, <3>0, <3>2
      <4>2. ASSUME NEW d \in 1..((b + 1) - 1), s[d] # e
            PROVE  \E a \in 1..(b - 1) : r[a] = s[d]
        <5>1. CASE d < m
          BY <1>1, <2>4, <2>8, <3>0, <3>0, <3>2, <5>1
        <5>2. CASE d > m
          <6>1. d - 1 \in 1..(b - 1) /\ d - 1 \in 1..(n - 1) /\ ~ (d - 1 < m) /\ (d - 1) + 1 = d
            BY <1>1, <2>4, <3>0, <5>2
          <6> QED BY <2>8, <6>1
        <5> QED BY <1>1, <2>4, <4>2, <5>1, <5>2
      <4> QED BY <3>0, <4>1, <4>2
    <3> QED BY <3>1, <3>2
  <2> QED BY <2>8, <2>10, <2>11, <2>12
<1> QED BY <1>2, <1>3

\* An entry that is written goes to the end.
LEMMA AppendOne ==
  ASSUME NEW S, NEW s \in Seq(S), NEW e \in S
  PROVE  /\ Append(s, e) \in Seq(S)
         /\ ToSet(Append(s, e)) = ToSet(s) \cup {e}
         /\ KeepsOrder(s, Append(s, e), {e}, {})
<1>1. PICK n, r : n = Len(s) /\ r = Append(s, e)
  OBVIOUS
<1>2. /\ n \in Nat /\ r \in Seq(S) /\ Len(r) = n + 1 /\ r[n + 1] = e
      /\ \A i \in 1..n : r[i] = s[i]
  BY <1>1, AppendProperties
<1>3. DOMAIN s = 1..n /\ DOMAIN r = 1..(n + 1)
  BY <1>1, <1>2
<1>4. ToSet(r) = ToSet(s) \cup {e}
  BY <1>2, <1>3 DEF ToSet
<1>5. ASSUME NEW b \in DOMAIN r, r[b] # e
      PROVE  \E c \in DOMAIN s :
               /\ r[b] = s[c]
               /\ \A d \in 1..(c - 1) : s[d] \in {} \/ \E a \in 1..(b - 1) : r[a] = s[d]
  <2>1. b \in 1..n /\ r[b] = s[b] /\ \A d \in 1..(b - 1) : d \in 1..n
    BY <1>2, <1>3, <1>5
  <2> QED BY <1>2, <1>3, <2>1
<1>6. KeepsOrder(s, r, {e}, {})
  BY <1>5 DEF KeepsOrder
<1> QED BY <1>1, <1>2, <1>4, <1>6

\* What comes back from disk goes before what is there.
LEMMA PutInFront ==
  ASSUME NEW S, NEW s \in Seq(S), NEW x \in Seq(S)
  PROVE  /\ x \o s \in Seq(S)
         /\ ToSet(x \o s) = ToSet(x) \cup ToSet(s)
         /\ KeepsOrder(s, x \o s, ToSet(x), {})
<1>1. PICK n, k, r : n = Len(s) /\ k = Len(x) /\ r = x \o s
  OBVIOUS
<1>2. /\ n \in Nat /\ k \in Nat /\ r \in Seq(S) /\ Len(r) = k + n
      /\ \A i \in 1..(k + n) : r[i] = IF i <= k THEN x[i] ELSE s[i - k]
  BY <1>1, ConcatProperties
<1>3. DOMAIN s = 1..n /\ DOMAIN x = 1..k /\ DOMAIN r = 1..(k + n)
  BY <1>1, <1>2
<1>4. \A i \in 1..k : i \in 1..(k + n) /\ r[i] = x[i]
  BY <1>2
<1>5. \A i \in 1..n : k + i \in 1..(k + n) /\ r[k + i] = s[i]
  <2> TAKE i \in 1..n
  <2>1. k + i \in 1..(k + n) /\ ~ (k + i <= k) /\ (k + i) - k = i
    BY <1>2
  <2> QED BY <1>2, <2>1
<1>6. \A b \in 1..(k + n) : b \in 1..k \/ \E i \in 1..n : b = k + i
  <2> TAKE b \in 1..(k + n)
  <2>1. b > k => b - k \in 1..n /\ b = k + (b - k)
    BY <1>2
  <2> QED BY <1>2, <2>1
<1>7. ToSet(r) = ToSet(x) \cup ToSet(s)
  <2>1. ToSet(r) \subseteq ToSet(x) \cup ToSet(s)
    BY <1>3, <1>4, <1>5, <1>6 DEF ToSet
  <2>2. ToSet(x) \subseteq ToSet(r)
    BY <1>3, <1>4 DEF ToSet
  <2>3. ToSet(s) \subseteq ToSet(r)
    BY <1>3, <1>5 DEF ToSet
  <2> QED BY <2>1, <2>2, <2>3
<1>8. ASSUME NEW b \in DOMAIN r, r[b] \notin ToSet(x)
      PROVE  \E c \in DOMAIN s :
               /\ r[b] = s[c]
               /\ \A d \in 1..(c - 1) : s[d] \in {} \/ \E a \in 1..(b - 1) : r[a] = s[d]
  <2>1. PICK c \in 1..n : b = k + c /\ r[b] = s[c]
    BY <1>3, <1>4, <1>5, <1>6, <1>8 DEF ToSet
  <2>2. \A d \in 1..(c - 1) : d \in 1..n /\ k + d \in 1..(b - 1)
    BY <1>2, <2>1
  <2> QED BY <1>3, <1>5, <2>1, <2>2
<1>9. KeepsOrder(s, r, ToSet(x), {})
  BY <1>8 DEF KeepsOrder
<1> QED BY <1>1, <1>2, <1>7, <1>9

\* The records of IndexedDB, in some order.
LEMMA InSomeOrder ==
  ASSUME NEW S \in SUBSET Entry, IsFiniteSet(S), NEW x \in SetToSeqs(S)
  PROVE  x \in Seq(Entry) /\ ToSet(x) \subseteq S
<1>1. Cardinality(S) \in Nat
  BY FS_CardinalityType
<1>2. x \in [1..Cardinality(S) -> S]
  BY DEF SetToSeqs
<1> QED BY <1>1, <1>2 DEF ToSet

-----------------------------------------------------------------------------
(* The attempts the server has received.                                    *)

Progress == {"arrived", "claimed", "stored", "told", "failed", "answered"}

Records == [tab : Tab, entry : Entry, live : BOOLEAN, pc : Progress]

\* No attempt is forgotten, nor whose it is.
Onward ==
  /\ sends' \in Seq(Records) /\ Len(sends) \in Nat /\ Len(sends') \in Nat
  /\ Len(sends) <= Len(sends')
  /\ \A n \in Attempt : n \in Attempt' /\ sends'[n].entry = sends[n].entry

\* One attempt gets on, and no other changes.
GetsOn(n, step) ==
  /\ Attempt' = Attempt /\ Len(sends') = Len(sends)
  /\ \A m \in Attempt : sends'[m].pc = IF m = n THEN step ELSE sends[m].pc

\* Attempts may lose their socket, and keep where they are.
Untouched ==
  /\ Attempt' = Attempt /\ Len(sends') = Len(sends)
  /\ \A m \in Attempt : sends'[m].pc = sends[m].pc

\* There is one attempt more, for entry e.
Emitted(e) ==
  /\ Len(sends') = Len(sends) + 1 /\ Attempt' = Attempt \cup {Len(sends) + 1}
  /\ Len(sends) + 1 \notin Attempt
  /\ \A m \in Attempt : sends'[m].pc = sends[m].pc
  /\ sends'[Len(sends) + 1].pc = "arrived" /\ sends'[Len(sends) + 1].entry = e

LEMMA GetsOnEffect ==
  ASSUME sends \in Seq(Records), NEW n \in Attempt, NEW step \in Progress,
         sends' = [sends EXCEPT ![n].pc = step]
  PROVE  Onward /\ GetsOn(n, step)
<1>1. Len(sends) \in Nat /\ DOMAIN sends = Attempt /\ \A m \in Attempt : sends[m] \in Records
  BY DEF Attempt
<1>2. PICK r : r = [sends[n] EXCEPT !.pc = step]
  OBVIOUS
<1>3. r \in Records /\ r.entry = sends[n].entry /\ r.pc = step
  BY <1>1, <1>2 DEF Records
<1>4. sends' = [sends EXCEPT ![n] = r]
  BY <1>2
<1>5. /\ sends' \in Seq(Records) /\ Len(sends') = Len(sends)
      /\ \A m \in 1..Len(sends) : sends'[m] = IF m = n THEN r ELSE sends[m]
  <2>1. n \in 1..Len(sends) /\ r \in Records
    BY <1>3 DEF Attempt
  <2>2. /\ [sends EXCEPT ![n] = r] \in Seq(Records)
        /\ Len([sends EXCEPT ![n] = r]) = Len(sends)
    BY <2>1, ExceptSeq
  <2>3. \A m \in 1..Len(sends) : sends'[m] = IF m = n THEN r ELSE sends[m]
    BY <1>1, <1>4 DEF Attempt
  <2> QED BY <1>4, <2>2, <2>3
<1> QED BY <1>1, <1>3, <1>5 DEF Attempt, Onward, GetsOn

LEMMA DeadEffect ==
  ASSUME sends \in Seq(Records), NEW t \in Tab,
         sends' = [n \in Attempt |->
                    IF sends[n].tab = t THEN [sends[n] EXCEPT !.live = FALSE] ELSE sends[n]]
  PROVE  Onward /\ Untouched
<1>1. Len(sends) \in Nat /\ \A m \in Attempt : sends[m] \in Records
  BY DEF Attempt
<1>2. ASSUME NEW m \in Attempt
      PROVE  sends'[m] \in Records /\ sends'[m].entry = sends[m].entry /\ sends'[m].pc = sends[m].pc
  BY <1>1 DEF Records
<1>3. sends' \in [1..Len(sends) -> Records]
  BY <1>2 DEF Attempt
<1>4. sends' \in Seq(Records) /\ Len(sends') = Len(sends)
  BY <1>1, <1>3
<1> QED BY <1>1, <1>2, <1>4 DEF Attempt, Onward, Untouched

LEMMA EmitEffect ==
  ASSUME sends \in Seq(Records), NEW t \in Tab, NEW e \in Entry, Emits(t, e)
  PROVE  Onward /\ Emitted(e)
<1>1. PICK r : r = [tab |-> t, entry |-> e, live |-> TRUE, pc |-> "arrived"]
  OBVIOUS
<1>2. r \in Records /\ r.entry = e /\ r.pc = "arrived"
  BY <1>1 DEF Records, Progress
<1>3. sends' = Append(sends, r) /\ Len(sends) \in Nat
  BY <1>1 DEF Emits
<1>4. /\ sends' \in Seq(Records) /\ Len(sends') = Len(sends) + 1
      /\ \A m \in 1..Len(sends) : sends'[m] = sends[m]
      /\ sends'[Len(sends) + 1] = r
  BY <1>2, <1>3, AppendProperties
<1> QED BY <1>2, <1>3, <1>4 DEF Attempt, Onward, Emitted

LEMMA SameSends ==
  ASSUME sends \in Seq(Records), UNCHANGED sends
  PROVE  Onward /\ Untouched
BY DEF Onward, Untouched, Attempt

-----------------------------------------------------------------------------
(* Types.                                                                   *)

FlushStates(k) ==
  [pc : {"idle", "find", "seal", "refused", "persist", "sealed", "ack", "confirm"},
   entry : Entry \union {None}, attempt : 0..k, blocked : BOOLEAN, own : BOOLEAN]

ClientTyped(k) ==
  /\ queue \in [Tab -> Seq(Entry)]
  /\ awaiting \in [Tab -> SUBSET Entry]
  /\ failed   \in [Tab -> SUBSET Entry]
  /\ holding  \in [Tab -> SUBSET Entry]
  /\ cipher   \in [Tab -> [Entry -> 0..k]]
  /\ flush    \in [Tab -> FlushStates(k)]

BrowserTyped ==
  /\ sealed \in Kinds /\ verified \in BOOLEAN
  /\ up \in [Tab -> BOOLEAN] /\ room \in [Tab -> BOOLEAN]
  /\ page \in [Tab -> {"new", "opening", "loaded"}]
  /\ saved \subseteq Entry /\ IsFiniteSet(saved)
  /\ records \in [Tab -> SUBSET Entry] /\ \A t \in Tab : IsFiniteSet(records[t])
  /\ matched \in [Tab -> SUBSET Entry]
  /\ payload \in [Entry -> SUBSET File]
  /\ drops \in 0..MaxDrops /\ retries \in 0..MaxRetries
  /\ written \in Seq(Entry)
  /\ origin \in [Entry -> Tab \union {None}]
  /\ abandoned \subseteq Entry /\ disturbed \subseteq Entry

ServerTyped ==
  /\ sends \in Seq(Records)
  /\ rows \in Seq(Attempt)
  /\ uploads \subseteq File
  /\ echo \in [Tab -> SUBSET Attempt]
  /\ refusals \in 0..MaxRefusals

Typed == ClientTyped(Len(sends)) /\ BrowserTyped /\ ServerTyped

LEMMA TypedIsTypeOK ==
  Typed <=> TypeOK /\ IsFiniteSet(saved) /\ \A t \in Tab : IsFiniteSet(records[t])
  BY DEF Typed, ClientTyped, BrowserTyped, ServerTyped, TypeOK, FlushStates, Records, Progress

\* More attempts leave the client typed as it was.
LEMMA ClientWider ==
  ASSUME NEW k \in Nat, NEW l \in Nat, k <= l, ClientTyped(k)
  PROVE  ClientTyped(l)
<1>1. 0..k \subseteq 0..l
  OBVIOUS
<1>2. FlushStates(k) \subseteq FlushStates(l)
  BY <1>1 DEF FlushStates
<1> QED BY <1>1, <1>2 DEF ClientTyped

\* The next state of a flush that goes on.
LEMMA FlushGoesOn ==
  ASSUME NEW k \in Nat, NEW t \in Tab, flush \in [Tab -> FlushStates(k)]
  PROVE  /\ Idle \in FlushStates(k) /\ Kicked(flush[t], up[t]) \in FlushStates(k)
         /\ Kicked(flush[t], TRUE) \in FlushStates(k) /\ Ended(t) \in FlushStates(k)
<1>1. 0 \in 0..k
  OBVIOUS
<1> QED BY <1>1 DEF FlushStates, Idle, Kicked, Ended

\* removeEntry.
LEMMA RemoveTyped ==
  ASSUME Typed, NEW t \in Tab, NEW e \in Entry, RemoveEntry(t, e), UNCHANGED << flush, sends >>
  PROVE  ClientTyped(Len(sends))' /\ saved' \subseteq Entry /\ IsFiniteSet(saved')
<1>1. Len(sends) \in Nat /\ queue[t] \in Seq(Entry)
  BY DEF Typed, ServerTyped, ClientTyped
<1>2. RemoveFirst(queue[t], e) \in Seq(Entry)
  BY <1>1, RemoveOne
<1>3. saved' \subseteq Entry /\ IsFiniteSet(saved')
  BY FS_RemoveElement DEF RemoveEntry, Typed, BrowserTyped
<1>4. 0 \in 0..Len(sends)
  BY <1>1
<1>5. cipher' \in [Tab -> [Entry -> 0..Len(sends)]]
  BY <1>4 DEF RemoveEntry, Typed, ClientTyped
<1> QED BY <1>2, <1>3, <1>5 DEF RemoveEntry, Typed, ClientTyped

\* Steps that leave the server as it is.
LEMMA UserTyped ==
  ASSUME Typed, NEW t \in Tab, User(t)
  PROVE  Typed'
<1>1. /\ Len(sends) \in Nat /\ flush \in [Tab -> FlushStates(Len(sends))]
      /\ queue[t] \in Seq(Entry) /\ ClientTyped(Len(sends)) /\ BrowserTyped /\ ServerTyped
  BY DEF Typed, ServerTyped, ClientTyped
<1>2. ASSUME Kick(t), UNCHANGED sends PROVE flush' \in [Tab -> FlushStates(Len(sends'))]
  BY <1>1, <1>2, FlushGoesOn DEF Kick
<1>3. ASSUME NEW e \in Entry, NEW hold \in BOOLEAN, Write(t, e, hold)
      PROVE  Typed'
  <2>1. queue' \in [Tab -> Seq(Entry)] /\ written' \in Seq(Entry)
    <3>1. Append(queue[t], e) \in Seq(Entry) /\ Append(written, e) \in Seq(Entry)
      BY <1>1, AppendOne DEF BrowserTyped
    <3> QED BY <1>1, <1>3, <3>1 DEF Write, ClientTyped
  <2>2. flush' \in [Tab -> FlushStates(Len(sends'))]
    BY <1>1, <1>2, <1>3 DEF Write
  <2>3. ClientTyped(Len(sends))'
    BY <1>1, <1>3, <2>1, <2>2 DEF Write, ClientTyped
  <2>4. BrowserTyped'
    BY <1>1, <1>3, <2>1 DEF Write, BrowserTyped, net
  <2>5. ServerTyped'
    BY <1>1, <1>3 DEF Write, ServerTyped, Attempt
  <2> QED BY <2>3, <2>4, <2>5 DEF Typed
<1>4. ASSUME NEW e \in Entry, Release(t, e)
      PROVE  Typed'
  <2>1. flush' \in [Tab -> FlushStates(Len(sends'))]
    BY <1>1, <1>2, <1>4 DEF Release
  <2>2. ClientTyped(Len(sends))'
    BY <1>1, <1>4, <2>1 DEF Release, ClientTyped
  <2>3. BrowserTyped' /\ ServerTyped'
    BY <1>1, <1>4 DEF Release, BrowserTyped, ServerTyped, net, ghost, Attempt
  <2> QED BY <2>2, <2>3 DEF Typed
<1>5. ASSUME NEW e \in Entry, FailHold(t, e)
      PROVE  Typed'
  <2>1. ClientTyped(Len(sends))'
    BY <1>1, <1>5 DEF FailHold, ClientTyped
  <2>2. BrowserTyped' /\ ServerTyped'
    BY <1>1, <1>5 DEF FailHold, BrowserTyped, ServerTyped, net, ghost, browser, Attempt
  <2> QED BY <2>1, <2>2 DEF Typed
<1>6. ASSUME NEW e \in Entry, Retry(t, e)
      PROVE  Typed'
  <2>1. flush' \in [Tab -> FlushStates(Len(sends'))]
    BY <1>1, <1>2, <1>6 DEF Retry, server
  <2>2. ClientTyped(Len(sends))'
    BY <1>1, <1>6, <2>1 DEF Retry, ClientTyped, server
  <2>3. BrowserTyped' /\ ServerTyped'
    BY <1>1, <1>6 DEF Retry, BrowserTyped, ServerTyped, net, ghost, server, Attempt
  <2> QED BY <2>2, <2>3 DEF Typed
<1>7. ASSUME NEW e \in Entry, Discard(t, e)
      PROVE  Typed'
  <2>1. ClientTyped(Len(sends))' /\ saved' \subseteq Entry /\ IsFiniteSet(saved')
    BY <1>7, RemoveTyped DEF Discard, server
  <2>2. BrowserTyped' /\ ServerTyped'
    BY <1>1, <1>7, <2>1 DEF Discard, BrowserTyped, ServerTyped, net, server, Attempt
  <2> QED BY <2>1, <2>2 DEF Typed
<1>8. CASE Verify(t)
  <2>1. flush' \in [Tab -> FlushStates(Len(sends'))]
    <3>1. CASE flush[t].pc = "idle"
      BY <1>2, <1>8, <3>1 DEF Verify, server
    <3>2. CASE flush[t].pc # "idle"
      <4>1. [flush[t] EXCEPT !.own = FALSE] \in FlushStates(Len(sends))
        <5>1. PICK k : k = Len(sends)
          OBVIOUS
        <5>2. flush[t] \in FlushStates(k)
          BY <1>1, <5>1
        <5>3. [flush[t] EXCEPT !.own = FALSE] \in FlushStates(k)
          BY <5>2 DEF FlushStates
        <5> QED BY <5>1, <5>3
      <4> QED BY <1>1, <1>8, <3>2, <4>1 DEF Verify, server
    <3> QED BY <3>1, <3>2
  <2>2. ClientTyped(Len(sends))'
    BY <1>1, <1>8, <2>1 DEF Verify, ClientTyped, server
  <2>3. BrowserTyped' /\ ServerTyped'
    BY <1>1, <1>8 DEF Verify, BrowserTyped, ServerTyped, net, ghost, server, Attempt
  <2> QED BY <2>2, <2>3 DEF Typed
<1> QED BY <1>3, <1>4, <1>5, <1>6, <1>7, <1>8 DEF User

\* The page and its socket.
LEMMA PageTyped ==
  ASSUME Typed, NEW t \in Tab, Page(t)
  PROVE  Typed' /\ Onward /\ Untouched
<1>1. /\ Len(sends) \in Nat /\ flush \in [Tab -> FlushStates(Len(sends))] /\ sends \in Seq(Records)
      /\ queue[t] \in Seq(Entry) /\ ClientTyped(Len(sends)) /\ BrowserTyped /\ ServerTyped
  BY DEF Typed, ServerTyped, ClientTyped
<1>2. /\ Idle \in FlushStates(Len(sends))
      /\ Kicked(flush[t], up[t]) \in FlushStates(Len(sends))
      /\ Kicked(flush[t], TRUE) \in FlushStates(Len(sends))
  BY <1>1, FlushGoesOn
<1>3. CASE Restore(t)
  <2>1. PICK x \in SetToSeqs(records[t] \ InQueue(t)) : queue' = [queue EXCEPT ![t] = x \o @]
    BY <1>3 DEF Restore
  <2>2. records[t] \ InQueue(t) \in SUBSET Entry /\ IsFiniteSet(records[t] \ InQueue(t))
    BY <1>1, FS_Difference DEF BrowserTyped
  <2>3. x \o queue[t] \in Seq(Entry)
    BY <1>1, <2>1, <2>2, InSomeOrder, PutInFront
  <2>4. queue' \in [Tab -> Seq(Entry)]
    BY <1>1, <2>1, <2>3 DEF ClientTyped
  <2>5. flush' \in [Tab -> FlushStates(Len(sends'))] /\ UNCHANGED << sends, rows, uploads, refusals >>
    BY <1>1, <1>2, <1>3 DEF Restore, Kick, server
  <2>6. ClientTyped(Len(sends))'
    BY <1>1, <1>3, <2>2, <2>4, <2>5 DEF Restore, ClientTyped
  <2>7. BrowserTyped'
    <3>1. IsFiniteSet({})
      BY FS_EmptySet
    <3> QED BY <1>1, <1>3, <3>1 DEF Restore, BrowserTyped, browser
  <2>8. ServerTyped'
    BY <1>1, <1>3, <2>5 DEF Restore, ServerTyped, Attempt
  <2> QED BY <1>1, <2>5, <2>6, <2>7, <2>8, SameSends DEF Typed
<1>a. CASE Load(t)
  <2>1. UNCHANGED << sends, rows, uploads, refusals >>
    BY <1>a DEF Load, server
  <2>2. ClientTyped(Len(sends))'
    BY <1>1, <1>a, <2>1 DEF Load, ClientTyped, client
  <2>3. BrowserTyped'
    BY <1>1, <1>a DEF Load, BrowserTyped, browser, ghost
  <2>4. ServerTyped'
    BY <1>1, <1>a, <2>1 DEF Load, ServerTyped, Attempt
  <2> QED BY <1>1, <2>1, <2>2, <2>3, <2>4, SameSends DEF Typed
<1>4. CASE Reload(t)
  <2>1. Onward /\ Untouched
    BY <1>1, <1>4, DeadEffect DEF Reload
  <2>2. Len(sends') = Len(sends) /\ Attempt' = Attempt /\ sends' \in Seq(Records)
    BY <2>1 DEF Onward, Untouched
  <2>3. flush' \in [Tab -> FlushStates(Len(sends))]
    BY <1>1, <1>2, <1>4 DEF Reload
  <2>4. << >> \in Seq(Entry) /\ 0 \in 0..Len(sends)
    BY <1>1
  <2>5. cipher' \in [Tab -> [Entry -> 0..Len(sends)]]
    BY <1>1, <1>4, <2>4 DEF Reload, ClientTyped
  <2>6. ClientTyped(Len(sends))'
    BY <1>1, <1>4, <2>2, <2>3, <2>4, <2>5 DEF Reload, ClientTyped
  <2>7. InQueue(t) \subseteq Entry
    BY <1>1 DEF InQueue, ToSet
  <2>8. BrowserTyped'
    <3>1. IsFiniteSet({})
      BY FS_EmptySet
    <3> QED BY <1>1, <1>4, <2>7, <3>1 DEF Reload, BrowserTyped, browser
  <2>9. ServerTyped'
    BY <1>1, <1>4, <2>2 DEF Reload, ServerTyped
  <2> QED BY <2>1, <2>6, <2>8, <2>9 DEF Typed
<1>5. CASE Connect(t) \/ Join(t)
  <2>1. UNCHANGED << sends, rows, uploads, refusals >>
    BY <1>5 DEF Connect, Join, server
  <2>2. flush' \in [Tab -> FlushStates(Len(sends'))]
    BY <1>1, <1>2, <1>5, <2>1 DEF Connect, Join, client
  <2>3. ClientTyped(Len(sends))'
    BY <1>1, <1>5, <2>1, <2>2 DEF Connect, Join, ClientTyped, client
  <2>4. BrowserTyped'
    BY <1>1, <1>5 DEF Connect, Join, BrowserTyped, ghost, browser
  <2>5. ServerTyped'
    BY <1>1, <1>5, <2>1 DEF Connect, Join, ServerTyped, Attempt
  <2> QED BY <1>1, <2>1, <2>3, <2>4, <2>5, SameSends DEF Typed
<1>6. CASE Disconnect(t)
  <2>1. Onward /\ Untouched
    BY <1>1, <1>6, DeadEffect DEF Disconnect
  <2>2. Len(sends') = Len(sends) /\ Attempt' = Attempt /\ sends' \in Seq(Records)
    BY <2>1 DEF Onward, Untouched
  <2>3. flush' \in [Tab -> FlushStates(Len(sends))]
    BY <1>1, <1>2, <1>6 DEF Disconnect
  <2>4. ClientTyped(Len(sends))'
    BY <1>1, <1>6, <2>2, <2>3 DEF Disconnect, ClientTyped
  <2>5. BrowserTyped'
    BY <1>1, <1>6 DEF Disconnect, BrowserTyped, browser, ghost
  <2>6. ServerTyped'
    BY <1>1, <1>6, <2>2 DEF Disconnect, ServerTyped
  <2> QED BY <2>1, <2>4, <2>5, <2>6 DEF Typed
<1> QED BY <1>3, <1>a, <1>4, <1>5, <1>6 DEF Page

\* The server and the echo.
LEMMA ServerSteps ==
  ASSUME Typed, NEW n \in Attempt, Handles(n) \/ Refuses(n) \/ Fails(n)
  PROVE  /\ Typed' /\ Onward /\ Attempt' = Attempt
         /\ \E step \in Progress : sends' = [sends EXCEPT ![n].pc = step] /\ GetsOn(n, step)
<1>1. /\ Len(sends) \in Nat /\ sends \in Seq(Records)
      /\ ClientTyped(Len(sends)) /\ BrowserTyped /\ ServerTyped
  BY DEF Typed, ServerTyped
<1>2. PICK step \in Progress : sends' = [sends EXCEPT ![n].pc = step]
  BY DEF Handles, Claims, Stores, Tells, Refuses, Fails, Becomes, Progress
<1>3. Onward /\ GetsOn(n, step)
  BY <1>1, <1>2, GetsOnEffect
<1>4. Len(sends') = Len(sends) /\ Attempt' = Attempt /\ sends' \in Seq(Records)
  BY <1>3 DEF Onward, GetsOn
<1>5. UNCHANGED << client, net, ghost, browser, matched >>
  BY DEF Handles, Claims, Stores, Tells, Refuses, Fails
<1>6. ClientTyped(Len(sends))' /\ BrowserTyped'
  BY <1>1, <1>4, <1>5 DEF ClientTyped, BrowserTyped, client, net, ghost, browser
<1>7. rows' \in Seq(Attempt) /\ uploads' \subseteq File
      /\ echo' \in [Tab -> SUBSET Attempt] /\ refusals' \in 0..MaxRefusals
  <2>1. rows \in Seq(Attempt) /\ uploads \subseteq File
        /\ echo \in [Tab -> SUBSET Attempt] /\ refusals \in 0..MaxRefusals
    BY <1>1 DEF ServerTyped
  <2>2. Append(rows, n) \in Seq(Attempt)
    BY <2>1, AppendProperties
  <2>3. CASE Claims(n) \/ Refuses(n) \/ Fails(n)
    BY <2>1, <2>3 DEF Claims, Refuses, Fails
  <2>4. CASE Stores(n)
    BY <2>1, <2>2, <2>4 DEF Stores
  <2>5. CASE Tells(n)
    BY <2>1, <2>5 DEF Tells
  <2> QED BY <2>3, <2>4, <2>5 DEF Handles
<1>8. ServerTyped'
  BY <1>4, <1>7 DEF ServerTyped
<1> QED BY <1>2, <1>3, <1>4, <1>6, <1>8 DEF Typed

LEMMA HearingTyped ==
  ASSUME Typed, NEW t \in Tab, Hearing(t)
  PROVE  Typed'
<1>1. /\ Len(sends) \in Nat /\ sends \in Seq(Records) /\ queue[t] \in Seq(Entry)
      /\ ClientTyped(Len(sends)) /\ BrowserTyped /\ ServerTyped
  BY DEF Typed, ServerTyped, ClientTyped
<1>2. ASSUME NEW n \in echo[t], Hears(t, n)
      PROVE  Typed'
  <2> DEFINE alike == {e \in Sendable(t) : Matches(t, e, n)}
  <2>1. UNCHANGED << client, net, server, ghost, browser >> /\ UNCHANGED sends
    BY <1>2 DEF Hears, server
  <2>2. matched' \in [Tab -> SUBSET Entry]
    <3>1. alike # {} => Oldest(t, alike) \in Entry
      <4>1. alike \subseteq InQueue(t) /\ InQueue(t) \subseteq Entry
        BY <1>1 DEF Sendable, InQueue, ToSet
      <4>2. alike # {} => Oldest(t, alike) \in alike
        BY <1>1, <4>1, OldestIsFirst
      <4> QED BY <4>1, <4>2
    <3>2. matched' = [matched EXCEPT ![t] =
                         IF alike = {} THEN @ ELSE @ \union {Oldest(t, alike)}]
      BY <1>2 DEF Hears
    <3> HIDE DEF alike
    <3> QED BY <1>1, <3>1, <3>2 DEF BrowserTyped
  <2>3. echo' \in [Tab -> SUBSET Attempt]
    BY <1>1, <1>2 DEF Hears, ServerTyped
  <2> QED BY <1>1, <2>1, <2>2, <2>3 DEF Typed, ClientTyped, BrowserTyped, ServerTyped,
     client, net, server, ghost, browser, Attempt
<1>3. ASSUME NEW e \in Entry, Resolves(t, e)
      PROVE  Typed'
  <2>1. ClientTyped(Len(sends))' /\ saved' \subseteq Entry /\ IsFiniteSet(saved')
    BY <1>3, RemoveTyped DEF Resolves, server
  <2>2. BrowserTyped' /\ ServerTyped'
    BY <1>1, <1>3, <2>1 DEF Resolves, BrowserTyped, ServerTyped, net, server, ghost, Attempt
  <2> QED BY <2>1, <2>2 DEF Typed
<1> QED BY <1>2, <1>3 DEF Hearing

LEMMA SweepTyped ==
  ASSUME Typed, NEW f \in File, Sweeps(f)
  PROVE  Typed'
BY DEF Sweeps, Typed, ClientTyped, BrowserTyped, ServerTyped, client, net, ghost, browser, Attempt

\* The flush moves to where step says, with another entry or attempt perhaps.
LEMMA FlushMoves ==
  ASSUME NEW k \in Nat, NEW t \in Tab, flush[t] \in FlushStates(k),
         NEW e \in Entry, NEW n \in 0..k, NEW yes \in BOOLEAN,
         NEW step \in {"idle", "find", "seal", "refused", "persist", "sealed", "ack", "confirm"}
  PROVE  /\ [flush[t] EXCEPT !.pc = step] \in FlushStates(k)
         /\ [flush[t] EXCEPT !.pc = step, !.blocked = yes] \in FlushStates(k)
         /\ [flush[t] EXCEPT !.pc = step, !.entry = e, !.own = yes] \in FlushStates(k)
         /\ [flush[t] EXCEPT !.pc = step, !.entry = e, !.attempt = n] \in FlushStates(k)
BY DEF FlushStates

\* An emission, with whatever the tab remembers of it.
LEMMA EmitTyped ==
  ASSUME Typed, NEW t \in Tab, NEW e \in Entry, Emits(t, e),
         \/ UNCHANGED cipher
         \/ \E f \in Entry : cipher' = [cipher EXCEPT ![t][f] = Len(sends) + 1],
         UNCHANGED << queue, awaiting, failed, holding, net, rows, uploads, refusals, ghost,
                      browser, echo, matched >>
  PROVE  Typed' /\ Onward /\ Emitted(e)
<1> DEFINE k == Len(sends)
<1>1. /\ k \in Nat /\ sends \in Seq(Records)
      /\ ClientTyped(k) /\ BrowserTyped /\ ServerTyped
  BY DEF Typed, ServerTyped
<1>2. Onward /\ Emitted(e)
  BY <1>1, EmitEffect
<1>3. sends' \in Seq(Records) /\ Len(sends') = k + 1 /\ Attempt \subseteq Attempt'
  BY <1>2 DEF Onward, Emitted
<1>4. k + 1 \in Nat /\ k <= k + 1 /\ k + 1 \in 0..(k + 1)
  BY <1>1
<1>5. ClientTyped(k + 1)
  BY <1>1, <1>4, ClientWider
<1>6. flush' \in [Tab -> FlushStates(k + 1)]
  <2>1. flush' = [flush EXCEPT ![t] = [flush[t] EXCEPT !.pc = "ack", !.entry = e, !.attempt = k + 1]]
    BY <1>5 DEF Emits, ClientTyped
  <2>2. flush[t] \in FlushStates(k + 1)
    BY <1>5 DEF ClientTyped
  <2>3. [flush[t] EXCEPT !.pc = "ack", !.entry = e, !.attempt = k + 1] \in FlushStates(k + 1)
    BY <1>4, <2>2, FlushMoves
  <2> QED BY <1>5, <2>1, <2>3 DEF ClientTyped
<1>7. cipher' \in [Tab -> [Entry -> 0..(k + 1)]]
  <2>1. cipher \in [Tab -> [Entry -> 0..(k + 1)]]
    BY <1>5 DEF ClientTyped
  <2>2. ASSUME NEW f \in Entry, cipher' = [cipher EXCEPT ![t][f] = k + 1]
        PROVE  cipher' \in [Tab -> [Entry -> 0..(k + 1)]]
    <3>1. [cipher[t] EXCEPT ![f] = k + 1] \in [Entry -> 0..(k + 1)]
      BY <1>4, <2>1
    <3>2. cipher' = [cipher EXCEPT ![t] = [cipher[t] EXCEPT ![f] = k + 1]]
      BY <2>1, <2>2
    <3> HIDE DEF k
    <3> QED BY <2>1, <3>1, <3>2
  <2> QED BY <2>1, <2>2
<1>8. ClientTyped(Len(sends))'
  BY <1>3, <1>5, <1>6, <1>7 DEF ClientTyped
<1>9. BrowserTyped'
  BY <1>1 DEF BrowserTyped, net, ghost, browser
<1>10. rows \in Seq(Attempt')
  BY <1>1, <1>3, SeqMonotonic DEF ServerTyped
<1>11. ServerTyped'
  BY <1>1, <1>3, <1>10 DEF ServerTyped
<1> QED BY <1>2, <1>8, <1>9, <1>11 DEF Typed

\* What the loop does to the attempts.
LoopSends(t) ==
  \/ Untouched
  \/ \E e \in Entry : Emitted(e) /\ Emits(t, e) /\ (Picks(t) \/ EmitsSealed(t))
  \/ GetsOn(flush[t].attempt, "answered") /\ (AckOk(t) \/ AckError(t))

LEMMA LoopTyped ==
  ASSUME Typed, KnownInv, StoredInv, NEW t \in Tab, Loop(t)
  PROVE  Typed' /\ Onward /\ LoopSends(t)
<1> DEFINE k == Len(sends)
<1>1. /\ k \in Nat /\ sends \in Seq(Records) /\ queue[t] \in Seq(Entry)
      /\ flush \in [Tab -> FlushStates(k)] /\ flush[t] \in FlushStates(k)
      /\ ClientTyped(k) /\ BrowserTyped /\ ServerTyped
  BY DEF Typed, ServerTyped, ClientTyped
<1>2. InHand(t) => flush[t].entry \in Entry
  BY DEF KnownInv
<1>3. Sendable(t) # {} => Oldest(t, Sendable(t)) \in Entry
  <2>1. Sendable(t) \subseteq InQueue(t) /\ InQueue(t) \subseteq Entry
    BY <1>1 DEF Sendable, InQueue, ToSet
  <2> QED BY <1>1, <2>1, OldestIsFirst
\* Steps of the tab alone.
<1>4. ASSUME UNCHANGED << queue, failed, holding, cipher, net, server, ghost, sealed, verified,
                          payload, retries, echo, matched >>,
             saved' \subseteq Entry, IsFiniteSet(saved'), awaiting' \in [Tab -> SUBSET Entry],
             flush' \in [Tab -> FlushStates(k)]
      PROVE  Typed' /\ Onward /\ Untouched
  <2>1. UNCHANGED sends
    BY <1>4 DEF server
  <2>2. ClientTyped(Len(sends))' /\ BrowserTyped' /\ ServerTyped'
    BY <1>1, <1>4, <2>1 DEF ClientTyped, BrowserTyped, ServerTyped, net, server, ghost, Attempt
  <2> QED BY <1>1, <2>1, <2>2, SameSends DEF Typed
<1>5. CASE Ends(t) \/ Checks(t) \/ Blocks(t) \/ Persists(t)
  <2>1. saved' \subseteq Entry /\ IsFiniteSet(saved')
    <3>1. CASE Persists(t)
      <4>1. flush[t].entry \in Entry /\ saved' = saved \union {flush[t].entry}
        BY <1>2, <3>1 DEF Persists, InHand
      <4> QED BY <1>1, <4>1, FS_AddElement DEF BrowserTyped
    <3>2. CASE Ends(t) \/ Checks(t) \/ Blocks(t)
      BY <1>1, <3>2 DEF Ends, Checks, Blocks, browser, BrowserTyped
    <3> QED BY <1>5, <3>1, <3>2
  <2>2. awaiting' \in [Tab -> SUBSET Entry]
    <3>1. InQueue(t) \subseteq Entry
      BY <1>1 DEF InQueue, ToSet
    <3> QED BY <1>1, <1>5, <3>1 DEF Ends, Checks, Blocks, Persists, ClientTyped
  <2>3. flush' \in [Tab -> FlushStates(k)]
    <3>1. Ended(t) \in FlushStates(k)
      BY <1>1, FlushGoesOn
    <3>2. ASSUME NEW step \in {"find", "sealed", "refused"}
          PROVE  [flush[t] EXCEPT !.pc = step] \in FlushStates(k)
      BY <1>1 DEF FlushStates
    <3>3. [flush[t] EXCEPT !.pc = "persist", !.blocked = TRUE] \in FlushStates(k)
      BY <1>1 DEF FlushStates
    <3>4. CASE Ends(t)
      BY <1>1, <3>1, <3>4 DEF Ends
    <3>5. CASE Checks(t) \/ Persists(t)
      <4>1. PICK step \in {"find", "sealed", "refused"} : flush' = [flush EXCEPT ![t].pc = step]
        BY <3>5 DEF Checks, Persists
      <4> QED BY <1>1, <3>2, <4>1
    <3>6. CASE Blocks(t)
      BY <1>1, <3>3, <3>6 DEF Blocks
    <3> QED BY <1>5, <3>4, <3>5, <3>6
  <2>4. UNCHANGED << queue, failed, holding, cipher, net, server, ghost, sealed, verified,
                     payload, retries, echo, matched >>
    BY <1>5 DEF Ends, Checks, Blocks, Persists, browser
  <2> QED BY <1>4, <2>1, <2>2, <2>3, <2>4 DEF LoopSends
<1>6. CASE Picks(t)
  <2>1. CASE sealed
    <3>1. flush' = [flush EXCEPT ![t].pc = "seal", ![t].entry = Oldest(t, Sendable(t)),
                                 ![t].own = TRUE]
          /\ Sendable(t) # {}
      BY <1>6, <2>1 DEF Picks
    <3>2. ASSUME NEW e \in Entry
          PROVE  [flush[t] EXCEPT !.pc = "seal", !.entry = e, !.own = TRUE] \in FlushStates(k)
      BY <1>1 DEF FlushStates
    <3>3. flush' \in [Tab -> FlushStates(k)]
      BY <1>1, <1>3, <3>1, <3>2
    <3>4. UNCHANGED << awaiting, saved, queue, failed, holding, cipher, net, server, ghost, sealed,
                       verified, payload, retries, echo, matched >>
      BY <1>6, <2>1 DEF Picks, browser, server
    <3>5. saved' \subseteq Entry /\ IsFiniteSet(saved') /\ awaiting' \in [Tab -> SUBSET Entry]
      BY <1>1, <3>4 DEF BrowserTyped, ClientTyped
    <3> QED BY <1>4, <3>3, <3>4, <3>5 DEF LoopSends
  <2>2. CASE ~ sealed
    <3>1. /\ Emits(t, Oldest(t, Sendable(t))) /\ Sendable(t) # {} /\ UNCHANGED cipher
          /\ UNCHANGED << queue, awaiting, failed, holding, net, rows, uploads, refusals, ghost,
                          browser, echo, matched >>
      BY <1>6, <2>2 DEF Picks
    <3> QED BY <1>3, <1>6, <3>1, EmitTyped DEF LoopSends
  <2> QED BY <2>1, <2>2
<1>7. CASE EmitsSealed(t)
  <2>1. flush[t].entry \in Entry
    BY <1>2, <1>7 DEF EmitsSealed, InHand
  <2>2. UNCHANGED cipher \/ \E f \in Entry : cipher' = [cipher EXCEPT ![t][f] = Len(sends) + 1]
    BY <1>7, <2>1 DEF EmitsSealed
  <2> QED BY <1>7, <2>1, <2>2, EmitTyped DEF EmitsSealed, LoopSends
<1>8. CASE AckOk(t) \/ AckError(t)
  <2> DEFINE n == flush[t].attempt
  <2>1. n \in Attempt /\ sends' = [sends EXCEPT ![n].pc = "answered"]
    BY <1>8 DEF AckOk, AckError, StoredInv
  <2>2. Onward /\ GetsOn(n, "answered")
    BY <1>1, <2>1, GetsOnEffect DEF Progress
  <2>3. Len(sends') = k /\ Attempt' = Attempt /\ sends' \in Seq(Records)
    BY <2>2 DEF Onward, GetsOn
  <2>4. flush' \in [Tab -> FlushStates(k)]
    <3>1. PICK step \in {"find", "confirm"} : flush' = [flush EXCEPT ![t].pc = step]
      BY <1>8 DEF AckOk, AckError
    <3>2. [flush[t] EXCEPT !.pc = step] \in FlushStates(k)
      BY <1>1 DEF FlushStates
    <3> QED BY <1>1, <3>1, <3>2
  <2>5. failed' \in [Tab -> SUBSET Entry] /\ disturbed' \subseteq Entry
    <3>1. flush[t].entry \in Entry
      BY <1>2, <1>8 DEF AckOk, AckError, InHand
    <3>2. CASE AckOk(t)
      BY <1>1, <3>2 DEF AckOk, ghost, ClientTyped, BrowserTyped
    <3>3. CASE AckError(t)
      BY <1>1, <3>1, <3>3 DEF AckError, ClientTyped, BrowserTyped
    <3> QED BY <1>8, <3>2, <3>3
  <2>6. UNCHANGED << queue, awaiting, holding, cipher, net, rows, uploads, refusals, written,
                     origin, abandoned, browser, echo, matched >>
    BY <1>8 DEF AckOk, AckError, ghost
  <2>7. ClientTyped(Len(sends))' /\ BrowserTyped' /\ ServerTyped'
    BY <1>1, <2>3, <2>4, <2>5, <2>6 DEF ClientTyped, BrowserTyped, ServerTyped, net, browser
  <2> QED BY <1>8, <2>2, <2>7 DEF Typed, LoopSends
<1>9. CASE Confirms(t)
  <2>1. flush[t].entry \in Entry
    BY <1>2, <1>9 DEF Confirms, InHand
  <2>2. UNCHANGED sends
    BY <1>9 DEF Confirms, server
  <2>3. [flush[t] EXCEPT !.pc = "find"] \in FlushStates(k)
    BY <1>1 DEF FlushStates
  <2>4. flush' \in [Tab -> FlushStates(k)]
    BY <1>1, <1>9, <2>3 DEF Confirms
  <2>5. RemoveFirst(queue[t], flush[t].entry) \in Seq(Entry) /\ 0 \in 0..k
    <3>1. RemoveFirst(queue[t], flush[t].entry) \in Seq(Entry)
      BY <1>1, RemoveOne
    <3> QED BY <1>1, <3>1
  <2>6. cipher' \in [Tab -> [Entry -> 0..k]]
    BY <1>1, <1>9, <2>5 DEF Confirms, RemoveEntry, ClientTyped
  <2>7. ClientTyped(Len(sends))'
    BY <1>1, <1>9, <2>2, <2>4, <2>5, <2>6 DEF Confirms, RemoveEntry, ClientTyped
  <2>8. saved' \subseteq Entry /\ IsFiniteSet(saved')
    BY <1>1, <1>9, FS_RemoveElement DEF Confirms, RemoveEntry, BrowserTyped
  <2>9. BrowserTyped' /\ ServerTyped'
    BY <1>1, <1>9, <2>2, <2>8 DEF Confirms, BrowserTyped, ServerTyped, net, server, ghost, Attempt
  <2> QED BY <1>1, <2>2, <2>7, <2>9, SameSends DEF Typed, LoopSends
<1> QED BY <1>5, <1>6, <1>7, <1>8, <1>9 DEF Loop

-----------------------------------------------------------------------------
(* What a step does to what the properties look at.                         *)

SendInv == Typed /\ KnownInv /\ StoredInv

LEMMA NextTyped ==
  ASSUME SendInv, [Next]_vars
  PROVE  Typed' /\ Onward
<1>1. Typed /\ KnownInv /\ StoredInv /\ sends \in Seq(Records)
  BY DEF SendInv, Typed, ServerTyped
<1>2. ASSUME NEW t \in Tab, User(t) \/ Hearing(t)
      PROVE  Typed' /\ Onward
  <2>1. UNCHANGED sends
    BY <1>2 DEF User, Hearing, Verify, Write, Release, FailHold, Retry, Discard, Hears, Resolves, server
  <2> QED BY <1>1, <1>2, <2>1, UserTyped, HearingTyped, SameSends
<1>3. ASSUME NEW t \in Tab, Page(t) \/ Loop(t)
      PROVE  Typed' /\ Onward
  BY <1>1, <1>3, PageTyped, LoopTyped
<1>4. ASSUME NEW n \in Attempt, Handles(n) \/ Refuses(n) \/ Fails(n)
      PROVE  Typed' /\ Onward
  BY <1>1, <1>4, ServerSteps
<1>5. ASSUME NEW f \in File, Sweeps(f)
      PROVE  Typed' /\ Onward
  BY <1>1, <1>5, SweepTyped, SameSends DEF Sweeps
<1>6. CASE UNCHANGED vars
  <2>1. Typed'
    BY <1>1, <1>6 DEF vars, client, net, server, ghost, browser, Typed, ClientTyped, BrowserTyped,
       ServerTyped, Attempt
  <2> QED BY <1>1, <1>6, <2>1, SameSends DEF vars, server
<1> QED BY <1>2, <1>3, <1>4, <1>5, <1>6 DEF Next

\* The entry e leaves the outbox of tab u.
Removes(u, e) ==
  Discard(u, e) \/ (Confirms(u) /\ flush[u].entry = e) \/ Resolves(u, e)

LEMMA RemovesEntry ==
  ASSUME NEW u \in Tab, NEW e, Removes(u, e)
  PROVE  RemoveEntry(u, e)
BY DEF Removes, Discard, Confirms, Resolves

\* Who changes which queue.
QueueStep(u) ==
  \/ queue'[u] = queue[u]
  \/ \E e \in Entry, hold \in BOOLEAN : Write(u, e, hold) /\ queue'[u] = Append(queue[u], e)
  \/ \E e \in Entry : Removes(u, e) /\ queue'[u] = RemoveFirst(queue[u], e)
  \/ Restore(u) /\ \E x \in SetToSeqs(records[u] \ InQueue(u)) : queue'[u] = x \o queue[u]
  \/ Reload(u) /\ queue'[u] = << >>

LEMMA QueueSteps ==
  ASSUME SendInv, [Next]_vars, NEW u \in Tab
  PROVE  QueueStep(u)
<1>1. DOMAIN queue = Tab /\ \A t \in Tab : InHand(t) => flush[t].entry \in Entry
  BY DEF SendInv, Typed, ClientTyped, KnownInv
<1>2. ASSUME NEW t \in Tab, NEW e \in Entry, Removes(t, e)
      PROVE  QueueStep(u)
  <2>1. queue' = [queue EXCEPT ![t] = RemoveFirst(@, e)]
    BY <1>2, RemovesEntry DEF RemoveEntry
  <2> QED BY <1>1, <1>2, <2>1 DEF QueueStep
<1>3. ASSUME NEW t \in Tab, User(t)
      PROVE  QueueStep(u)
  <2>1. ASSUME NEW e \in Entry, NEW hold \in BOOLEAN, Write(t, e, hold)
        PROVE  QueueStep(u)
    <3>1. queue' = [queue EXCEPT ![t] = Append(@, e)]
      BY <2>1 DEF Write
    <3> QED BY <1>1, <2>1, <3>1 DEF QueueStep
  <2>2. ASSUME NEW e \in Entry, Discard(t, e)
        PROVE  QueueStep(u)
    BY <1>2, <2>2 DEF Removes
  <2>3. ASSUME Verify(t) \/ \E e \in Entry : Release(t, e) \/ FailHold(t, e) \/ Retry(t, e)
        PROVE  queue' = queue
    BY <2>3 DEF Verify, Release, FailHold, Retry
  <2> QED BY <1>3, <2>1, <2>2, <2>3 DEF User, QueueStep
<1>4. ASSUME NEW t \in Tab, Page(t)
      PROVE  QueueStep(u)
  <2>1. CASE Restore(t)
    <3>1. PICK x \in SetToSeqs(records[t] \ InQueue(t)) : queue' = [queue EXCEPT ![t] = x \o @]
      BY <2>1 DEF Restore
    <3> QED BY <1>1, <2>1, <3>1 DEF QueueStep
  <2>2. CASE Reload(t)
    <3>1. queue' = [queue EXCEPT ![t] = << >>]
      BY <2>2 DEF Reload
    <3> QED BY <1>1, <2>2, <3>1 DEF QueueStep
  <2>3. CASE Load(t) \/ Connect(t) \/ Join(t) \/ Disconnect(t)
    BY <2>3 DEF Load, Connect, Join, Disconnect, client, QueueStep
  <2> QED BY <1>4, <2>1, <2>2, <2>3 DEF Page
<1>5. ASSUME NEW t \in Tab, Loop(t)
      PROVE  QueueStep(u)
  <2>1. CASE Confirms(t)
    BY <1>1, <1>2, <2>1 DEF Confirms, Removes, InHand
  <2>2. CASE ~ Confirms(t)
    BY <1>5, <2>2 DEF Loop, Ends, Picks, Checks, Blocks, Persists, EmitsSealed, AckOk, AckError, QueueStep
  <2> QED BY <2>1, <2>2
<1>6. ASSUME NEW t \in Tab, Hearing(t)
      PROVE  QueueStep(u)
  <2>1. ASSUME NEW e \in Entry, Resolves(t, e)
        PROVE  QueueStep(u)
    BY <1>2, <2>1 DEF Removes
  <2>2. ASSUME NEW n \in echo[t], Hears(t, n)
        PROVE  queue' = queue
    BY <2>2 DEF Hears, client
  <2> QED BY <1>6, <2>1, <2>2 DEF Hearing, QueueStep
<1>7. ASSUME (\E n \in Attempt : Handles(n) \/ Refuses(n) \/ Fails(n)) \/ (\E f \in File : Sweeps(f))
              \/ UNCHANGED vars
      PROVE  QueueStep(u)
  BY <1>7 DEF Handles, Claims, Stores, Tells, Refuses, Fails, Sweeps, vars, client, QueueStep
<1> QED BY <1>3, <1>4, <1>5, <1>6, <1>7 DEF Next

\* What a page has read of the disk was there, and nothing else comes to it.
LEMMA RecordsSteps ==
  ASSUME SendInv, [Next]_vars, NEW u \in Tab
  PROVE  records'[u] \subseteq records[u] \union saved
<1>1. DOMAIN records = Tab
  BY DEF SendInv, Typed, BrowserTyped
<1>2. ASSUME NEW t \in Tab, Page(t)
      PROVE  records'[u] \subseteq records[u] \union saved
  BY <1>1, <1>2 DEF Page, Load, Restore, Reload, Connect, Join, Disconnect
<1>3. ASSUME NEW t \in Tab, User(t) \/ Loop(t) \/ Hearing(t)
      PROVE  records' = records
  BY <1>3 DEF User, Loop, Hearing, Write, Release, FailHold, Retry, Discard, Verify, Ends, Picks,
     Checks, Blocks, Persists, EmitsSealed, AckOk, AckError, Confirms, Hears, Resolves, net
<1>4. ASSUME (\E n \in Attempt : Handles(n) \/ Refuses(n) \/ Fails(n)) \/ (\E f \in File : Sweeps(f))
              \/ UNCHANGED vars
      PROVE  records' = records
  BY <1>4 DEF Handles, Claims, Stores, Tells, Refuses, Fails, Sweeps, vars, net
<1> QED BY <1>2, <1>3, <1>4 DEF Next

\* Who changes what is on disk.
SavedStep ==
  \/ saved' = saved
  \/ \E t \in Tab : Persists(t) /\ saved' = saved \cup {flush[t].entry}
  \/ \E t \in Tab, e \in Entry : Removes(t, e) /\ saved' = saved \ {e}

LEMMA SavedSteps ==
  ASSUME SendInv, [Next]_vars
  PROVE  SavedStep
<1>1. \A t \in Tab : InHand(t) => flush[t].entry \in Entry
  BY DEF SendInv, KnownInv
<1>2. ASSUME NEW t \in Tab, NEW e \in Entry, Removes(t, e)
      PROVE  SavedStep
  BY <1>2, RemovesEntry DEF RemoveEntry, SavedStep
<1>3. ASSUME NEW t \in Tab, User(t) \/ Page(t)
      PROVE  SavedStep
  <2>1. (\E e \in Entry : Discard(t, e)) \/ saved' = saved
    BY <1>3 DEF User, Page, Write, Verify, Release, FailHold, Retry, Load, Restore, Reload, Connect, Join,
       Disconnect, browser
  <2> QED BY <1>2, <2>1 DEF Removes, SavedStep
<1>4. ASSUME NEW t \in Tab, Loop(t) \/ Hearing(t)
      PROVE  SavedStep
  <2>1. Confirms(t) \/ (\E e \in Entry : Resolves(t, e)) \/ Persists(t) \/ saved' = saved
    BY <1>4 DEF Loop, Hearing, Ends, Picks, Checks, Blocks, EmitsSealed, AckOk, AckError, Hears, browser
  <2>2. CASE Confirms(t)
    BY <1>1, <1>2, <2>2 DEF Confirms, Removes, InHand
  <2> QED BY <1>2, <2>1, <2>2 DEF Removes, SavedStep, Persists
<1>5. ASSUME (\E n \in Attempt : Handles(n) \/ Refuses(n) \/ Fails(n)) \/ (\E f \in File : Sweeps(f))
              \/ UNCHANGED vars
      PROVE  SavedStep
  BY <1>5 DEF Handles, Claims, Stores, Tells, Refuses, Fails, Sweeps, vars, browser, SavedStep
<1> QED BY <1>3, <1>4, <1>5 DEF Next

\* Who takes an entry in hand, sends it, and hears of it.
FlushStep(u) ==
  /\ InHand(u)' => \/ InHand(u) /\ flush'[u].entry = flush[u].entry
                   \/ /\ Picks(u) /\ Sendable(u) # {} /\ flush'[u].entry = Oldest(u, Sendable(u))
                      /\ flush[u].pc = "find"
  /\ flush'[u].pc = "ack" =>
       \/ flush[u].pc = "ack" /\ flush'[u].attempt = flush[u].attempt
       \/ flush'[u].attempt = Len(sends) + 1 /\ Emitted(flush'[u].entry)
  /\ flush'[u].pc = "confirm" =>
       \/ flush[u].pc = "confirm"
       \/ flush[u].pc = "ack" /\ sends[flush[u].attempt].pc = "told"

LEMMA FlushSteps ==
  ASSUME SendInv, [Next]_vars, NEW u \in Tab
  PROVE  FlushStep(u)
<1>1. DOMAIN flush = Tab /\ (\A t \in Tab : flush[t] \in FlushStates(Len(sends)))
      /\ sends \in Seq(Records) /\ Typed /\ KnownInv /\ StoredInv
  BY DEF SendInv, Typed, ClientTyped, ServerTyped
<1>2. CASE flush'[u] = flush[u]
  BY <1>2 DEF FlushStep, InHand
<1>3. CASE ~ InHand(u)'
  BY <1>3 DEF FlushStep, InHand
<1>4. ASSUME flush'[u].pc = flush[u].pc, flush'[u].entry = flush[u].entry,
             flush'[u].attempt = flush[u].attempt
      PROVE  FlushStep(u)
  BY <1>4 DEF FlushStep, InHand
<1>5. ASSUME NEW t \in Tab, NEW yes, flush' = [flush EXCEPT ![t] = Kicked(@, yes)]
      PROVE  FlushStep(u)
  <2>1. flush'[u] = flush[u] \/ flush'[u] \in {flush[u], [Idle EXCEPT !.pc = "find"]}
    BY <1>1, <1>5 DEF Kicked
  <2>2. [Idle EXCEPT !.pc = "find"].pc = "find"
    BY DEF Idle
  <2> QED BY <1>2, <1>3, <2>1, <2>2 DEF InHand
<1>6. ASSUME NEW t \in Tab, NEW f, flush' = [flush EXCEPT ![t] = f], f.pc \in {"idle", "find"}
      PROVE  FlushStep(u)
  BY <1>1, <1>2, <1>3, <1>6 DEF InHand
<1>7. Idle.pc = "idle" /\ [Idle EXCEPT !.pc = "find"].pc = "find"
  BY DEF Idle
<1>8. ASSUME NEW t \in Tab, User(t)
      PROVE  FlushStep(u)
  <2>1. CASE Verify(t)
    <3>1. CASE flush[t].pc # "idle"
      <4>1. flush' = [flush EXCEPT ![t].own = FALSE]
        BY <2>1, <3>1 DEF Verify
      <4>2. flush'[u].pc = flush[u].pc /\ flush'[u].entry = flush[u].entry
            /\ flush'[u].attempt = flush[u].attempt
        BY <1>1, <4>1 DEF FlushStates
      <4> QED BY <1>4, <4>2
    <3>2. CASE flush[t].pc = "idle"
      BY <1>5, <2>1, <3>2 DEF Verify, Kick
    <3> QED BY <3>1, <3>2
  <2>2. CASE ~ Verify(t)
    <3>1. Kick(t) \/ flush' = flush
      BY <1>8, <2>2 DEF User, Write, Release, FailHold, Retry, Discard
    <3> QED BY <1>2, <1>5, <3>1 DEF Kick
  <2> QED BY <2>1, <2>2
<1>9. ASSUME NEW t \in Tab, Page(t)
      PROVE  FlushStep(u)
  <2>1. CASE Load(t) \/ Restore(t) \/ Connect(t) \/ Join(t)
    BY <1>2, <1>5, <2>1 DEF Load, Restore, Connect, Join, Kick, client
  <2>2. CASE Reload(t)
    BY <1>6, <1>7, <2>2 DEF Reload
  <2>3. CASE Disconnect(t)
    <3>1. flush' = [flush EXCEPT ![t] = IF @.pc = "ack" THEN Idle ELSE @]
      BY <2>3 DEF Disconnect
    <3> QED BY <1>1, <1>2, <1>3, <1>7, <3>1 DEF InHand
  <2> QED BY <1>9, <2>1, <2>2, <2>3 DEF Page
<1>10. ASSUME NEW t \in Tab, Loop(t)
       PROVE  FlushStep(u)
  <2>1. CASE t # u
    BY <1>1, <1>2, <1>10, <2>1 DEF Loop, Ends, Picks, Checks, Blocks, Persists, EmitsSealed, AckOk,
       AckError, Confirms, Emits
  <2>2. CASE t = u
    <3>1. CASE Ends(u)
      BY <1>6, <1>7, <3>1 DEF Ends, Ended
    <3>2. CASE Checks(u) \/ Blocks(u)
      <4>1. InHand(u) /\ flush'[u].entry = flush[u].entry
            /\ flush'[u].pc \notin {"ack", "confirm"}
        BY <1>1, <3>2 DEF Checks, Blocks, InHand, FlushStates
      <4> QED BY <4>1 DEF FlushStep
    <3>3. CASE Persists(u) \/ AckError(u) \/ Confirms(u)
      <4>1. flush' = [flush EXCEPT ![u] = [flush[u] EXCEPT !.pc = "find"]]
        BY <3>3 DEF Persists, AckError, Confirms
      <4>2. [flush[u] EXCEPT !.pc = "find"].pc = "find"
        BY <1>1 DEF FlushStates
      <4> QED BY <1>6, <4>1, <4>2
    <3>4. CASE AckOk(u)
      <4>1. /\ flush[u].pc = "ack" /\ sends[flush[u].attempt].pc = "told"
            /\ flush'[u].pc = "confirm" /\ flush'[u].entry = flush[u].entry
        BY <1>1, <3>4 DEF AckOk, FlushStates
      <4> QED BY <4>1 DEF FlushStep, InHand
    <3>5. ASSUME NEW e \in Entry, Emits(u, e),
                 \/ InHand(u) /\ e = flush[u].entry
                 \/ /\ Picks(u) /\ Sendable(u) # {} /\ e = Oldest(u, Sendable(u))
                    /\ flush[u].pc = "find"
          PROVE  FlushStep(u)
      <4>1. flush'[u].pc = "ack" /\ flush'[u].entry = e /\ flush'[u].attempt = Len(sends) + 1
        BY <1>1, <3>5 DEF Emits, FlushStates
      <4>2. Emitted(e)
        BY <1>1, <3>5, EmitEffect
      <4> QED BY <3>5, <4>1, <4>2 DEF FlushStep
    <3>6. CASE EmitsSealed(u)
      <4>1. flush[u].entry \in Entry /\ InHand(u) /\ Emits(u, flush[u].entry)
        BY <1>1, <3>6 DEF EmitsSealed, KnownInv, InHand
      <4> QED BY <3>5, <4>1
    <3>7. CASE Picks(u)
      <4>1. flush[u].pc = "find" /\ Sendable(u) # {} /\ Oldest(u, Sendable(u)) \in Entry
        <5>1. Sendable(u) \subseteq InQueue(u) /\ InQueue(u) \subseteq Entry /\ queue[u] \in Seq(Entry)
          BY <1>1 DEF Typed, ClientTyped, Sendable, InQueue, ToSet
        <5>2. flush[u].pc = "find" /\ Sendable(u) # {}
          BY <3>7 DEF Picks
        <5> QED BY <5>1, <5>2, OldestIsFirst
      <4>2. CASE sealed
        <5>1. flush'[u].pc = "seal" /\ flush'[u].entry = Oldest(u, Sendable(u))
          BY <1>1, <3>7, <4>2 DEF Picks, FlushStates
        <5> QED BY <3>7, <4>1, <5>1 DEF FlushStep
      <4>3. CASE ~ sealed
        BY <3>5, <3>7, <4>1, <4>3 DEF Picks
      <4> QED BY <4>2, <4>3
    <3> QED BY <1>10, <2>2, <3>1, <3>2, <3>3, <3>4, <3>6, <3>7 DEF Loop
  <2> QED BY <2>1, <2>2
<1>11. ASSUME (\E t \in Tab : Hearing(t)) \/ (\E n \in Attempt : Handles(n) \/ Refuses(n) \/ Fails(n))
               \/ (\E f \in File : Sweeps(f)) \/ UNCHANGED vars
       PROVE  FlushStep(u)
  BY <1>2, <1>11 DEF Hearing, Hears, Resolves, Handles, Claims, Stores, Tells, Refuses, Fails,
     Sweeps, vars, client
<1> QED BY <1>8, <1>9, <1>10, <1>11 DEF Next

\* What becomes of the attempts, and of the table of messages.
SendStep ==
  \/ Untouched /\ rows' = rows
  \/ \E u \in Tab, e \in Entry :
       Emitted(e) /\ InHand(u)' /\ flush'[u].entry = e /\ rows' = rows
  \/ \E n \in Attempt : Stores(n) /\ GetsOn(n, "stored")
  \/ \E n \in Attempt : sends[n].pc = "stored" /\ GetsOn(n, "told") /\ rows' = rows
  \/ \E n \in Attempt : Claims(n) /\ rows' = rows /\
       GetsOn(n, IF payload[sends[n].entry] \subseteq uploads THEN "claimed" ELSE "failed")
  \/ \E n \in Attempt, step \in {"failed", "answered"} : GetsOn(n, step) /\ rows' = rows

LEMMA SendSteps ==
  ASSUME SendInv, [Next]_vars
  PROVE  SendStep
<1>1. sends \in Seq(Records) /\ Typed /\ KnownInv /\ StoredInv /\ DOMAIN flush = Tab
      /\ \A t \in Tab : flush[t] \in FlushStates(Len(sends))
  BY DEF SendInv, Typed, ServerTyped, ClientTyped
<1>2. ASSUME UNCHANGED << sends, rows >>
      PROVE  SendStep
  BY <1>1, <1>2, SameSends DEF SendStep
<1>3. ASSUME NEW t \in Tab, User(t) \/ Hearing(t)
      PROVE  SendStep
  BY <1>2, <1>3 DEF User, Hearing, Verify, Write, Release, FailHold, Retry, Discard, Hears,
     Resolves, server
<1>4. ASSUME NEW t \in Tab, Page(t)
      PROVE  SendStep
  <2>1. rows' = rows
    BY <1>4 DEF Page, Load, Restore, Reload, Connect, Join, Disconnect, server
  <2> QED BY <1>1, <1>4, <2>1, PageTyped DEF SendStep
<1>5. ASSUME NEW t \in Tab, Loop(t)
      PROVE  SendStep
  <2>1. rows' = rows
    BY <1>5 DEF Loop, Ends, Picks, Checks, Blocks, Persists, EmitsSealed, AckOk, AckError, Confirms, server
  <2>2. LoopSends(t)
    BY <1>1, <1>5, LoopTyped
  <2>3. ASSUME NEW e \in Entry, Emitted(e), Emits(t, e)
        PROVE  SendStep
    <3>1. flush'[t].pc = "ack" /\ flush'[t].entry = e
      BY <1>1, <2>3 DEF Emits, FlushStates
    <3> QED BY <2>1, <2>3, <3>1 DEF SendStep, InHand
  <2>4. ASSUME AckOk(t) \/ AckError(t)
        PROVE  flush[t].attempt \in Attempt
    BY <1>1, <2>4 DEF StoredInv, AckOk, AckError
  <2> QED BY <2>1, <2>2, <2>3, <2>4 DEF LoopSends, SendStep
<1>6. ASSUME NEW n \in Attempt, Handles(n) \/ Refuses(n) \/ Fails(n)
      PROVE  SendStep
  <2>1. ASSUME NEW step \in Progress, Becomes(n, step)
        PROVE  GetsOn(n, step)
    BY <1>1, <2>1, GetsOnEffect DEF Becomes
  <2>2. CASE Stores(n)
    BY <2>1, <2>2 DEF Stores, SendStep, Progress
  <2>3. CASE Tells(n)
    BY <2>1, <2>3 DEF Tells, SendStep, Progress
  <2>4. CASE Claims(n)
    <3>1. Becomes(n, IF payload[sends[n].entry] \subseteq uploads THEN "claimed" ELSE "failed")
          /\ rows' = rows
      BY <2>4 DEF Claims
    <3>2. GetsOn(n, IF payload[sends[n].entry] \subseteq uploads THEN "claimed" ELSE "failed")
      BY <2>1, <3>1 DEF Progress
    <3> QED BY <2>4, <3>1, <3>2 DEF SendStep
  <2>5. CASE Refuses(n) \/ Fails(n)
    <3>1. Becomes(n, "failed") /\ rows' = rows
      BY <2>5 DEF Refuses, Fails
    <3> QED BY <2>1, <3>1 DEF SendStep, Progress
  <2> QED BY <1>6, <2>2, <2>3, <2>4, <2>5 DEF Handles
<1>7. ASSUME (\E f \in File : Sweeps(f)) \/ UNCHANGED vars
      PROVE  SendStep
  BY <1>2, <1>7 DEF Sweeps, vars, server
<1> QED BY <1>3, <1>4, <1>5, <1>6, <1>7 DEF Next

\* Who writes.
WriteStep ==
  \/ UNCHANGED << written, origin >>
  \/ \E t \in Tab, e \in Entry, hold \in BOOLEAN :
       /\ Write(t, e, hold) /\ ~ Known(e)
       /\ written' = Append(written, e) /\ origin' = [origin EXCEPT ![e] = t]

LEMMA WriteSteps ==
  ASSUME [Next]_vars
  PROVE  WriteStep
<1>1. ASSUME NEW t \in Tab, User(t)
      PROVE  WriteStep
  <2>1. ASSUME NEW e \in Entry, NEW hold \in BOOLEAN, Write(t, e, hold)
        PROVE  WriteStep
    BY <2>1 DEF Write, WriteStep, Known
  <2>2. ASSUME NEW e \in Entry, Release(t, e) \/ FailHold(t, e) \/ Retry(t, e) \/ Discard(t, e)
        PROVE  WriteStep
    BY <2>2 DEF Release, FailHold, Retry, Discard, ghost, WriteStep
  <2>3. CASE Verify(t)
    BY <2>3 DEF Verify, ghost, WriteStep
  <2> QED BY <1>1, <2>1, <2>2, <2>3 DEF User
<1>2. ASSUME NEW t \in Tab, Page(t) \/ Hearing(t) \/ Loop(t)
      PROVE  WriteStep
  BY <1>2 DEF Page, Hearing, Loop, Load, Restore, Reload, Connect, Join, Disconnect, Hears, Resolves,
     Ends, Picks, Checks, Blocks, Persists, EmitsSealed, AckOk, AckError, Confirms, ghost, WriteStep
<1>3. ASSUME (\E n \in Attempt : Handles(n) \/ Refuses(n) \/ Fails(n)) \/ (\E f \in File : Sweeps(f))
              \/ UNCHANGED vars
      PROVE  WriteStep
  BY <1>3 DEF Handles, Claims, Stores, Tells, Refuses, Fails, Sweeps, vars, ghost, WriteStep
<1> QED BY <1>1, <1>2, <1>3 DEF Next

\* The table only grows.
LEMMA RowsGrow ==
  ASSUME SendInv, [Next]_vars
  PROVE  /\ DOMAIN rows \subseteq DOMAIN rows'
         /\ \A i \in DOMAIN rows : rows'[i] = rows[i] /\ rows[i] \in Attempt
         /\ \A n \in Attempt : InRows(n) => InRows(n)'
         /\ \A e : Stored(e) => Stored(e)'
<1>1. /\ rows \in Seq(Attempt) /\ Onward
  BY NextTyped DEF SendInv, Typed, ServerTyped
<1>2. DOMAIN rows \subseteq DOMAIN rows' /\ \A i \in DOMAIN rows : rows'[i] = rows[i]
  <2>1. ASSUME NEW n \in Attempt, rows' = Append(rows, n)
        PROVE  DOMAIN rows \subseteq DOMAIN rows' /\ \A i \in DOMAIN rows : rows'[i] = rows[i]
    BY <1>1, <2>1, AppendProperties
  <2>2. rows' = rows \/ \E n \in Attempt : rows' = Append(rows, n)
    BY SendSteps DEF SendStep, Stores
  <2> QED BY <2>1, <2>2
<1>3. \A i \in DOMAIN rows : rows[i] \in Attempt
  BY <1>1
<1>4. ASSUME NEW e, Stored(e)
      PROVE  Stored(e)'
  <2>1. PICK i \in DOMAIN rows : sends[rows[i]].entry = e
    BY <1>4 DEF Stored
  <2>2. i \in DOMAIN rows' /\ sends'[rows'[i]].entry = e
    BY <1>1, <1>2, <1>3, <2>1 DEF Onward
  <2> QED BY <2>2 DEF Stored
<1>5. \A n \in Attempt : InRows(n) => InRows(n)'
  BY <1>2 DEF InRows
<1> QED BY <1>2, <1>3, <1>4, <1>5

-----------------------------------------------------------------------------
(* KnownInv and StoredInv hold.                                             *)

LEMMA StaysKnown ==
  ASSUME SendInv, [Next]_vars, NEW e \in Entry, Known(e)
  PROVE  Known(e)'
<1>1. DOMAIN origin = Entry
  BY DEF SendInv, Typed, BrowserTyped
<1>2. ASSUME NEW t \in Tab, NEW f \in Entry, ~ Known(f), origin' = [origin EXCEPT ![f] = t]
      PROVE  origin'[e] = origin[e]
  BY <1>1, <1>2 DEF Known
<1> QED BY <1>2, WriteSteps DEF WriteStep, Known

LEMMA NextKnown ==
  ASSUME SendInv, [Next]_vars
  PROVE  KnownInv'
<1>1. /\ Typed /\ KnownInv /\ Typed' /\ Onward /\ DOMAIN origin = Entry /\ written \in Seq(Entry)
      /\ saved \subseteq Entry /\ \A t \in Tab : queue[t] \in Seq(Entry) /\ records[t] \subseteq Entry
  BY NextTyped DEF SendInv, Typed, BrowserTyped, ClientTyped
<1>2. \A t \in Tab : InQueue(t) \subseteq Entry
  BY <1>1 DEF InQueue, ToSet
<1>3. ASSUME NEW t \in Tab, NEW e \in Entry, NEW hold \in BOOLEAN, Write(t, e, hold)
      PROVE  Known(e)'
  BY <1>1, <1>3 DEF Write, Known
<1>4. \A i \in DOMAIN written' : Known(written[i])'
  <2>1. CASE UNCHANGED << written, origin >>
    BY <1>1, <2>1 DEF KnownInv, Known
  <2>2. ASSUME NEW t \in Tab, NEW e \in Entry, NEW hold \in BOOLEAN, Write(t, e, hold),
               written' = Append(written, e)
        PROVE  \A i \in DOMAIN written' : Known(written[i])'
    <3>1. \A i \in DOMAIN written' : written'[i] = e \/ (i \in DOMAIN written /\ written'[i] = written[i])
      BY <1>1, <2>2
    <3>2. \A i \in DOMAIN written : written[i] \in Entry /\ Known(written[i])
      BY <1>1 DEF KnownInv
    <3> QED BY <1>3, <2>2, <3>1, <3>2, StaysKnown
  <2> QED BY <2>1, <2>2, WriteSteps DEF WriteStep
<1>5. ASSUME NEW t \in Tab, NEW e \in InQueue(t)'
      PROVE  Known(e)'
  <2>1. CASE e \in InQueue(t) \cup records[t]
    BY <1>1, <1>2, <2>1, StaysKnown DEF KnownInv
  <2>2. ASSUME NEW f \in Entry, NEW hold \in BOOLEAN, Write(t, f, hold), queue'[t] = Append(queue[t], f)
        PROVE  Known(e)'
    <3>1. e \in InQueue(t) \cup {f}
      <4>1. queue[t] \in Seq(Entry)
        BY <1>1 DEF Typed, ClientTyped
      <4>2. PICK i \in DOMAIN Append(queue[t], f) : e = Append(queue[t], f)[i]
        BY <1>5, <2>2 DEF InQueue, ToSet
      <4>3. Append(queue[t], f)[i] = f \/ (i \in DOMAIN queue[t] /\ Append(queue[t], f)[i] = queue[t][i])
        BY <4>1, <4>2
      <4> QED BY <4>2, <4>3 DEF InQueue, ToSet
    <3> QED BY <1>3, <2>1, <2>2, <3>1
  <2>3. ASSUME NEW f \in Entry, queue'[t] = RemoveFirst(queue[t], f)
        PROVE  e \in InQueue(t)
    BY <1>1, <2>3, RemoveOne DEF InQueue
  <2>4. ASSUME NEW x \in SetToSeqs(records[t] \ InQueue(t)), queue'[t] = x \o queue[t]
        PROVE  e \in InQueue(t) \cup records[t]
    <3>1. records[t] \ InQueue(t) \in SUBSET Entry /\ IsFiniteSet(records[t] \ InQueue(t))
      BY <1>1, FS_Difference DEF Typed, BrowserTyped
    <3>2. x \in Seq(Entry) /\ ToSet(x) \subseteq records[t]
      BY <3>1, InSomeOrder
    <3> QED BY <1>1, <2>4, <3>2, PutInFront DEF InQueue
  <2>5. queue'[t] # << >>
    BY DEF InQueue, ToSet
  <2>6. queue'[t] = queue[t] => e \in InQueue(t)
    BY DEF InQueue
  <2> QED BY <2>1, <2>2, <2>3, <2>4, <2>5, <2>6, QueueSteps DEF QueueStep
<1>6. ASSUME NEW t \in Tab, InHand(t)'
      PROVE  flush'[t].entry \in Entry /\ Known(flush[t].entry)'
  <2>1. CASE InHand(t) /\ flush'[t].entry = flush[t].entry
    BY <1>1, <2>1, StaysKnown DEF KnownInv
  <2>2. CASE Picks(t) /\ Sendable(t) # {} /\ flush'[t].entry = Oldest(t, Sendable(t))
    <3>1. Oldest(t, Sendable(t)) \in InQueue(t)
      BY <1>1, <2>2, OldestIsFirst DEF Sendable
    <3> QED BY <1>1, <1>2, <2>2, <3>1, StaysKnown DEF KnownInv
  <2> QED BY <1>6, <2>1, <2>2, FlushSteps DEF FlushStep
<1>7. ASSUME NEW n \in Attempt'
      PROVE  Known(sends[n].entry)'
  <2>1. CASE n \in Attempt
    <3>1. sends[n].entry \in Entry /\ Known(sends[n].entry) /\ sends'[n].entry = sends[n].entry
      <4>1. sends \in Seq(Records)
        BY <1>1 DEF Typed, ServerTyped
      <4>2. sends[n] \in Records
        BY <2>1, <4>1 DEF Attempt
      <4> QED BY <1>1, <2>1, <4>2 DEF Onward, Records, KnownInv
    <3> QED BY <3>1, StaysKnown
  <2>2. ASSUME NEW u \in Tab, NEW e \in Entry, Emitted(e), InHand(u)', flush'[u].entry = e, n \notin Attempt
        PROVE  Known(sends[n].entry)'
    BY <1>6, <2>2 DEF Emitted
  <2> QED BY <2>1, <2>2, SendSteps DEF SendStep, Untouched, GetsOn
<1>8. ASSUME NEW e \in saved'
      PROVE  Known(e)'
  <2>1. e \in saved \/ \E t \in Tab : InHand(t) /\ e = flush[t].entry
    BY SavedSteps DEF SavedStep, Persists, InHand
  <2> QED BY <1>1, <2>1, StaysKnown DEF KnownInv
<1>9. ASSUME NEW t \in Tab, NEW e \in records'[t]
      PROVE  Known(e)'
  BY <1>1, <1>9, RecordsSteps, StaysKnown DEF KnownInv
<1> QED BY <1>4, <1>5, <1>6, <1>7, <1>8, <1>9 DEF KnownInv

LEMMA NextStored ==
  ASSUME SendInv, [Next]_vars
  PROVE  StoredInv'
<1>1. Typed /\ Typed' /\ StoredInv /\ Onward /\ rows \in Seq(Attempt)
  BY NextTyped DEF SendInv, Typed, ServerTyped
<1>2. ASSUME NEW n \in Attempt, rows' = Append(rows, n)
      PROVE  /\ \A m : InRows(m)' <=> InRows(m) \/ m = n
             /\ InRows(n) \/ (\A i, j \in DOMAIN rows : rows[i] = rows[j] => i = j) =>
                   (InRows(n) \/ \A i, j \in DOMAIN rows' : rows'[i] = rows'[j] => i = j)
  <2>1. /\ Len(rows) \in Nat /\ DOMAIN rows = 1..Len(rows) /\ DOMAIN rows' = 1..(Len(rows) + 1)
        /\ \A i \in DOMAIN rows : rows'[i] = rows[i] /\ rows'[Len(rows) + 1] = n
    BY <1>1, <1>2, AppendProperties
  <2>2. rows'[Len(rows) + 1] = n
    BY <1>1, <1>2, AppendProperties
  <2>3. \A i \in DOMAIN rows' : i \in DOMAIN rows \/ i = Len(rows) + 1
    BY <2>1
  <2>4. DOMAIN rows \subseteq DOMAIN rows' /\ Len(rows) + 1 \in DOMAIN rows'
    BY <2>1
  <2> QED BY <2>1, <2>2, <2>3, <2>4 DEF InRows
<1>3. \A n \in Attempt' : /\ sends'[n].pc \in {"arrived", "claimed"} => ~ InRows(n)'
                          /\ sends'[n].pc \in {"stored", "told"} => InRows(n)'
  <2>0. rows' = rows => \A n : InRows(n)' <=> InRows(n)
    BY DEF InRows
  <2>1. CASE Untouched /\ rows' = rows
    BY <1>1, <2>0, <2>1 DEF StoredInv, Untouched
  <2>2. ASSUME NEW e \in Entry, Emitted(e), rows' = rows
        PROVE  \A n \in Attempt' : /\ sends'[n].pc \in {"arrived", "claimed"} => ~ InRows(n)'
                                   /\ sends'[n].pc \in {"stored", "told"} => InRows(n)'
    <3>1. ~ InRows(Len(sends) + 1)
      BY <1>1, <2>2 DEF InRows, Emitted
    <3> QED BY <1>1, <2>0, <2>2, <3>1 DEF StoredInv, Emitted
  <2>3. ASSUME NEW n \in Attempt, Stores(n), GetsOn(n, "stored")
        PROVE  \A m \in Attempt' : /\ sends'[m].pc \in {"arrived", "claimed"} => ~ InRows(m)'
                                   /\ sends'[m].pc \in {"stored", "told"} => InRows(m)'
    BY <1>1, <1>2, <2>3 DEF StoredInv, Stores, GetsOn
  <2>4. ASSUME NEW n \in Attempt, NEW step, GetsOn(n, step), rows' = rows,
               step \in {"failed", "answered"} \/ (step = "told" /\ sends[n].pc = "stored")
                 \/ (step = "claimed" /\ sends[n].pc = "arrived")
        PROVE  \A m \in Attempt' : /\ sends'[m].pc \in {"arrived", "claimed"} => ~ InRows(m)'
                                   /\ sends'[m].pc \in {"stored", "told"} => InRows(m)'
    BY <1>1, <2>0, <2>4 DEF StoredInv, GetsOn
  <2> QED BY <2>1, <2>2, <2>3, <2>4, SendSteps DEF SendStep, Claims
<1>4. \A i, j \in DOMAIN rows' : rows'[i] = rows'[j] => i = j
  <2>1. rows' = rows \/ \E n \in Attempt : rows' = Append(rows, n) /\ ~ InRows(n)
    BY <1>1, SendSteps DEF SendStep, Stores, StoredInv
  <2> QED BY <1>1, <1>2, <2>1 DEF StoredInv
<1>5. ASSUME NEW t \in Tab, flush'[t].pc = "ack"
      PROVE  flush'[t].attempt \in Attempt' /\ sends'[flush'[t].attempt].entry = flush'[t].entry
  <2>1. CASE flush[t].pc = "ack" /\ flush'[t].attempt = flush[t].attempt
    <3>1. flush'[t].entry = flush[t].entry
      BY <1>5, <2>1, FlushSteps DEF FlushStep, InHand
    <3> QED BY <1>1, <2>1, <3>1 DEF StoredInv, Onward
  <2>2. CASE flush'[t].attempt = Len(sends) + 1 /\ Emitted(flush'[t].entry)
    BY <2>2 DEF Emitted
  <2> QED BY <1>5, <2>1, <2>2, FlushSteps DEF FlushStep
<1>6. ASSUME NEW t \in Tab, flush'[t].pc = "confirm"
      PROVE  Stored(flush[t].entry)'
  <2>1. InHand(t)' /\ (flush[t].pc \in {"confirm", "ack"})
    BY <1>6, FlushSteps DEF FlushStep, InHand
  <2>2. flush'[t].entry = flush[t].entry
    BY <2>1, FlushSteps DEF FlushStep
  <2>3. Stored(flush[t].entry)
    <3>1. CASE flush[t].pc = "confirm"
      BY <1>1, <3>1 DEF StoredInv
    <3>2. CASE flush[t].pc = "ack" /\ sends[flush[t].attempt].pc = "told"
      BY <1>1, <3>2 DEF StoredInv, InRows, Stored
    <3> QED BY <1>6, <3>1, <3>2, FlushSteps DEF FlushStep
  <2> QED BY <2>2, <2>3, RowsGrow
<1> QED BY <1>3, <1>4, <1>5, <1>6 DEF StoredInv

LEMMA InitInv == Init => SendInv
<1> SUFFICES ASSUME Init PROVE SendInv
  OBVIOUS
<1>1. << >> \in Seq(Records) /\ << >> \in Seq(Entry) /\ Len(<< >>) = 0 /\ DOMAIN << >> = {}
  OBVIOUS
<1>2. Attempt = {} /\ DOMAIN rows = {} /\ DOMAIN written = {} /\ rows \in Seq(Attempt)
  BY <1>1 DEF Init, Attempt
<1>3. ClientTyped(Len(sends))
  <2>1. 0 \in 0..0 /\ Idle \in FlushStates(0)
    BY DEF Idle, FlushStates
  <2>2. Len(sends) = 0
    BY <1>1 DEF Init
  <2>3. Idle \in FlushStates(Len(sends)) /\ 0 \in 0..Len(sends)
    BY <2>1, <2>2 DEF FlushStates
  <2>4. queue \in [Tab -> Seq(Entry)] /\ awaiting \in [Tab -> SUBSET Entry]
        /\ failed \in [Tab -> SUBSET Entry] /\ holding \in [Tab -> SUBSET Entry]
    BY <1>1 DEF Init
  <2>5. cipher \in [Tab -> [Entry -> 0..Len(sends)]]
    BY <2>3 DEF Init
  <2>6. flush \in [Tab -> FlushStates(Len(sends))]
    BY <2>3 DEF Init
  <2> QED BY <2>4, <2>5, <2>6 DEF ClientTyped
<1>4. BrowserTyped
  <2>1. sealed \in Kinds /\ verified \in BOOLEAN /\ saved \subseteq Entry
        /\ written \in Seq(Entry) /\ abandoned \subseteq Entry /\ disturbed \subseteq Entry
    BY <1>1 DEF Init
  <2>4. IsFiniteSet(saved)
    <3>1. saved = {}
      BY DEF Init
    <3> QED BY <3>1, FS_EmptySet
  <2>5. \A t \in Tab : IsFiniteSet(records[t])
    BY FS_EmptySet DEF Init
  <2>2. up \in [Tab -> BOOLEAN] /\ room \in [Tab -> BOOLEAN] 
        /\ page \in [Tab -> {"new", "opening", "loaded"}] /\ records \in [Tab -> SUBSET Entry]
        /\ matched \in [Tab -> SUBSET Entry] /\ payload \in [Entry -> SUBSET File]
        /\ origin \in [Entry -> Tab \union {None}]
    BY DEF Init
  <2>3. drops \in 0..MaxDrops /\ retries \in 0..MaxRetries
    BY DEF Init
  <2> QED BY <2>1, <2>2, <2>3, <2>4, <2>5 DEF BrowserTyped
<1>5. ServerTyped
  BY <1>1, <1>2 DEF Init, ServerTyped
<1>6. KnownInv
  BY <1>2 DEF Init, KnownInv, InQueue, ToSet, InHand, Idle
<1>7. StoredInv
  BY <1>2 DEF Init, StoredInv, Idle
<1> QED BY <1>3, <1>4, <1>5, <1>6, <1>7 DEF SendInv, Typed

LEMMA NextSend == SendInv /\ [Next]_vars => SendInv'
  BY NextTyped, NextKnown, NextStored DEF SendInv

LEMMA SendInvariant == Spec => []SendInv
  BY InitInv, NextSend, PTL DEF Spec

\* Every variable keeps its type, and every attempt an acknowledgement is awaited for
\* is one the server has.
THEOREM TypeCorrect == Spec => []TypeOK
<1>1. SendInv => TypeOK
  BY TypedIsTypeOK DEF SendInv
<1> QED BY <1>1, SendInvariant, PTL

-----------------------------------------------------------------------------
(* What a tab retires was stored.                                           *)

\* Two messages that look alike to an echo are one: their texts differ, or they are
\* sealed, and then their ciphertexts do.
TellsApart == FALSE \in Kinds => \A e, f \in Entry : TextOf[e] = TextOf[f] => e = f

\* Who hears of an attempt, and what comes of it.
HearStep(u) ==
  /\ \/ echo'[u] \subseteq echo[u]
     \/ \E n \in Attempt : Tells(n) /\ echo'[u] \subseteq echo[u] \cup {n}
  /\ \/ matched'[u] \subseteq matched[u]
     \/ \E n \in echo[u] : \E e \in Entry :
          Matches(u, e, n) /\ matched'[u] = matched[u] \cup {e}
  /\ \/ cipher'[u] = cipher[u]
     \/ cipher'[u] = [e \in Entry |-> 0]
     \/ \E f \in Entry : cipher'[u] = [cipher[u] EXCEPT ![f] = 0]
     \/ \E f \in Entry : Emitted(f) /\ cipher'[u] = [cipher[u] EXCEPT ![f] = Len(sends) + 1]
  /\ sealed' = sealed

LEMMA HearSteps ==
  ASSUME SendInv, [Next]_vars, NEW u \in Tab
  PROVE  HearStep(u)
<1>1. /\ Typed /\ KnownInv /\ DOMAIN echo = Tab /\ DOMAIN matched = Tab /\ DOMAIN cipher = Tab
      /\ sends \in Seq(Records) /\ queue[u] \in Seq(Entry)
      /\ cipher \in [Tab -> [Entry -> 0..Len(sends)]]
  BY DEF SendInv, Typed, ClientTyped, BrowserTyped, ServerTyped
<1>2. ASSUME UNCHANGED << echo, matched, cipher, sealed >>
      PROVE  HearStep(u)
  BY <1>2 DEF HearStep
<1>3. ASSUME NEW t \in Tab, NEW e \in Entry, Removes(t, e)
      PROVE  HearStep(u)
  <2>1. cipher' = [cipher EXCEPT ![t][e] = 0]
    BY <1>3, RemovesEntry DEF RemoveEntry
  <2>2. cipher'[u] = cipher[u] \/ cipher'[u] = [cipher[u] EXCEPT ![e] = 0]
    BY <1>1, <2>1
  <2>3. echo' = echo /\ matched'[u] \subseteq matched[u] /\ sealed' = sealed
    <3>1. CASE Discard(t, e)
      BY <3>1 DEF Discard
    <3>2. CASE Confirms(t)
      BY <3>2 DEF Confirms, ghost
    <3>3. CASE Resolves(t, e)
      BY <1>1, <3>3 DEF Resolves, ghost
    <3> QED BY <1>3, <3>1, <3>2, <3>3 DEF Removes
  <2> QED BY <2>2, <2>3 DEF HearStep
<1>4. ASSUME NEW t \in Tab, User(t)
      PROVE  HearStep(u)
  <2>1. (\E e \in Entry : Discard(t, e)) \/ UNCHANGED << echo, matched, cipher, sealed >>
    BY <1>4 DEF User, Write, Verify, Release, FailHold, Retry, browser
  <2> QED BY <1>2, <1>3, <2>1 DEF Removes
<1>5. ASSUME NEW t \in Tab, Page(t)
      PROVE  HearStep(u)
  <2>1. CASE Load(t) \/ Restore(t) \/ Connect(t) \/ Join(t)
    BY <1>2, <2>1 DEF Load, Restore, Connect, Join, client, browser
  <2>2. CASE Reload(t) \/ Disconnect(t)
    <3>1. echo'[u] \subseteq echo[u] /\ matched'[u] \subseteq matched[u] /\ sealed' = sealed
      BY <1>1, <2>2 DEF Reload, Disconnect, browser
    <3>2. cipher'[u] = cipher[u] \/ cipher'[u] = [e \in Entry |-> 0]
      BY <1>1, <2>2 DEF Reload, Disconnect
    <3> QED BY <3>1, <3>2 DEF HearStep
  <2> QED BY <1>5, <2>1, <2>2 DEF Page
<1>6. ASSUME NEW t \in Tab, Loop(t)
      PROVE  HearStep(u)
  <2>1. CASE Confirms(t)
    <3>1. flush[t].entry \in Entry
      BY <1>1, <2>1 DEF Confirms, KnownInv, InHand
    <3> QED BY <1>3, <2>1, <3>1 DEF Removes
  <2>2. CASE EmitsSealed(t)
    <3>1. flush[t].entry \in Entry /\ Emits(t, flush[t].entry)
      BY <1>1, <2>2 DEF EmitsSealed, KnownInv, InHand
    <3>2. Emitted(flush[t].entry)
      BY <1>1, <3>1, EmitEffect
    <3>3. cipher' = cipher \/ cipher' = [cipher EXCEPT ![t][flush[t].entry] = Len(sends) + 1]
      BY <2>2 DEF EmitsSealed
    <3>4. cipher'[u] = cipher[u] \/ cipher'[u] = [cipher[u] EXCEPT ![flush[t].entry] = Len(sends) + 1]
      BY <1>1, <3>3
    <3>5. UNCHANGED << echo, matched, sealed >>
      BY <2>2 DEF EmitsSealed, browser
    <3> QED BY <3>1, <3>2, <3>4, <3>5 DEF HearStep
  <2>3. CASE ~ Confirms(t) /\ ~ EmitsSealed(t)
    BY <1>2, <1>6, <2>3 DEF Loop, Ends, Picks, Checks, Blocks, Persists, AckOk, AckError, browser
  <2> QED BY <2>1, <2>2, <2>3
<1>7. ASSUME NEW t \in Tab, NEW e \in Entry, Resolves(t, e)
      PROVE  HearStep(u)
  BY <1>3, <1>7 DEF Removes
<1>8. ASSUME NEW t \in Tab, NEW n \in echo[t], Hears(t, n)
      PROVE  HearStep(u)
  <2> DEFINE alike == {e \in Sendable(t) : Matches(t, e, n)}
  <2>1. /\ UNCHANGED << cipher, sealed >> /\ echo' = [echo EXCEPT ![t] = @ \ {n}]
        /\ matched' = [matched EXCEPT ![t] =
                         IF alike = {} THEN @ ELSE @ \union {Oldest(t, alike)}]
    BY <1>8 DEF Hears, client, browser
  <2>2. alike # {} => Oldest(t, alike) \in alike /\ Oldest(t, alike) \in Entry
    <3>1. queue[t] \in Seq(Entry)
      BY <1>1 DEF Typed, ClientTyped
    <3>2. alike \subseteq InQueue(t) /\ InQueue(t) \subseteq Entry
      BY <3>1 DEF Sendable, InQueue, ToSet
    <3> QED BY <3>1, <3>2, OldestIsFirst
  <2>3. alike # {} => Matches(t, Oldest(t, alike), n) /\ Oldest(t, alike) \in Entry
    BY <2>2
  <2>4. echo'[u] \subseteq echo[u]
    BY <1>1, <2>1
  <2> HIDE DEF alike
  <2>5. \/ matched'[u] = matched[u]
        \/ t = u /\ alike # {} /\ matched'[u] = matched[u] \union {Oldest(t, alike)}
    BY <1>1, <2>1
  <2> QED BY <1>8, <2>1, <2>3, <2>4, <2>5 DEF HearStep
<1>9. ASSUME NEW n \in Attempt, Handles(n) \/ Refuses(n) \/ Fails(n)
      PROVE  HearStep(u)
  <2>1. UNCHANGED << matched, cipher, sealed >>
    BY <1>9 DEF Handles, Claims, Stores, Tells, Refuses, Fails, client, browser
  <2>2. CASE Tells(n)
    <3>1. echo'[u] \subseteq echo[u] \cup {n}
      BY <1>1, <2>2 DEF Tells
    <3> QED BY <2>1, <2>2, <3>1 DEF HearStep
  <2>3. CASE ~ Tells(n)
    BY <1>2, <1>9, <2>1, <2>3 DEF Handles, Claims, Stores, Refuses, Fails
  <2> QED BY <2>2, <2>3
<1>10. ASSUME (\E f \in File : Sweeps(f)) \/ UNCHANGED vars
       PROVE  HearStep(u)
  BY <1>2, <1>10 DEF Sweeps, vars, client, browser
<1> QED BY <1>4, <1>5, <1>6, <1>7, <1>8, <1>9, <1>10 DEF Next, Hearing

LEMMA NextHeard ==
  ASSUME SendInv, HeardInv, TellsApart, [Next]_vars
  PROVE  HeardInv'
<1>1. /\ Typed /\ StoredInv /\ Onward /\ cipher \in [Tab -> [Entry -> 0..Len(sends)]]
      /\ sends \in Seq(Records) /\ Len(sends) \in Nat /\ sealed \in Kinds
      /\ echo \in [Tab -> SUBSET Attempt] /\ rows \in Seq(Attempt)
  <2>1. Typed /\ StoredInv /\ Onward
    BY NextTyped DEF SendInv
  <2>2. cipher \in [Tab -> [Entry -> 0..Len(sends)]] /\ sealed \in Kinds
    BY <2>1 DEF Typed, ClientTyped, BrowserTyped
  <2>3. /\ sends \in Seq(Records) /\ Len(sends) \in Nat
        /\ echo \in [Tab -> SUBSET Attempt] /\ rows \in Seq(Attempt)
    BY <2>1 DEF Typed, ServerTyped, Onward
  <2> QED BY <2>1, <2>2, <2>3
<1>2. ASSUME NEW u \in Tab, NEW n \in echo'[u]
      PROVE  InRows(n)'
  <2>1. n \in echo[u] \/ (n \in Attempt /\ sends[n].pc = "stored")
    BY HearSteps DEF HearStep, Tells
  <2>2. n \in Attempt /\ InRows(n)
    BY <1>1, <2>1 DEF HeardInv, StoredInv
  <2> QED BY <2>2, RowsGrow
<1>3. ASSUME NEW u \in Tab, NEW e \in Entry, cipher'[u][e] # 0
      PROVE  sends'[cipher'[u][e]].entry = e
  <2>1. CASE cipher'[u][e] = cipher[u][e]
    <3>1. cipher[u][e] \in Attempt
      BY <1>1, <1>3, <2>1 DEF Attempt
    <3> QED BY <1>1, <1>3, <2>1, <3>1 DEF HeardInv, Onward
  <2>2. ASSUME NEW f \in Entry, Emitted(f), cipher'[u] = [cipher[u] EXCEPT ![f] = Len(sends) + 1],
               cipher'[u][e] # cipher[u][e]
        PROVE  sends'[cipher'[u][e]].entry = e
    <3>1. e = f /\ cipher'[u][e] = Len(sends) + 1
      BY <1>1, <2>2
    <3> QED BY <2>2, <3>1 DEF Emitted
  <2>3. ASSUME cipher'[u] = cipher[u] \/ cipher'[u] = [f \in Entry |-> 0]
                 \/ \E f \in Entry : cipher'[u] = [cipher[u] EXCEPT ![f] = 0]
        PROVE  cipher'[u][e] = cipher[u][e]
    <3>1. DOMAIN cipher[u] = Entry
      BY <1>1
    <3> QED BY <1>3, <2>3, <3>1
  <2> QED BY <2>1, <2>2, <2>3, HearSteps DEF HearStep
<1>4. ASSUME NEW u \in Tab, NEW e \in matched'[u]
      PROVE  Stored(e)'
  <2>1. CASE e \in matched[u]
    BY <2>1, RowsGrow DEF HeardInv
  <2>2. ASSUME NEW n \in echo[u], e \in Entry, Matches(u, e, n)
        PROVE  Stored(e)
    <3>1. n \in Attempt /\ InRows(n) /\ sends[n].entry \in Entry
      <4>1. n \in Attempt /\ InRows(n)
        BY <1>1 DEF HeardInv
      <4>2. sends[n] \in Records
        BY <1>1, <4>1 DEF Attempt
      <4> QED BY <4>1, <4>2 DEF Records
    <3>2. sends[n].entry = e
      <4>1. CASE sealed
        <5>1. cipher[u][e] = n /\ n # 0
          BY <2>2, <3>1, <4>1 DEF Matches, Attempt
        <5> QED BY <2>2, <5>1 DEF HeardInv
      <4>2. CASE ~ sealed
        <5>1. sealed = FALSE
          BY <1>1, <4>2
        <5> QED BY <1>1, <2>2, <3>1, <5>1 DEF TellsApart, Matches
      <4> QED BY <4>1, <4>2
    <3> QED BY <3>1, <3>2 DEF InRows, Stored
  <2>3. e \in matched[u] \/ \E n \in echo[u] : e \in Entry /\ Matches(u, e, n)
    BY HearSteps DEF HearStep
  <2> QED BY <2>1, <2>2, <2>3, RowsGrow
<1> QED BY <1>2, <1>3, <1>4 DEF HeardInv

LEMMA InitHeard == Init => HeardInv
<1> SUFFICES ASSUME Init PROVE HeardInv
  OBVIOUS
<1> QED BY DEF Init, HeardInv

LEMMA HeardInvariant ==
  ASSUME TellsApart
  PROVE  Spec => [](SendInv /\ HeardInv)
<1>1. SendInv /\ HeardInv /\ [Next]_vars => (SendInv /\ HeardInv)'
  BY NextSend, NextHeard
<1> QED BY <1>1, InitInv, InitHeard, PTL DEF Spec

-----------------------------------------------------------------------------
(* Nothing is lost.                                                         *)

\* An entry leaves the outbox because the user gave it up or the server has it.
LEMMA Retired ==
  ASSUME SendInv, HeardInv, NEW u \in Tab, NEW e \in Entry, Removes(u, e)
  PROVE  e \in abandoned' \/ Stored(e)
<1>1. CASE Discard(u, e)
  BY <1>1 DEF Discard
<1>2. CASE Confirms(u) /\ flush[u].entry = e
  BY <1>2 DEF Confirms, SendInv, StoredInv
<1>3. CASE Resolves(u, e)
  BY <1>3 DEF Resolves, HeardInv
<1> QED BY <1>1, <1>2, <1>3 DEF Removes

\* What was abandoned or disturbed stays so.
LEMMA GhostsGrow ==
  ASSUME [Next]_vars
  PROVE  abandoned \subseteq abandoned' /\ disturbed \subseteq disturbed'
<1>1. ASSUME NEW t \in Tab, User(t) \/ Page(t)
      PROVE  abandoned \subseteq abandoned' /\ disturbed \subseteq disturbed'
  BY <1>1 DEF User, Page, Write, Release, FailHold, Retry, Discard, Verify, Load, Restore, Reload, Connect,
     Join, Disconnect, ghost
<1>2. ASSUME NEW t \in Tab, Loop(t) \/ Hearing(t)
      PROVE  abandoned \subseteq abandoned' /\ disturbed \subseteq disturbed'
  BY <1>2 DEF Loop, Hearing, Ends, Picks, Checks, Blocks, Persists, EmitsSealed, AckOk, AckError,
     Confirms, Hears, Resolves, ghost
<1>3. ASSUME (\E n \in Attempt : Handles(n) \/ Refuses(n) \/ Fails(n)) \/ (\E f \in File : Sweeps(f))
              \/ UNCHANGED vars
      PROVE  abandoned \subseteq abandoned' /\ disturbed \subseteq disturbed'
  BY <1>3 DEF Handles, Claims, Stores, Tells, Refuses, Fails, Sweeps, vars, ghost
<1> QED BY <1>1, <1>2, <1>3 DEF Next

LEMMA OneMore ==
  ASSUME NEW s \in Seq(Entry), NEW f \in Entry
  PROVE  ToSet(Append(s, f)) = ToSet(s) \cup {f}
<1>1. PICK n, r : n = Len(s) /\ r = Append(s, f)
  OBVIOUS
<1>2. n \in Nat /\ DOMAIN s = 1..n /\ DOMAIN r = 1..(n + 1) /\ r[n + 1] = f
      /\ \A i \in 1..n : r[i] = s[i]
  BY <1>1, AppendProperties
<1> QED BY <1>1, <1>2 DEF ToSet

\* How an entry gets into a queue, and how it gets out.
LEMMA Arrives ==
  ASSUME SendInv, [Next]_vars, NEW u \in Tab, NEW e \in InQueue(u)'
  PROVE  \/ e \in InQueue(u)
         \/ Restore(u) /\ e \in records[u]
         \/ \E hold \in BOOLEAN : Write(u, e, hold)
<1>1. queue[u] \in Seq(Entry) /\ records[u] \subseteq Entry /\ IsFiniteSet(records[u])
  BY DEF SendInv, Typed, ClientTyped, BrowserTyped
<1>2. ASSUME NEW f \in Entry, queue'[u] = Append(queue[u], f)
      PROVE  e \in InQueue(u) \/ e = f
  <2>1. ToSet(Append(queue[u], f)) = ToSet(queue[u]) \cup {f}
    BY <1>1, OneMore
  <2> QED BY <1>2, <2>1 DEF InQueue
<1>3. ASSUME NEW f \in Entry, queue'[u] = RemoveFirst(queue[u], f)
      PROVE  e \in InQueue(u)
  BY <1>1, <1>3, RemoveOne DEF InQueue
<1>4. ASSUME NEW x \in SetToSeqs(records[u] \ InQueue(u)), queue'[u] = x \o queue[u]
      PROVE  e \in InQueue(u) \cup records[u]
  <2>1. records[u] \ InQueue(u) \in SUBSET Entry /\ IsFiniteSet(records[u] \ InQueue(u))
    BY <1>1, FS_Difference
  <2>2. x \in Seq(Entry) /\ ToSet(x) \subseteq records[u]
    BY <2>1, InSomeOrder
  <2> QED BY <1>1, <1>4, <2>2, PutInFront DEF InQueue
<1>5. queue'[u] # << >>
  BY DEF InQueue, ToSet
<1>6. queue'[u] = queue[u] => e \in InQueue(u)
  BY DEF InQueue
<1> QED BY <1>2, <1>3, <1>4, <1>5, <1>6, QueueSteps DEF QueueStep

LEMMA Leaves ==
  ASSUME SendInv, [Next]_vars, NEW u \in Tab, NEW e \in InQueue(u)
  PROVE  e \in InQueue(u)' \/ Removes(u, e) \/ Reload(u)
<1>1. queue[u] \in Seq(Entry) /\ records[u] \subseteq Entry /\ IsFiniteSet(records[u])
  BY DEF SendInv, Typed, ClientTyped, BrowserTyped
<1>2. ASSUME NEW f \in Entry, queue'[u] = Append(queue[u], f)
      PROVE  e \in InQueue(u)'
  <2>1. ToSet(Append(queue[u], f)) = ToSet(queue[u]) \cup {f}
    BY <1>1, OneMore
  <2> QED BY <1>2, <2>1 DEF InQueue
<1>3. ASSUME NEW f \in Entry, queue'[u] = RemoveFirst(queue[u], f)
      PROVE  e \in InQueue(u)' \/ e = f
  BY <1>1, <1>3, RemoveOne DEF InQueue
<1>4. ASSUME NEW x \in SetToSeqs(records[u] \ InQueue(u)), queue'[u] = x \o queue[u]
      PROVE  e \in InQueue(u)'
  <2>1. records[u] \ InQueue(u) \in SUBSET Entry /\ IsFiniteSet(records[u] \ InQueue(u))
    BY <1>1, FS_Difference
  <2>2. x \in Seq(Entry)
    BY <2>1, InSomeOrder
  <2> QED BY <1>1, <1>4, <2>2, PutInFront DEF InQueue
<1>5. queue'[u] = queue[u] => e \in InQueue(u)'
  BY DEF InQueue
<1> QED BY <1>2, <1>3, <1>4, <1>5, QueueSteps DEF QueueStep

LEMMA NextLost ==
  ASSUME SendInv, HeardInv, NothingLost, [Next]_vars
  PROVE  NothingLost'
<1>1. /\ Typed /\ written \in Seq(Entry) /\ saved \subseteq Entry /\ DOMAIN queue = Tab
      /\ \A t \in Tab : queue[t] \in Seq(Entry) /\ InQueue(t) \subseteq Entry
  <2>1. Typed /\ \A t \in Tab : queue[t] \in Seq(Entry)
    BY DEF SendInv, Typed, ClientTyped
  <2> QED BY <2>1 DEF Typed, ClientTyped, BrowserTyped, InQueue, ToSet
<1> SUFFICES ASSUME NEW e \in ToSet(written'), e \notin abandoned'
             PROVE  e \in saved' \/ Stored(e)' \/ \E t \in Tab : e \in InQueue(t)'
  BY DEF NothingLost
<1>2. ASSUME NEW t \in Tab, NEW hold \in BOOLEAN, Write(t, e, hold), e \in Entry
      PROVE  e \in InQueue(t)'
  <2>1. queue'[t] = Append(queue[t], e)
    BY <1>1, <1>2 DEF Write
  <2>2. ToSet(Append(queue[t], e)) = ToSet(queue[t]) \cup {e}
    BY <1>1, <1>2, OneMore
  <2> QED BY <2>1, <2>2 DEF InQueue
<1>3. ASSUME e \in ToSet(written)
      PROVE  e \in saved' \/ Stored(e)' \/ \E t \in Tab : e \in InQueue(t)'
  <2>1. e \notin abandoned /\ e \in Entry
    BY <1>1, <1>3, GhostsGrow DEF ToSet
  <2>2. CASE Stored(e)
    BY <2>2, RowsGrow
  <2>3. CASE e \in saved
    BY <2>1, <2>3, SavedSteps, Retired, RowsGrow DEF SavedStep
  <2>4. ASSUME NEW t \in Tab, e \in InQueue(t)
        PROVE  e \in saved' \/ Stored(e)' \/ e \in InQueue(t)'
    <3>1. CASE Removes(t, e)
      BY <2>1, <3>1, Retired, RowsGrow
    <3>2. CASE Reload(t)
      <4>1. e \in saved
        BY <2>4, <3>2 DEF Reload
      <4> QED BY <2>3, <4>1, <3>2 DEF Reload, browser
    <3> QED BY <2>4, <3>1, <3>2, Leaves
  <2> QED BY <1>3, <2>1, <2>2, <2>3, <2>4 DEF NothingLost
<1>4. ASSUME NEW f \in Entry, written' = Append(written, f), e # f
      PROVE  e \in ToSet(written)
  <2>1. ToSet(Append(written, f)) = ToSet(written) \cup {f}
    BY <1>1, OneMore
  <2> QED BY <1>4, <2>1
<1> QED BY <1>2, <1>3, <1>4, WriteSteps DEF WriteStep

\* A message that was written is in an outbox, on disk or on the server until the user
\* gives it up, whatever drops, reloads, refusals and tabs there are, as long as an
\* echo tells the messages of the user apart.
THEOREM NothingIsLost ==
  ASSUME TellsApart
  PROVE  Spec => []NothingLost
<1>1. Init => NothingLost
  <2> SUFFICES ASSUME Init PROVE NothingLost
    OBVIOUS
  <2>1. ToSet(written) = {}
    BY DEF Init, ToSet
  <2> QED BY <2>1 DEF NothingLost
<1>2. SendInv /\ HeardInv /\ NothingLost /\ [Next]_vars => NothingLost'
  BY NextLost
<1> QED BY <1>1, <1>2, HeardInvariant, PTL DEF Spec

-----------------------------------------------------------------------------
(* A message with files is stored once.                                     *)

\* An upload is staged for one message.
OwnFiles == \A e, f \in Entry : e # f => FilesOf[e] \cap FilesOf[f] = {}

\* Who stages files, and who hands them to an entry.
FileStep ==
  \/ /\ payload' = payload /\ uploads' \subseteq uploads
     /\ \A u \in Tab : holding'[u] \subseteq holding[u]
  \/ \E t \in Tab, e \in Entry, hold \in BOOLEAN : Write(t, e, hold)
  \/ \E t \in Tab, e \in Entry : Release(t, e)

LEMMA FileSteps ==
  ASSUME SendInv, [Next]_vars
  PROVE  FileStep
<1>1. /\ DOMAIN holding = Tab
      /\ \A t \in Tab : InHand(t) => flush[t].entry \in Entry
  BY DEF SendInv, Typed, ClientTyped, KnownInv
<1>2. ASSUME NEW t \in Tab, NEW e \in Entry, Removes(t, e)
      PROVE  FileStep
  <2>1. holding' = [holding EXCEPT ![t] = @ \ {e}]
    BY <1>2, RemovesEntry DEF RemoveEntry
  <2>2. payload' = payload /\ uploads' = uploads
    BY <1>2 DEF Removes, Discard, Confirms, Resolves, server
  <2> QED BY <1>1, <2>1, <2>2 DEF FileStep
<1>3. ASSUME UNCHANGED payload, uploads' \subseteq uploads, UNCHANGED holding
      PROVE  FileStep
  BY <1>3 DEF FileStep
<1>4. ASSUME NEW t \in Tab, User(t)
      PROVE  FileStep
  <2>1. ASSUME NEW e \in Entry, FailHold(t, e)
        PROVE  FileStep
    <3>1. payload' = payload /\ uploads' = uploads /\ holding' = [holding EXCEPT ![t] = @ \ {e}]
      BY <2>1 DEF FailHold, browser
    <3> QED BY <1>1, <3>1 DEF FileStep
  <2>2. ASSUME Verify(t) \/ \E e \in Entry : Retry(t, e)
        PROVE  FileStep
    BY <1>3, <2>2 DEF Verify, Retry, server
  <2> QED BY <1>2, <1>4, <2>1, <2>2 DEF User, Removes, FileStep
<1>5. ASSUME NEW t \in Tab, Page(t)
      PROVE  FileStep
  <2>1. CASE Reload(t)
    <3>1. payload' = payload /\ uploads' = uploads /\ holding' = [holding EXCEPT ![t] = {}]
      BY <2>1 DEF Reload, browser
    <3> QED BY <1>1, <3>1 DEF FileStep
  <2>2. CASE ~ Reload(t)
    BY <1>3, <1>5, <2>2 DEF Page, Load, Restore, Connect, Join, Disconnect, client, browser, server
  <2> QED BY <2>1, <2>2
<1>6. ASSUME NEW t \in Tab, Loop(t)
      PROVE  FileStep
  <2>1. CASE Confirms(t)
    BY <1>1, <1>2, <2>1 DEF Confirms, Removes, InHand
  <2>2. CASE ~ Confirms(t)
    BY <1>3, <1>6, <2>2 DEF Loop, Ends, Picks, Checks, Blocks, Persists, EmitsSealed, AckOk,
       AckError, browser, server
  <2> QED BY <2>1, <2>2
<1>7. ASSUME NEW t \in Tab, Hearing(t)
      PROVE  FileStep
  BY <1>2, <1>3, <1>7 DEF Hearing, Hears, Removes, client, browser, server
<1>8. ASSUME (\E n \in Attempt : Handles(n) \/ Refuses(n) \/ Fails(n)) \/ (\E f \in File : Sweeps(f))
              \/ UNCHANGED vars
      PROVE  FileStep
  BY <1>3, <1>8 DEF Handles, Claims, Stores, Tells, Refuses, Fails, Sweeps, vars, client, browser, server
<1> QED BY <1>4, <1>5, <1>6, <1>7, <1>8 DEF Next

\* An attempt gets hold of the files of its entry when they are all there.
ClaimStep ==
  \E m \in Attempt :
    /\ \/ Claims(m) /\ payload[sends[m].entry] \subseteq uploads
       \/ Claimed(m)
    /\ \A n \in Attempt' : Claimed(n)' => n \in Attempt /\ (n = m \/ Claimed(n))

LEMMA ClaimSteps ==
  ASSUME SendInv, [Next]_vars
  PROVE  ClaimStep \/ \A n \in Attempt' : Claimed(n)' => n \in Attempt /\ Claimed(n)
<1>1. StoredInv /\ rows \in Seq(Attempt)
  BY DEF SendInv, Typed, ServerTyped
<1>2. rows' = rows => \A n : InRows(n)' <=> InRows(n)
  BY DEF InRows
<1>3. CASE Untouched /\ rows' = rows
  BY <1>2, <1>3 DEF Untouched, Claimed
<1>4. ASSUME NEW e \in Entry, Emitted(e), rows' = rows
      PROVE  \A n \in Attempt' : Claimed(n)' => n \in Attempt /\ Claimed(n)
  <2>1. ~ InRows(Len(sends) + 1)
    BY <1>1, <1>4 DEF InRows, Emitted
  <2> QED BY <1>2, <1>4, <2>1 DEF Emitted, Claimed
<1>5. ASSUME NEW m \in Attempt, Stores(m), GetsOn(m, "stored")
      PROVE  ClaimStep
  <2>1. Claimed(m)
    BY <1>5 DEF Stores, Claimed
  <2>2. \A n : InRows(n)' => InRows(n) \/ n = m
    <3>1. rows' = Append(rows, m)
      BY <1>5 DEF Stores
    <3>2. \A i \in DOMAIN rows' : rows'[i] = m \/ (i \in DOMAIN rows /\ rows'[i] = rows[i])
      BY <1>1, <3>1, AppendProperties
    <3> QED BY <3>2 DEF InRows
  <2> QED BY <1>5, <2>1, <2>2 DEF GetsOn, Claimed, ClaimStep
<1>6. ASSUME NEW m \in Attempt, Claims(m), rows' = rows,
             GetsOn(m, IF payload[sends[m].entry] \subseteq uploads THEN "claimed" ELSE "failed")
      PROVE  ClaimStep \/ \A n \in Attempt' : Claimed(n)' => n \in Attempt /\ Claimed(n)
  BY <1>2, <1>6 DEF GetsOn, Claimed, ClaimStep
<1>7. ASSUME NEW m \in Attempt, NEW step, GetsOn(m, step), rows' = rows,
             step \in {"failed", "answered"} \/ (step = "told" /\ sends[m].pc = "stored")
      PROVE  \A n \in Attempt' : Claimed(n)' => n \in Attempt /\ Claimed(n)
  BY <1>2, <1>7 DEF GetsOn, Claimed
<1> QED BY <1>3, <1>4, <1>5, <1>6, <1>7, SendSteps DEF SendStep

\* Nobody picks up an entry that is nowhere, or sends it, or stores it on disk.
LEMMA StaysOut ==
  ASSUME SendInv, [Next]_vars, NEW e \in Entry, Nowhere(e), \A t \in Tab : e \notin Sendable(t)
  PROVE  /\ \A t \in Tab : InHand(t)' => flush'[t].entry # e
         /\ \A n \in Attempt' : sends'[n].entry # e
         /\ e \notin saved' /\ \A t \in Tab : e \notin records'[t]
<1>1. Onward /\ \A t \in Tab : queue[t] \in Seq(Entry)
  BY NextTyped DEF SendInv, Typed, ClientTyped
<1>2. ASSUME NEW t \in Tab, InHand(t)'
      PROVE  flush'[t].entry # e
  <2>1. CASE InHand(t) /\ flush'[t].entry = flush[t].entry
    BY <2>1 DEF Nowhere
  <2>2. CASE Sendable(t) # {} /\ flush'[t].entry = Oldest(t, Sendable(t))
    <3>1. Oldest(t, Sendable(t)) \in Sendable(t)
      BY <1>1, <2>2, OldestIsFirst DEF Sendable
    <3> QED BY <2>2, <3>1
  <2> QED BY <1>2, <2>1, <2>2, FlushSteps DEF FlushStep
<1>3. ASSUME NEW n \in Attempt'
      PROVE  sends'[n].entry # e
  <2>1. CASE n \in Attempt
    BY <1>1, <2>1 DEF Onward, Nowhere
  <2>2. ASSUME NEW u \in Tab, NEW f \in Entry, Emitted(f), InHand(u)', flush'[u].entry = f, n \notin Attempt
        PROVE  sends'[n].entry # e
    BY <1>2, <2>2 DEF Emitted
  <2> QED BY <2>1, <2>2, SendSteps DEF SendStep, Untouched, GetsOn
<1>4. e \notin saved'
  BY SavedSteps DEF SavedStep, Persists, InHand, Nowhere
<1>5. \A t \in Tab : e \notin records'[t]
  BY RecordsSteps DEF Nowhere
<1> QED BY <1>2, <1>3, <1>4, <1>5

\* Its files stay away until it is written with them, or they land.
LEMMA FilesStay ==
  ASSUME SendInv, OwnFiles, [Next]_vars, NEW e \in Entry, Nowhere(e),
         \A t \in Tab : ~ Write(t, e, FALSE) /\ ~ Release(t, e)
  PROVE  payload'[e] = {} /\ FilesOf[e] \cap uploads' = {}
<1>1. DOMAIN payload = Entry /\ payload[e] = {} /\ FilesOf[e] \cap uploads = {}
  BY DEF SendInv, Typed, BrowserTyped, Nowhere
<1>2. CASE payload' = payload /\ uploads' \subseteq uploads
  BY <1>1, <1>2
<1>3. ASSUME NEW t \in Tab, NEW f \in Entry, NEW hold \in BOOLEAN, Write(t, f, hold)
      PROVE  payload'[e] = {} /\ FilesOf[e] \cap uploads' = {}
  <2>1. CASE f = e
    <3>1. hold = TRUE
      BY <1>3, <2>1
    <3> QED BY <1>1, <1>3, <2>1, <3>1 DEF Write
  <2>2. CASE f # e
    <3>1. uploads' \subseteq uploads \cup FilesOf[f] /\ payload'[e] = payload[e]
      BY <1>1, <1>3, <2>2 DEF Write
    <3> QED BY <1>1, <2>2, <3>1 DEF OwnFiles
  <2> QED BY <2>1, <2>2
<1>4. ASSUME NEW t \in Tab, NEW f \in Entry, Release(t, f)
      PROVE  payload'[e] = {} /\ FilesOf[e] \cap uploads' = {}
  <2>1. f # e
    BY <1>4
  <2>2. uploads' \subseteq uploads \cup FilesOf[f] /\ payload'[e] = payload[e]
    BY <1>1, <1>4, <2>1 DEF Release
  <2> QED BY <1>1, <2>1, <2>2 DEF OwnFiles
<1> QED BY <1>2, <1>3, <1>4, FileSteps DEF FileStep

\* A message the server has been sent keeps what it carries, and none of it lands anew.
LEMMA PayloadStays ==
  ASSUME SendInv, FilesInv, OwnFiles, [Next]_vars, NEW n \in Attempt
  PROVE  /\ payload'[sends[n].entry] = payload[sends[n].entry]
         /\ payload[sends[n].entry] \cap uploads = {} => payload[sends[n].entry] \cap uploads' = {}
<1> DEFINE e == sends[n].entry
<1>1. /\ DOMAIN payload = Entry /\ e \in Entry /\ Known(e) /\ ~ Nowhere(e)
      /\ payload[e] \subseteq FilesOf[e]
  <2>1. sends[n] \in Records /\ DOMAIN payload = Entry /\ Known(e)
    BY DEF SendInv, Typed, BrowserTyped, ServerTyped, Attempt, KnownInv
  <2>2. e \in Entry
    BY <2>1 DEF Records
  <2>3. ~ Nowhere(e)
    BY DEF Nowhere
  <2>4. payload[e] \subseteq FilesOf[e]
    BY <2>2 DEF FilesInv
  <2> QED BY <2>1, <2>2, <2>3, <2>4
<1> HIDE DEF e
<1>2. ASSUME NEW f \in Entry, f # e, payload'[e] = payload[e], uploads' \subseteq uploads \cup FilesOf[f]
      PROVE  payload[e] \cap uploads = {} => payload[e] \cap uploads' = {}
  BY <1>1, <1>2 DEF OwnFiles
<1>3. ASSUME NEW t \in Tab, NEW f \in Entry, NEW hold \in BOOLEAN, Write(t, f, hold)
      PROVE  f # e /\ payload'[e] = payload[e] /\ uploads' \subseteq uploads \cup FilesOf[f]
  <2>1. f # e
    BY <1>1, <1>3 DEF Write, Known
  <2> QED BY <1>1, <1>3, <2>1 DEF Write
<1>4. ASSUME NEW t \in Tab, NEW f \in Entry, Release(t, f)
      PROVE  f # e /\ payload'[e] = payload[e] /\ uploads' \subseteq uploads \cup FilesOf[f]
  <2>1. f # e
    BY <1>1, <1>4 DEF Release, FilesInv
  <2> QED BY <1>1, <1>4, <2>1 DEF Release
<1>5. /\ payload'[e] = payload[e]
      /\ payload[e] \cap uploads = {} => payload[e] \cap uploads' = {}
  BY <1>2, <1>3, <1>4, FileSteps DEF FileStep
<1> QED BY <1>5 DEF e

LEMMA NextFiles ==
  ASSUME SendInv, FilesInv, OwnFiles, [Next]_vars
  PROVE  FilesInv'
<1>1. /\ Typed /\ KnownInv /\ Onward /\ DOMAIN origin = Entry /\ DOMAIN payload = Entry
      /\ DOMAIN holding = Tab /\ \A t \in Tab : InQueue(t) \subseteq Entry /\ holding[t] \subseteq Entry
  <2>1. Typed /\ KnownInv /\ Onward /\ \A t \in Tab : queue[t] \in Seq(Entry)
    BY NextTyped DEF SendInv, Typed, ClientTyped
  <2> QED BY <2>1 DEF Typed, ClientTyped, BrowserTyped, InQueue, ToSet
<1>2. \A e \in Entry : payload'[e] \in {{}, FilesOf[e]}
  <2>1. ASSUME NEW t \in Tab, NEW f \in Entry, NEW hold \in BOOLEAN, Write(t, f, hold)
        PROVE  \A e \in Entry : payload'[e] \in {{}, FilesOf[e]}
    BY <1>1, <2>1 DEF FilesInv, Write
  <2>2. ASSUME NEW t \in Tab, NEW f \in Entry, Release(t, f)
        PROVE  \A e \in Entry : payload'[e] \in {{}, FilesOf[e]}
    BY <1>1, <2>2 DEF FilesInv, Release
  <2> QED BY <2>1, <2>2, FileSteps DEF FileStep, FilesInv
<1>3. ASSUME NEW e \in Entry, ~ Known(e)'
      PROVE  Nowhere(e)'
  <2>1. ~ Known(e) /\ Nowhere(e)
    BY <1>3, StaysKnown DEF FilesInv
  <2>2. \A t \in Tab : e \notin Sendable(t)
    BY <1>1, <2>1 DEF Sendable, KnownInv
  <2>3. \A t \in Tab : ~ Write(t, e, FALSE) /\ ~ Release(t, e)
    <3>1. ASSUME NEW t \in Tab, Write(t, e, FALSE) PROVE FALSE
      BY <1>1, <1>3, <3>1 DEF Write, Known
    <3>2. ASSUME NEW t \in Tab, Release(t, e) PROVE FALSE
      BY <2>1, <3>2 DEF Release, FilesInv, Known
    <3> QED BY <3>1, <3>2
  <2> QED BY <2>1, <2>2, <2>3, StaysOut, FilesStay DEF Nowhere
<1>4. ASSUME NEW t \in Tab, NEW e \in holding'[t]
      PROVE  Nowhere(e)' /\ origin'[e] = t /\ \A u \in Tab \ {t} : e \notin InQueue(u)'
  <2>1. CASE e \in holding[t]
    <3>1. e \in Entry /\ Nowhere(e) /\ origin[e] = t /\ \A u \in Tab \ {t} : e \notin InQueue(u)
      BY <1>1, <2>1 DEF FilesInv
    <3>2. Known(e) /\ \A u \in Tab, hold \in BOOLEAN : ~ Write(u, e, hold)
      BY <3>1 DEF Known, Write
    <3>3. ASSUME NEW u \in Tab, Release(u, e) PROVE FALSE
      <4>1. u = t
        BY <3>1, <3>3 DEF Release, FilesInv
      <4> QED BY <1>1, <1>4, <3>3, <4>1 DEF Release
    <3>4. \A u \in Tab : e \notin Sendable(u)
      BY <2>1, <3>1 DEF Sendable
    <3>5. Nowhere(e)'
      BY <3>1, <3>2, <3>3, <3>4, StaysOut, FilesStay DEF Nowhere
    <3>6. origin'[e] = t
      <4>1. ASSUME NEW u \in Tab, NEW f \in Entry, ~ Known(f), origin' = [origin EXCEPT ![f] = u]
            PROVE  origin'[e] = origin[e]
        BY <1>1, <3>1, <3>2, <4>1
      <4> QED BY <3>1, <4>1, WriteSteps DEF WriteStep
    <3>7. ASSUME NEW u \in Tab \ {t} PROVE e \notin InQueue(u)'
      BY <3>1, <3>2, Arrives DEF Nowhere
    <3> QED BY <3>5, <3>6, <3>7
  <2>2. CASE e \notin holding[t]
    <3>1. PICK u \in Tab, f \in Entry, hold \in BOOLEAN : Write(u, f, hold)
      <4>1. ASSUME NEW u \in Tab, NEW f \in Entry, Release(u, f) PROVE FALSE
        BY <1>1, <1>4, <2>2, <4>1 DEF Release
      <4> QED BY <1>4, <2>2, <4>1, FileSteps DEF FileStep
    <3>2. u = t /\ f = e /\ hold = TRUE
      BY <1>1, <1>4, <2>2, <3>1 DEF Write
    <3>3. e \in Entry /\ Write(t, e, TRUE) /\ ~ Known(e) /\ Nowhere(e)
      BY <3>1, <3>2 DEF Write, Known, FilesInv
    <3>4. \A v \in Tab : e \notin InQueue(v) /\ e \notin Sendable(v)
      BY <1>1, <3>3 DEF KnownInv, Sendable
    <3>5. \A v \in Tab : ~ Write(v, e, FALSE) /\ ~ Release(v, e)
      <4>1. ASSUME NEW v \in Tab, Release(v, e) PROVE FALSE
        BY <3>3, <4>1 DEF Release, FilesInv, Known
      <4>2. ASSUME NEW v \in Tab, Write(v, e, FALSE) PROVE FALSE
        <5>1. holding' = holding
          BY <1>1, <4>2 DEF Write, Typed, ClientTyped
        <5> QED BY <1>4, <2>2, <5>1
      <4> QED BY <4>1, <4>2
    <3>6. Nowhere(e)'
      BY <3>3, <3>4, <3>5, StaysOut, FilesStay DEF Nowhere
    <3>7. origin'[e] = t
      BY <1>1, <3>3 DEF Write
    <3>8. ASSUME NEW v \in Tab \ {t} PROVE e \notin InQueue(v)'
      <4>1. queue'[v] = queue[v]
        BY <1>1, <3>3 DEF Write, Typed, ClientTyped
      <4> QED BY <3>4, <4>1 DEF InQueue
    <3> QED BY <3>6, <3>7, <3>8
  <2> QED BY <2>1, <2>2
<1>5. ASSUME NEW n \in Attempt', Claimed(n)'
      PROVE  /\ n \in Attempt /\ sends'[n].entry = sends[n].entry
             /\ payload'[sends'[n].entry] = payload[sends[n].entry]
             /\ payload'[sends'[n].entry] \cap uploads' = {}
  <2>1. n \in Attempt /\ sends'[n].entry = sends[n].entry
        /\ payload'[sends[n].entry] = payload[sends[n].entry]
    BY <1>1, <1>5, ClaimSteps, PayloadStays DEF ClaimStep, Onward
  <2>2. CASE Claimed(n)
    BY <2>1, <2>2, PayloadStays DEF FilesInv
  <2>3. CASE Claims(n)
    BY <2>1, <2>3 DEF Claims
  <2> QED BY <1>5, <2>1, <2>2, <2>3, ClaimSteps DEF ClaimStep
<1>6. ASSUME NEW m \in Attempt', NEW n \in Attempt', Claimed(m)', Claimed(n)',
             sends'[m].entry = sends'[n].entry, payload'[sends'[n].entry] # {}
      PROVE  m = n
  <2>1. /\ m \in Attempt /\ n \in Attempt /\ sends[m].entry = sends[n].entry
        /\ payload[sends[n].entry] # {}
    BY <1>5, <1>6
  <2>2. CASE Claimed(m) /\ Claimed(n)
    BY <2>1, <2>2 DEF FilesInv
  <2>3. ASSUME NEW k \in Attempt, NEW l \in Attempt, Claimed(l), sends[k].entry = sends[l].entry,
               payload[sends[k].entry] \subseteq uploads, payload[sends[l].entry] # {}
        PROVE  FALSE
    BY <2>3 DEF FilesInv
  <2> QED BY <1>6, <2>1, <2>2, <2>3, ClaimSteps DEF ClaimStep
<1> QED BY <1>2, <1>3, <1>4, <1>5, <1>6 DEF FilesInv

\* A message that carries files is stored once, whatever is sent again after a drop, a
\* refusal or a reload: the claim of its files succeeds for one attempt only.
THEOREM FilesAreSentOnce ==
  ASSUME OwnFiles
  PROVE  Spec => []FilesOnce
<1>1. Init => FilesInv
  <2> SUFFICES ASSUME Init PROVE FilesInv
    OBVIOUS
  <2>1. Attempt = {}
    BY DEF Init, Attempt
  <2>2. \A t \in Tab : ~ InHand(t) /\ holding[t] = {}
    BY DEF Init, InHand, Idle
  <2> QED BY <2>1, <2>2 DEF Init, FilesInv, Nowhere
<1>2. SendInv /\ FilesInv /\ [Next]_vars => FilesInv'
  BY NextFiles
<1>3. SendInv /\ FilesInv => FilesOnce
  <2> SUFFICES ASSUME SendInv, FilesInv, NEW i \in DOMAIN rows, NEW j \in DOMAIN rows,
                      sends[rows[i]].entry = sends[rows[j]].entry,
                      payload[sends[rows[i]].entry] # {}
               PROVE  i = j
    BY DEF FilesOnce
  <2>1. rows[i] \in Attempt /\ rows[j] \in Attempt
    BY DEF SendInv, Typed, ServerTyped
  <2>2. Claimed(rows[i]) /\ Claimed(rows[j])
    BY DEF Claimed, InRows
  <2>3. rows[i] = rows[j]
    BY <2>1, <2>2 DEF FilesInv
  <2> QED BY <2>3 DEF SendInv, StoredInv
<1> QED BY <1>1, <1>2, <1>3, SendInvariant, PTL DEF Spec

-----------------------------------------------------------------------------
(* What nothing held up is stored in the order in which it was written.     *)

\* InOrder, said of entries and not of their places.
RowsInOrder ==
  \A e, f \in Calm : Before(e, f) =>
    \A k \in DOMAIN rows : sends[rows[k]].entry = f => \E l \in 1..k : sends[rows[l]].entry = e

\* What fails or is held is disturbed.
LEMMA Disturbs ==
  ASSUME SendInv, [Next]_vars, NEW u \in Tab, NEW e \in holding'[u] \union failed'[u]
  PROVE  e \in holding[u] \union failed[u] \/ e \in disturbed'
<1>1. DOMAIN holding = Tab /\ DOMAIN failed = Tab /\ KnownInv
  BY DEF SendInv, Typed, ClientTyped
<1>2. ASSUME UNCHANGED << holding, failed >>
      PROVE  e \in holding[u] \union failed[u]
  BY <1>2
<1>3. ASSUME NEW t \in Tab, NEW f \in Entry, Removes(t, f)
      PROVE  e \in holding[u] \union failed[u]
  <2>1. holding' = [holding EXCEPT ![t] = @ \ {f}] /\ failed' = [failed EXCEPT ![t] = @ \ {f}]
    BY <1>3, RemovesEntry DEF RemoveEntry
  <2> QED BY <1>1, <2>1
<1>4. ASSUME NEW t \in Tab, User(t)
      PROVE  e \in holding[u] \union failed[u] \/ e \in disturbed'
  <2>1. ASSUME NEW f \in Entry, NEW hold \in BOOLEAN, Write(t, f, hold)
        PROVE  e \in holding[u] \union failed[u] \/ e \in disturbed'
    BY <1>1, <2>1 DEF Write
  <2>2. ASSUME NEW f \in Entry, Release(t, f) \/ FailHold(t, f) \/ Retry(t, f)
        PROVE  e \in holding[u] \union failed[u]
    BY <1>1, <2>2 DEF Release, FailHold, Retry
  <2>3. CASE Verify(t)
    BY <1>2, <2>3 DEF Verify
  <2> QED BY <1>3, <1>4, <2>1, <2>2, <2>3 DEF User, Removes
<1>5. ASSUME NEW t \in Tab, Page(t)
      PROVE  e \in holding[u] \union failed[u]
  <2>1. CASE Reload(t)
    BY <1>1, <2>1 DEF Reload
  <2>2. CASE ~ Reload(t)
    BY <1>2, <1>5, <2>2 DEF Page, Load, Restore, Connect, Join, Disconnect, client
  <2> QED BY <2>1, <2>2
<1>6. ASSUME NEW t \in Tab, Loop(t)
      PROVE  e \in holding[u] \union failed[u] \/ e \in disturbed'
  <2>1. CASE Confirms(t)
    <3>1. flush[t].entry \in Entry
      BY <1>1, <2>1 DEF Confirms, KnownInv, InHand
    <3> QED BY <1>3, <2>1, <3>1 DEF Removes
  <2>2. CASE AckError(t)
    BY <1>1, <2>2 DEF AckError
  <2>3. CASE ~ Confirms(t) /\ ~ AckError(t)
    BY <1>2, <1>6, <2>3 DEF Loop, Ends, Picks, Checks, Blocks, Persists, EmitsSealed, AckOk
  <2> QED BY <2>1, <2>2, <2>3
<1>7. ASSUME NEW t \in Tab, Hearing(t)
      PROVE  e \in holding[u] \union failed[u]
  BY <1>2, <1>3, <1>7 DEF Hearing, Hears, Removes, client
<1>8. ASSUME (\E n \in Attempt : Handles(n) \/ Refuses(n) \/ Fails(n)) \/ (\E f \in File : Sweeps(f))
              \/ UNCHANGED vars
      PROVE  e \in holding[u] \union failed[u]
  BY <1>2, <1>8 DEF Handles, Claims, Stores, Tells, Refuses, Fails, Sweeps, vars, client
<1> QED BY <1>4, <1>5, <1>6, <1>7, <1>8 DEF Next

\* Who was written before whom changes when somebody is written after everybody.
LEMMA BeforeStep ==
  ASSUME SendInv, [Next]_vars, NEW e \in Entry, NEW f \in Entry, Before(e, f)'
  PROVE  \/ Before(e, f)
         \/ ~ Known(f) /\ \E t \in Tab, hold \in BOOLEAN : Write(t, f, hold) /\ origin[e] = t
<1>1. written \in Seq(Entry) /\ DOMAIN origin = Entry /\ \A i \in DOMAIN written : Known(written[i])
  BY DEF SendInv, Typed, BrowserTyped, KnownInv
<1>2. CASE UNCHANGED << written, origin >>
  BY <1>2 DEF Before
<1>3. ASSUME NEW t \in Tab, NEW g \in Entry, NEW hold \in BOOLEAN, Write(t, g, hold), ~ Known(g),
             written' = Append(written, g), origin' = [origin EXCEPT ![g] = t]
      PROVE  \/ Before(e, f)
             \/ ~ Known(f) /\ Write(t, f, hold) /\ origin[e] = t
  <2>1. PICK i \in DOMAIN written', j \in DOMAIN written' :
          i < j /\ written'[i] = e /\ written'[j] = f /\ origin'[e] = origin'[f]
    BY DEF Before
  <2>2. PICK n : n = Len(written)
    OBVIOUS
  <2>3. /\ n \in Nat /\ DOMAIN written = 1..n /\ DOMAIN written' = 1..(n + 1)
        /\ written'[n + 1] = g /\ \A k \in 1..n : written'[k] = written[k]
    BY <1>1, <1>3, <2>2, AppendProperties
  <2>4. i \in 1..n /\ written[i] = e /\ Known(e)
    <3>1. i \in 1..n
      BY <2>1, <2>3
    <3> QED BY <1>1, <2>1, <2>3, <3>1
  <2>5. origin'[e] = origin[e]
    BY <1>1, <1>3, <2>4
  <2>6. CASE j = n + 1
    <3>1. f = g
      BY <2>1, <2>3, <2>6
    <3>2. origin'[f] = t
      BY <1>1, <1>3, <3>1
    <3> QED BY <1>3, <2>1, <2>5, <3>1, <3>2
  <2>7. CASE j # n + 1
    <3>1. j \in 1..n /\ written[j] = f /\ Known(f)
      <4>1. j \in 1..n
        BY <2>1, <2>3, <2>7
      <4> QED BY <1>1, <2>1, <2>3, <4>1
    <3>2. origin'[f] = origin[f]
      BY <1>1, <1>3, <3>1
    <3> QED BY <2>1, <2>3, <2>4, <2>5, <3>1, <3>2 DEF Before
  <2> QED BY <2>6, <2>7
<1> QED BY <1>2, <1>3, WriteSteps DEF WriteStep

\* A place of the table is as it was, or the next one.
LEMMA RowSteps ==
  ASSUME SendInv, [Next]_vars, NEW k \in DOMAIN rows'
  PROVE  \/ k \in DOMAIN rows /\ rows'[k] = rows[k]
         \/ k = Len(rows) + 1 /\ rows'[k] \in Attempt
<1>1. rows \in Seq(Attempt)
  BY DEF SendInv, Typed, ServerTyped
<1>2. ASSUME NEW n \in Attempt, rows' = Append(rows, n)
      PROVE  \/ k \in DOMAIN rows /\ rows'[k] = rows[k]
             \/ k = Len(rows) + 1 /\ rows'[k] \in Attempt
  BY <1>1, <1>2, AppendProperties
<1>3. rows' = rows \/ \E n \in Attempt : rows' = Append(rows, n)
  BY SendSteps DEF SendStep, Stores
<1> QED BY <1>2, <1>3

\* A step that writes f does not send it.
LEMMA NotYetSent ==
  ASSUME SendInv, [Next]_vars, NEW f \in Entry, ~ Known(f)
  PROVE  /\ \A t \in Tab : InHand(t)' => flush'[t].entry # f
         /\ \A n \in Attempt' : sends'[n].entry # f
<1>1. Onward /\ KnownInv /\ \A t \in Tab : queue[t] \in Seq(Entry)
  BY NextTyped DEF SendInv, Typed, ClientTyped
<1>2. ASSUME NEW t \in Tab, InHand(t)'
      PROVE  flush'[t].entry # f
  <2>1. CASE InHand(t) /\ flush'[t].entry = flush[t].entry
    BY <1>1, <2>1 DEF KnownInv
  <2>2. CASE Sendable(t) # {} /\ flush'[t].entry = Oldest(t, Sendable(t))
    <3>1. Oldest(t, Sendable(t)) \in InQueue(t)
      BY <1>1, <2>2, OldestIsFirst DEF Sendable
    <3> QED BY <1>1, <2>2, <3>1 DEF KnownInv
  <2> QED BY <1>2, <2>1, <2>2, FlushSteps DEF FlushStep
<1>3. ASSUME NEW n \in Attempt'
      PROVE  sends'[n].entry # f
  <2>1. CASE n \in Attempt
    BY <1>1, <2>1 DEF Onward, KnownInv
  <2>2. ASSUME NEW u \in Tab, NEW e \in Entry, Emitted(e), InHand(u)', flush'[u].entry = e, n \notin Attempt
        PROVE  sends'[n].entry # f
    BY <1>2, <2>2 DEF Emitted
  <2> QED BY <2>1, <2>2, SendSteps DEF SendStep, Untouched, GetsOn
<1> QED BY <1>2, <1>3

\* A step keeps the order of a queue, but for what it brings in and what it retires.
LEMMA QueueKeeps ==
  ASSUME SendInv, HeardInv, [Next]_vars, NEW u \in Tab, NEW f \in Entry, f \notin disturbed',
         NEW b \in DOMAIN queue'[u], queue'[u][b] = f, Known(f)
  PROVE  \E c \in DOMAIN queue[u] :
           /\ queue[u][c] = f
           /\ \A d \in 1..(c - 1) : \/ queue[u][d] \in abandoned' \/ Stored(queue[u][d])
                                    \/ \E a \in 1..(b - 1) : queue'[u][a] = queue[u][d]
<1>1. queue[u] \in Seq(Entry) /\ records[u] \subseteq Entry /\ IsFiniteSet(records[u])
  BY DEF SendInv, Typed, ClientTyped, BrowserTyped
<1> DEFINE Found == \E c \in DOMAIN queue[u] :
             /\ queue[u][c] = f
             /\ \A d \in 1..(c - 1) : \/ queue[u][d] \in abandoned' \/ Stored(queue[u][d])
                                      \/ \E a \in 1..(b - 1) : queue'[u][a] = queue[u][d]
<1>2. CASE queue'[u] = queue[u]
  <2>1. b \in DOMAIN queue[u] /\ queue[u][b] = f /\ \A d \in 1..(b - 1) : queue'[u][d] = queue[u][d]
    BY <1>2
  <2> QED BY <2>1
<1>3. ASSUME NEW fresh, NEW gone, KeepsOrder(queue[u], queue'[u], fresh, gone), f \notin fresh,
             \A e \in gone : e \in abandoned' \/ Stored(e)
      PROVE  Found
  BY <1>3 DEF KeepsOrder
<1>4. ASSUME NEW e \in Entry, NEW hold \in BOOLEAN, Write(u, e, hold), queue'[u] = Append(queue[u], e)
      PROVE  Found
  <2>1. f # e
    BY <1>4 DEF Write, Known
  <2>2. KeepsOrder(queue[u], Append(queue[u], e), {e}, {})
    BY <1>1, AppendOne
  <2> QED BY <1>3, <1>4, <2>1, <2>2
<1>5. ASSUME NEW e \in Entry, Removes(u, e), queue'[u] = RemoveFirst(queue[u], e)
      PROVE  Found
  <2>1. KeepsOrder(queue[u], RemoveFirst(queue[u], e), {}, {e})
    BY <1>1, RemoveOne
  <2>2. e \in abandoned' \/ Stored(e)
    BY <1>5, Retired
  <2> QED BY <1>3, <1>5, <2>1, <2>2
<1>6. ASSUME Restore(u), NEW x \in SetToSeqs(records[u] \ InQueue(u)), queue'[u] = x \o queue[u]
      PROVE  Found
  <2>1. records[u] \ InQueue(u) \in SUBSET Entry /\ IsFiniteSet(records[u] \ InQueue(u))
    BY <1>1, FS_Difference
  <2>2. x \in Seq(Entry) /\ ToSet(x) \subseteq records[u]
    BY <2>1, InSomeOrder
  <2>3. f \notin ToSet(x)
    BY <1>6, <2>2 DEF Restore
  <2>4. KeepsOrder(queue[u], x \o queue[u], ToSet(x), {})
    BY <1>1, <2>2, PutInFront
  <2>5. PICK fresh : fresh = ToSet(x)
    OBVIOUS
  <2>6. KeepsOrder(queue[u], queue'[u], fresh, {}) /\ f \notin fresh
    BY <1>6, <2>3, <2>4, <2>5
  <2> QED BY <1>3, <2>6
<1>7. queue'[u] # << >>
  OBVIOUS
<1> QED BY <1>2, <1>4, <1>5, <1>6, <1>7, QueueSteps DEF QueueStep

LEMMA NextOrder ==
  ASSUME SendInv, HeardInv, OrderInv, RowsInOrder, [Next]_vars
  PROVE  OrderInv' /\ RowsInOrder'
<1>1. /\ Typed /\ KnownInv /\ Onward /\ DOMAIN origin = Entry /\ DOMAIN queue = Tab
      /\ \A t \in Tab : queue[t] \in Seq(Entry) /\ InQueue(t) \subseteq Entry
      /\ rows \in Seq(Attempt)
  <2>1. Typed /\ KnownInv /\ Onward /\ \A t \in Tab : queue[t] \in Seq(Entry)
    BY NextTyped DEF SendInv, Typed, ClientTyped
  <2> QED BY <2>1 DEF Typed, ClientTyped, BrowserTyped, ServerTyped, InQueue, ToSet
<1>2. Calm' \subseteq Calm /\ Calm \subseteq Entry
      /\ \A e \in Calm' : e \notin disturbed' /\ e \notin abandoned'
  BY GhostsGrow DEF Calm
<1>3. ASSUME NEW e \in Entry, Known(e)
      PROVE  origin'[e] = origin[e] /\ \A t \in Tab, hold \in BOOLEAN : ~ Write(t, e, hold)
  <2>1. ASSUME NEW t \in Tab, NEW f \in Entry, ~ Known(f), origin' = [origin EXCEPT ![f] = t]
        PROVE  origin'[e] = origin[e]
    BY <1>1, <1>3, <2>1
  <2> QED BY <1>3, <2>1, WriteSteps DEF WriteStep, Write, Known
<1>4. \A t \in Tab : holding'[t] \union failed'[t] \subseteq disturbed'
  BY Disturbs, GhostsGrow DEF OrderInv
<1>5. ASSUME NEW t \in Tab, NEW e \in Calm', e \in InQueue(t)'
      PROVE  origin'[e] = t
  <2>1. CASE e \in InQueue(t)
    BY <1>1, <1>2, <1>3, <2>1 DEF OrderInv, KnownInv
  <2>2. CASE Restore(t) /\ e \in records[t]
    BY <1>2, <2>2 DEF Restore
  <2>3. ASSUME NEW hold \in BOOLEAN, Write(t, e, hold)
        PROVE  origin'[e] = t
    BY <1>1, <1>2, <2>3 DEF Write
  <2> QED BY <1>5, <2>1, <2>2, <2>3, Arrives
<1>6. ASSUME NEW t \in Tab, NEW e \in Calm', origin'[e] = t
      PROVE  Stored(e)' \/ e \in InQueue(t)'
  <2>1. CASE origin[e] = t
    <3>1. Stored(e) \/ e \in InQueue(t)
      BY <1>2, <2>1 DEF OrderInv
    <3>2. ASSUME e \in InQueue(t), Removes(t, e)
          PROVE  Stored(e)
      BY <1>2, <3>2, Retired
    <3>3. ASSUME e \in InQueue(t)
          PROVE  ~ Reload(t)
      BY <1>2, <3>3 DEF Reload
    <3> QED BY <3>1, <3>2, <3>3, Leaves, RowsGrow
  <2>2. CASE origin[e] # t
    <3>1. ~ Known(e)
      BY <1>2, <1>3, <1>6, <2>2
    <3>2. PICK u \in Tab, f \in Entry, hold \in BOOLEAN :
            Write(u, f, hold) /\ origin' = [origin EXCEPT ![f] = u]
      BY <1>6, <2>2, WriteSteps DEF WriteStep
    <3>3. f = e /\ u = t
      BY <1>1, <1>2, <1>6, <2>2, <3>2
    <3>4. queue'[t] = Append(queue[t], e) /\ e \in Entry
      BY <1>1, <3>2, <3>3 DEF Write
    <3>5. e \in InQueue(t)'
      <4>1. ToSet(Append(queue[t], e)) = ToSet(queue[t]) \cup {e}
        BY <1>1, <3>4, OneMore
      <4> QED BY <3>4, <4>1 DEF InQueue
    <3> QED BY <3>5
  <2> QED BY <2>1, <2>2
\* f is written in this step, and e is in the queue already or on the server.
<1>7. ASSUME NEW e \in Calm', NEW f \in Calm', ~ Known(f), NEW t \in Tab, NEW hold \in BOOLEAN,
             Write(t, f, hold), origin[e] = t
      PROVE  /\ \A u \in Tab : InHand(u)' => flush'[u].entry # f
             /\ \A n \in Attempt' : sends'[n].entry # f
             /\ \A u \in Tab : \A b \in DOMAIN queue'[u] : queue'[u][b] = f =>
                  Stored(e)' \/ \E a \in 1..(b - 1) : queue'[u][a] = e
  <2>1. \A u \in Tab : f \notin InQueue(u)
    BY <1>1, <1>7 DEF KnownInv
  <2>2. ASSUME NEW u \in Tab, NEW b \in DOMAIN queue'[u], queue'[u][b] = f, ~ Stored(e)
        PROVE  \E a \in 1..(b - 1) : queue'[u][a] = e
    <3>1. u = t
      BY <1>1, <1>7, <2>1, <2>2 DEF Write, InQueue, ToSet
    <3>2. PICK s, n : s = queue[t] /\ n = Len(s)
      OBVIOUS
    <3>3. /\ s \in Seq(Entry) /\ n \in Nat /\ DOMAIN s = 1..n /\ queue'[t] = Append(s, f)
          /\ f \in Entry
      BY <1>1, <1>2, <1>7, <3>2 DEF Write
    <3>4. DOMAIN queue'[t] = 1..(n + 1) /\ \A a \in 1..n : queue'[t][a] = s[a]
      BY <3>2, <3>3, AppendProperties
    <3>5. b = n + 1
      <4>1. \A a \in 1..n : s[a] # f
        BY <2>1, <3>2, <3>3 DEF InQueue, ToSet
      <4> QED BY <2>2, <3>1, <3>3, <3>4, <4>1
    <3>6. e \in InQueue(t)
      BY <1>2, <1>7, <2>2 DEF OrderInv
    <3>7. PICK a \in 1..n : s[a] = e
      BY <3>2, <3>3, <3>6 DEF InQueue, ToSet
    <3> QED BY <3>1, <3>3, <3>4, <3>5, <3>7
  <2>3. Stored(e) => Stored(e)'
    BY RowsGrow
  <2> QED BY <1>2, <1>7, <2>2, <2>3, NotYetSent
\* e and f are both known.
<1>8. ASSUME NEW e \in Calm', NEW f \in Calm', Before(e, f)
      PROVE  /\ \A u \in Tab : InHand(u)' /\ flush'[u].entry = f => Stored(e)'
             /\ \A n \in Attempt' : sends'[n].entry = f => Stored(e)'
             /\ \A u \in Tab : \A b \in DOMAIN queue'[u] : queue'[u][b] = f =>
                  Stored(e)' \/ \E a \in 1..(b - 1) : queue'[u][a] = e
  <2>1. e \in Calm /\ f \in Calm /\ e \in Entry /\ f \in Entry /\ Known(f)
    BY <1>1, <1>2, <1>8 DEF Before, KnownInv
  <2>2. Stored(e) => Stored(e)'
    BY RowsGrow
  <2>3. ASSUME NEW u \in Tab, InHand(u)', flush'[u].entry = f
        PROVE  Stored(e)
    <3>1. CASE InHand(u) /\ flush'[u].entry = flush[u].entry
      BY <1>8, <2>1, <2>3, <3>1 DEF OrderInv
    <3>2. CASE Sendable(u) # {} /\ flush'[u].entry = Oldest(u, Sendable(u))
      <4>1. PICK m \in DOMAIN queue[u] : queue[u][m] = f /\ \A a \in 1..(m - 1) : queue[u][a] \notin Sendable(u)
        BY <1>1, <2>3, <3>2, OldestIsFirst DEF Sendable
      <4>2. Stored(e) \/ \E a \in 1..(m - 1) : queue[u][a] = e
        BY <1>8, <2>1, <4>1 DEF OrderInv
      <4>3. ASSUME NEW a \in 1..(m - 1), queue[u][a] = e
            PROVE  FALSE
        <5>1. a \in DOMAIN queue[u]
          BY <1>1, <4>1
        <5>2. e \in InQueue(u) /\ e \notin Sendable(u)
          BY <4>1, <4>3, <5>1 DEF InQueue, ToSet
        <5>3. e \in failed[u] \union holding[u]
          BY <5>2 DEF Sendable
        <5> QED BY <2>1, <5>3 DEF OrderInv, Calm
      <4> QED BY <4>2, <4>3
    <3> QED BY <2>3, <3>1, <3>2, FlushSteps DEF FlushStep
  <2>4. ASSUME NEW n \in Attempt', sends'[n].entry = f
        PROVE  Stored(e)
    <3>1. CASE n \in Attempt
      BY <1>1, <1>8, <2>1, <2>4, <3>1 DEF Onward, OrderInv
    <3>2. ASSUME NEW u \in Tab, NEW g \in Entry, Emitted(g), InHand(u)', flush'[u].entry = g, n \notin Attempt
          PROVE  Stored(e)
      BY <2>3, <2>4, <3>2 DEF Emitted
    <3> QED BY <3>1, <3>2, SendSteps DEF SendStep, Untouched, GetsOn
  <2>5. ASSUME NEW u \in Tab, NEW b \in DOMAIN queue'[u], queue'[u][b] = f
        PROVE  Stored(e) \/ \E a \in 1..(b - 1) : queue'[u][a] = e
    <3>1. PICK c \in DOMAIN queue[u] :
            /\ queue[u][c] = f
            /\ \A d \in 1..(c - 1) : \/ queue[u][d] \in abandoned' \/ Stored(queue[u][d])
                                     \/ \E a \in 1..(b - 1) : queue'[u][a] = queue[u][d]
      BY <1>2, <2>1, <2>5, QueueKeeps
    <3>2. Stored(e) \/ \E d \in 1..(c - 1) : queue[u][d] = e
      BY <1>8, <2>1, <3>1 DEF OrderInv
    <3> QED BY <1>2, <3>1, <3>2
  <2> QED BY <2>2, <2>3, <2>4, <2>5
<1>9. ASSUME NEW e \in Calm', NEW f \in Calm', Before(e, f)'
      PROVE  /\ \A u \in Tab : InHand(u)' /\ flush'[u].entry = f => Stored(e)'
             /\ \A n \in Attempt' : sends'[n].entry = f => Stored(e)'
             /\ \A u \in Tab : \A b \in DOMAIN queue'[u] : queue'[u][b] = f =>
                  Stored(e)' \/ \E a \in 1..(b - 1) : queue'[u][a] = e
  <2>1. e \in Entry /\ f \in Entry
    BY <1>2
  <2> QED BY <1>7, <1>8, <1>9, <2>1, BeforeStep
<1>10. OrderInv'
  BY <1>4, <1>5, <1>6, <1>9 DEF OrderInv
<1>11. ASSUME NEW e \in Calm', NEW f \in Calm', Before(e, f)',
              NEW k \in DOMAIN rows', sends'[rows'[k]].entry = f
       PROVE  \E l \in 1..k : sends'[rows'[l]].entry = e
  <2>1. e \in Calm /\ f \in Calm /\ e \in Entry /\ f \in Entry
    BY <1>2
  <2>2. rows'[k] \in Attempt /\ sends[rows'[k]].entry = f
    <3>1. rows'[k] \in Attempt
      BY RowSteps, RowsGrow
    <3> QED BY <1>1, <1>11, <3>1 DEF Onward
  <2>3. Before(e, f)
    <3>1. ~ Known(f) => sends'[rows'[k]].entry # f
      BY <1>1, <2>1, <2>2, NotYetSent DEF Onward
    <3> QED BY <1>11, <2>1, <3>1, BeforeStep
  <2>4. \A l \in DOMAIN rows : l \in DOMAIN rows' /\ sends'[rows'[l]].entry = sends[rows[l]].entry
    BY <1>1, RowsGrow DEF Onward
  <2>5. CASE k \in DOMAIN rows /\ rows'[k] = rows[k]
    <3>1. PICK l \in 1..k : sends[rows[l]].entry = e
      BY <2>1, <2>2, <2>3, <2>5 DEF RowsInOrder
    <3>2. l \in DOMAIN rows
      BY <1>1, <2>5
    <3> QED BY <2>4, <3>1, <3>2
  <2>6. CASE k = Len(rows) + 1
    <3>1. Stored(e)
      BY <2>1, <2>2, <2>3 DEF OrderInv
    <3>2. PICK l \in DOMAIN rows : sends[rows[l]].entry = e
      BY <3>1 DEF Stored
    <3>3. l \in 1..k
      BY <1>1, <2>6
    <3> QED BY <2>4, <3>2, <3>3
  <2> QED BY <2>5, <2>6, RowSteps
<1>12. RowsInOrder'
  BY <1>11 DEF RowsInOrder
<1> QED BY <1>10, <1>12

\* The messages of a tab that nothing failed, held up or brought back from disk are
\* stored in the order in which they were written, as long as an echo tells the messages
\* of the user apart; and every variable keeps its type.
THEOREM OrderIsKept ==
  ASSUME TellsApart
  PROVE  Spec => []Inv
<1>1. Init => OrderInv /\ RowsInOrder
  <2> SUFFICES ASSUME Init PROVE OrderInv /\ RowsInOrder
    OBVIOUS
  <2>1. Attempt = {} /\ DOMAIN rows = {} /\ DOMAIN written = {} /\ \A t \in Tab : DOMAIN queue[t] = {}
    BY DEF Init, Attempt
  <2>2. \A t \in Tab : ~ InHand(t) /\ InQueue(t) = {} /\ holding[t] = {} /\ failed[t] = {}
    BY DEF Init, InHand, Idle, InQueue, ToSet
  <2>3. \A e \in Entry : origin[e] \notin Tab
    BY DEF Init
  <2>4. \A e, f : ~ Before(e, f)
    BY <2>1 DEF Before
  <2>5. Calm \subseteq Entry
    BY DEF Calm
  <2> QED BY <2>2, <2>3, <2>4, <2>5 DEF OrderInv, RowsInOrder
<1>2. SendInv /\ HeardInv /\ OrderInv /\ RowsInOrder /\ [Next]_vars => (OrderInv /\ RowsInOrder)'
  BY NextOrder
<1>3. SendInv /\ RowsInOrder => Inv
  <2> SUFFICES ASSUME SendInv, RowsInOrder, NEW i \in DOMAIN written, NEW j \in DOMAIN written,
                      NEW k \in DOMAIN rows, i < j, origin[written[i]] = origin[written[j]],
                      {written[i], written[j]} \cap (disturbed \union abandoned) = {},
                      sends[rows[k]].entry = written[j]
               PROVE  \E l \in 1..k : sends[rows[l]].entry = written[i]
    BY TypedIsTypeOK DEF Inv, InOrder, SendInv
  <2>1. written[i] \in Entry /\ written[j] \in Entry
    BY DEF SendInv, Typed, BrowserTyped
  <2>2. written[i] \in Calm /\ written[j] \in Calm
    BY <2>1 DEF Calm
  <2>3. Before(written[i], written[j])
    BY DEF Before
  <2> QED BY <2>2, <2>3 DEF RowsInOrder
<1> QED BY <1>1, <1>2, <1>3, HeardInvariant, PTL DEF Spec

-----------------------------------------------------------------------------
(* An entry is in the outbox of a tab once, so that cutting out the first   *)
(* is what the filter of removeEntry does.                                  *)

Once(s) == \A i, j \in DOMAIN s : s[i] = s[j] => i = j

\* No outbox holds an entry twice, and what is removed from it is gone.
EachOnce == \A t \in Tab : Once(queue[t])

LEMMA RemoveKeepsOnce ==
  ASSUME NEW s \in Seq(Entry), NEW e, Once(s)
  PROVE  Once(RemoveFirst(s, e)) /\ e \notin ToSet(RemoveFirst(s, e))
<1>1. PICK n, r : n = Len(s) /\ r = RemoveFirst(s, e)
  OBVIOUS
<1>2. n \in Nat /\ DOMAIN s = 1..n
  BY <1>1
<1>3. CASE ~ \E i \in 1..n : s[i] = e
  <2>1. r = s
    BY <1>1, <1>3 DEF RemoveFirst
  <2> QED BY <1>1, <1>2, <1>3, <2>1 DEF ToSet
<1>4. CASE \E i \in 1..n : s[i] = e
  <2>1. PICK m \in 1..n : s[m] = e /\ r = RemoveAt(s, m)
    <3>1. PICK m \in 1..n : SelectInSeq(s, LAMBDA v : v = e) = m /\ s[m] = e
      <4> DEFINE I == {i \in 1..n : s[i] = e}
      <4>1. I # {} /\ I \in SUBSET Nat
        BY <1>2, <1>4
      <4>2. SelectInSeq(s, LAMBDA v : v = e) = Min(I)
        BY <1>1, <4>1 DEF SelectInSeq
      <4> HIDE DEF I
      <4>3. Min(I) \in I
        BY <4>1, LeastNumber
      <4> QED BY <4>2, <4>3 DEF I
    <3>2. r = RemoveAt(s, SelectInSeq(s, LAMBDA v : v = e))
      BY <1>1, <1>4 DEF RemoveFirst
    <3> QED BY <3>1, <3>2
  <2>2. /\ r \in Seq(Entry) /\ Len(r) = n - 1
        /\ \A i \in 1..(n - 1) : r[i] = IF i < m THEN s[i] ELSE s[i + 1]
    BY <1>1, <2>1, CutOut
  <2>3. DOMAIN r = 1..(n - 1)
    BY <1>2, <2>2
  <2> DEFINE At(i) == IF i < m THEN i ELSE i + 1
  <2>4. \A i \in 1..(n - 1) : At(i) \in 1..n /\ At(i) # m /\ r[i] = s[At(i)]
    BY <1>2, <2>2
  <2>5. \A i, j \in 1..(n - 1) : At(i) = At(j) => i = j
    BY <1>2
  <2> HIDE DEF At
  <2>6. Once(r)
    BY <1>2, <2>3, <2>4, <2>5 DEF Once
  <2>7. \A i \in 1..(n - 1) : r[i] # e
    BY <1>2, <2>1, <2>4 DEF Once
  <2> QED BY <1>1, <2>3, <2>6, <2>7 DEF ToSet
<1> QED BY <1>3, <1>4

LEMMA AppendKeepsOnce ==
  ASSUME NEW s \in Seq(Entry), NEW e \in Entry, Once(s), e \notin ToSet(s)
  PROVE  Once(Append(s, e))
<1>1. PICK n, r : n = Len(s) /\ r = Append(s, e)
  OBVIOUS
<1>2. /\ n \in Nat /\ DOMAIN s = 1..n /\ DOMAIN r = 1..(n + 1) /\ r[n + 1] = e
      /\ \A i \in 1..n : r[i] = s[i]
  BY <1>1, AppendProperties
<1>3. \A i \in 1..n : s[i] # e
  BY <1>2 DEF ToSet
<1>4. \A i \in 1..(n + 1) : i \in 1..n \/ i = n + 1
  BY <1>2
<1> QED BY <1>1, <1>2, <1>3, <1>4 DEF Once

LEMMA ConcatKeepsOnce ==
  ASSUME NEW s \in Seq(Entry), NEW x \in Seq(Entry), Once(s), Once(x), ToSet(x) \cap ToSet(s) = {}
  PROVE  Once(x \o s)
<1>1. PICK n, k, r : n = Len(s) /\ k = Len(x) /\ r = x \o s
  OBVIOUS
<1>2. /\ n \in Nat /\ k \in Nat /\ r \in Seq(Entry) /\ Len(r) = k + n
      /\ \A i \in 1..(k + n) : r[i] = IF i <= k THEN x[i] ELSE s[i - k]
  BY <1>1, ConcatProperties
<1>3. DOMAIN s = 1..n /\ DOMAIN x = 1..k /\ DOMAIN r = 1..(k + n)
  BY <1>1, <1>2
<1>4. \A i \in 1..k, j \in 1..n : x[i] # s[j]
  BY <1>3 DEF ToSet
<1>5. ASSUME NEW i \in 1..(k + n)
      PROVE  \/ i \in 1..k /\ r[i] = x[i]
             \/ i - k \in 1..n /\ r[i] = s[i - k] /\ ~ (i <= k)
  BY <1>2
<1>6. ASSUME NEW i \in 1..(k + n), NEW j \in 1..(k + n), r[i] = r[j]
      PROVE  i = j
  <2>1. CASE i \in 1..k /\ j \in 1..k /\ r[i] = x[i] /\ r[j] = x[j]
    BY <1>3, <1>6, <2>1 DEF Once
  <2>2. CASE i - k \in 1..n /\ j - k \in 1..n /\ r[i] = s[i - k] /\ r[j] = s[j - k]
    <3>1. i - k = j - k
      BY <1>3, <1>6, <2>2 DEF Once
    <3> QED BY <1>2, <3>1
  <2> QED BY <1>4, <1>5, <1>6, <2>1, <2>2
<1> QED BY <1>1, <1>3, <1>6 DEF Once

LEMMA NextOnce ==
  ASSUME SendInv, EachOnce, [Next]_vars
  PROVE  EachOnce'
<1>1. /\ KnownInv /\ \A t \in Tab : records[t] \subseteq Entry /\ IsFiniteSet(records[t])
      /\ \A t \in Tab : queue[t] \in Seq(Entry)
  BY DEF SendInv, Typed, ClientTyped, BrowserTyped
<1> SUFFICES ASSUME NEW u \in Tab PROVE Once(queue'[u])
  BY DEF EachOnce
<1>2. queue[u] \in Seq(Entry) /\ Once(queue[u])
  BY <1>1 DEF EachOnce
<1>3. ASSUME NEW e \in Entry, NEW hold \in BOOLEAN, Write(u, e, hold), queue'[u] = Append(queue[u], e)
      PROVE  Once(queue'[u])
  <2>1. e \notin ToSet(queue[u])
    BY <1>1, <1>3 DEF Write, KnownInv, Known, InQueue
  <2> QED BY <1>2, <1>3, <2>1, AppendKeepsOnce
<1>4. ASSUME NEW e \in Entry, queue'[u] = RemoveFirst(queue[u], e)
      PROVE  Once(queue'[u])
  BY <1>2, <1>4, RemoveKeepsOnce
<1>5. ASSUME NEW x \in SetToSeqs(records[u] \ InQueue(u)), queue'[u] = x \o queue[u]
      PROVE  Once(queue'[u])
  <2>1. records[u] \ InQueue(u) \in SUBSET Entry /\ IsFiniteSet(records[u] \ InQueue(u))
    BY <1>1, FS_Difference
  <2>2. x \in Seq(Entry) /\ ToSet(x) \subseteq records[u] \ InQueue(u)
    BY <2>1, InSomeOrder
  <2>3. Once(x)
    BY DEF SetToSeqs, Once, IsInjective
  <2>4. ToSet(x) \cap ToSet(queue[u]) = {}
    BY <2>2 DEF InQueue
  <2> QED BY <1>2, <1>5, <2>2, <2>3, <2>4, ConcatKeepsOnce
<1>6. Once(<< >>)
  BY DEF Once
<1>7. queue'[u] = queue[u] \/ queue'[u] = << >> => Once(queue'[u])
  BY <1>2, <1>6
<1> QED BY <1>3, <1>4, <1>5, <1>7, QueueSteps DEF QueueStep

\* An outbox never holds an entry twice: a page that loads what is on disk adds only what
\* it does not have, so that an entry that is removed is gone.
THEOREM EntriesAreOnce == Spec => []EachOnce
<1>1. Init => EachOnce
  BY DEF Init, EachOnce, Once
<1> QED BY <1>1, NextOnce, SendInvariant, PTL DEF Spec
=============================================================================
