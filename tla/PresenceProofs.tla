--------------------------- MODULE PresenceProofs ---------------------------
(***************************************************************************)
(* Proofs about Presence, for any number of sockets and handlers: the four   *)
(* keys of a user in Redis agree whatever the order of the scripts.          *)
(***************************************************************************)
EXTENDS Presence, TLAPS

USE PresenceAssumption

-----------------------------------------------------------------------------
(* The keys.                                                                *)

Keys == [lease : [Socket -> {"none", "live", "lapsed"}], devices : SUBSET Socket,
         cycle : [Socket -> Lifecycle \union {"none"}],
         status : Statuses \union {"none"}, listed : BOOLEAN]

Leased(r) == {s \in Socket : r.lease[s] # "none"}

\* What Inv says of the keys.
Agree(r) ==
    /\ r \in Keys
    /\ Leased(r) # {} => r.listed
    /\ r.devices = Leased(r)
    /\ \A s \in Leased(r) : r.cycle[s] # "none"

LEMMA GoneAgrees == Agree(Gone)
  BY DEF Agree, Keys, Leased, Gone, Lifecycle, Statuses

LEMMA ExpiredAgrees ==
  ASSUME NEW r, Agree(r)
  PROVE  Agree(Expired(r)) /\ Leased(Expired(r)) = Live(r)
<1> DEFINE gone == {s \in Socket : r.lease[s] = "lapsed"}
           lease == [s \in Socket |-> IF s \in gone THEN "none" ELSE r.lease[s]]
           cycle == [s \in Socket |-> IF s \in gone THEN "none" ELSE r.cycle[s]]
           e == [r EXCEPT !.lease = lease, !.devices = @ \ gone, !.cycle = cycle]
<1>1. Expired(r) = e
  BY DEF Expired
<1>2. /\ r.lease \in [Socket -> {"none", "live", "lapsed"}]
      /\ r.devices \in SUBSET Socket
      /\ r.cycle \in [Socket -> Lifecycle \union {"none"}]
      /\ r.status \in Statuses \union {"none"} /\ r.listed \in BOOLEAN
  BY DEF Agree, Keys
<1>3. /\ lease \in [Socket -> {"none", "live", "lapsed"}]
      /\ cycle \in [Socket -> Lifecycle \union {"none"}]
  BY <1>2
<1> HIDE DEF lease, cycle
<1>4. /\ e \in Keys
      /\ e.lease = lease /\ e.devices = r.devices \ gone /\ e.cycle = cycle
      /\ e.listed = r.listed
  BY <1>2, <1>3 DEF Agree, Keys
<1> HIDE DEF e
<1>5. Leased(e) = Leased(r) \ gone /\ Leased(e) = Live(r)
  BY <1>2, <1>4 DEF Leased, Live, lease
<1>6. \A s \in Leased(e) : e.cycle[s] = r.cycle[s]
  BY <1>4, <1>5 DEF Leased, cycle
<1> QED BY <1>1, <1>4, <1>5, <1>6 DEF Agree

LEMMA PrunedAgrees ==
  ASSUME NEW r, Agree(r)
  PROVE  Agree(Pruned(r))
BY GoneAgrees, ExpiredAgrees DEF Pruned

LEMMA UpsertedAgrees ==
  ASSUME NEW r, Agree(r), NEW s \in Socket
  PROVE  Agree(Upserted(r, s))
<1> DEFINE e == Expired(r)
           u == Upserted(r, s)
<1>1. Agree(e)
  BY ExpiredAgrees
<1>2. u = [e EXCEPT !.lease[s] = "live", !.devices = @ \union {s},
                    !.cycle[s] = IF @ = "none" THEN "online" ELSE @, !.listed = TRUE]
  BY DEF Upserted
<1> HIDE DEF e, u
<1>3. /\ e.lease \in [Socket -> {"none", "live", "lapsed"}]
      /\ e.devices \in SUBSET Socket
      /\ e.cycle \in [Socket -> Lifecycle \union {"none"}]
      /\ e \in Keys
  BY <1>1 DEF Agree, Keys
<1>4. /\ u.lease = [e.lease EXCEPT ![s] = "live"]
      /\ u.devices = e.devices \union {s}
      /\ u.cycle = [e.cycle EXCEPT ![s] = IF @ = "none" THEN "online" ELSE @]
      /\ u.status = e.status /\ u.listed = TRUE
  BY <1>2, <1>3 DEF Keys
<1>5. u \in Keys
  BY <1>2, <1>3 DEF Keys, Lifecycle
<1>6. Leased(u) = Leased(e) \union {s}
  BY <1>3, <1>4 DEF Leased
<1>7. \A t \in Leased(u) : u.cycle[t] # "none"
  BY <1>1, <1>3, <1>4, <1>6 DEF Agree, Leased
<1>8. Agree(u)
  BY <1>1, <1>4, <1>5, <1>6, <1>7 DEF Agree
<1> QED BY <1>8 DEF u

LEMMA RemovedAgrees ==
  ASSUME NEW r, Agree(r), NEW s \in Socket
  PROVE  Agree(Removed(r, s))
<1> DEFINE w == [r EXCEPT !.lease[s] = "none", !.devices = @ \ {s}, !.cycle[s] = "none"]
<1>1. /\ r.lease \in [Socket -> {"none", "live", "lapsed"}]
      /\ r.devices \in SUBSET Socket
      /\ r.cycle \in [Socket -> Lifecycle \union {"none"}]
      /\ r \in Keys
  BY DEF Agree, Keys
<1>2. /\ w.lease = [r.lease EXCEPT ![s] = "none"]
      /\ w.devices = r.devices \ {s}
      /\ w.cycle = [r.cycle EXCEPT ![s] = "none"]
      /\ w.listed = r.listed
  BY <1>1 DEF Keys
<1>3. w \in Keys
  BY <1>1 DEF Keys
<1> HIDE DEF w
<1>4. Leased(w) = Leased(r) \ {s}
  BY <1>1, <1>2 DEF Leased
<1>5. \A t \in Leased(w) : w.cycle[t] = r.cycle[t]
  BY <1>1, <1>2, <1>4 DEF Leased
<1>6. Agree(w)
  BY <1>2, <1>3, <1>4, <1>5 DEF Agree
<1> QED BY <1>6, PrunedAgrees DEF Removed, w

\* Steps that write one field.
LEMMA StatusAgrees ==
  ASSUME NEW r, Agree(r), NEW x \in Statuses
  PROVE  Agree([r EXCEPT !.status = x])
BY DEF Agree, Keys, Leased

LEMMA CycleAgrees ==
  ASSUME NEW r, Agree(r), NEW s \in Socket, NEW x \in Lifecycle
  PROVE  Agree([r EXCEPT !.cycle[s] = x])
<1> DEFINE w == [r EXCEPT !.cycle[s] = x]
<1>1. r \in Keys /\ r.cycle \in [Socket -> Lifecycle \union {"none"}]
  BY DEF Agree, Keys
<1>2. /\ w \in Keys
      /\ w.lease = r.lease /\ w.devices = r.devices /\ w.listed = r.listed
      /\ w.cycle = [r.cycle EXCEPT ![s] = x]
  BY <1>1 DEF Keys
<1> HIDE DEF w
<1>3. Leased(w) = Leased(r)
  BY <1>2 DEF Leased
<1>4. \A t \in Leased(w) : w.cycle[t] # "none"
  BY <1>1, <1>2, <1>3 DEF Agree, Leased, Lifecycle
<1>5. Agree(w)
  BY <1>2, <1>3, <1>4 DEF Agree
<1> QED BY <1>5 DEF w

LEMMA LapseAgrees ==
  ASSUME NEW r, Agree(r), NEW s \in Socket, r.lease[s] = "live"
  PROVE  Agree([r EXCEPT !.lease[s] = "lapsed"])
<1> DEFINE w == [r EXCEPT !.lease[s] = "lapsed"]
<1>1. r \in Keys /\ r.lease \in [Socket -> {"none", "live", "lapsed"}]
  BY DEF Agree, Keys
<1>2. /\ w \in Keys
      /\ w.cycle = r.cycle /\ w.devices = r.devices /\ w.listed = r.listed
      /\ w.lease = [r.lease EXCEPT ![s] = "lapsed"]
  BY <1>1 DEF Keys
<1> HIDE DEF w
<1>3. Leased(w) = Leased(r)
  BY <1>1, <1>2 DEF Leased
<1>4. Agree(w)
  BY <1>2, <1>3 DEF Agree
<1> QED BY <1>4 DEF w

-----------------------------------------------------------------------------
(* The handlers.                                                            *)

Steps == {"idle", "add", "fresh", "refresh", "life", "score", "hset", "choose",
          "remove", "sweep", "prune", "get", "card", "emit"}

Records == [pc : Steps, sock : SUBSET Socket, want : Statuses, first : BOOLEAN,
            say : Statuses, sweep : BOOLEAN]

\* A handler that is going to write a lifecycle wants one.
LifeSteps == {"refresh", "life", "score", "hset"}

Handlers == {h \in Records : h.pc \in LifeSteps => h.want \in Lifecycle}

LEMMA IdleHandler == Idle \in Handlers
  BY DEF Idle, Handlers, Records, LifeSteps, Steps, Statuses

LEMMA StartsTyped ==
  ASSUME run \in [Task -> Handlers], NEW p \in Task, NEW step \in Steps, NEW s \in Socket,
         NEW want \in Statuses, Starts(p, step, s, want),
         step \in LifeSteps => want \in Lifecycle
  PROVE  run' \in [Task -> Handlers]
<1>1. [Idle EXCEPT !.pc = step, !.sock = {s}, !.want = want] \in Handlers
  BY IdleHandler DEF Handlers, Records
<1> QED BY <1>1 DEF Starts

LEMMA GoesTyped ==
  ASSUME run \in [Task -> Handlers], NEW p \in Task, NEW step \in Steps, Goes(p, step),
         step \in LifeSteps => run[p].pc \in LifeSteps
  PROVE  run' \in [Task -> Handlers]
<1>1. [run[p] EXCEPT !.pc = step] \in Handlers
  BY DEF Handlers, Records
<1> QED BY <1>1 DEF Goes

LEMMA EndsTyped ==
  ASSUME run \in [Task -> Handlers], NEW p \in Task, Ends(p)
  PROVE  run' \in [Task -> Handlers]
BY IdleHandler DEF Ends

LEMMA TurnsTyped ==
  ASSUME run \in [Task -> Handlers], NEW p \in Task, NEW step \in Steps \ LifeSteps, Turns(p, step)
  PROVE  run' \in [Task -> Handlers]
<1>1. [Idle EXCEPT !.pc = step] \in Handlers
  BY IdleHandler DEF Handlers, Records
<1> QED BY <1>1 DEF Turns

LEMMA TellsTyped ==
  ASSUME run \in [Task -> Handlers], NEW p \in Task, NEW status \in Statuses, Tells(p, status)
  PROVE  run' \in [Task -> Handlers]
<1>1. [Idle EXCEPT !.pc = "card", !.say = status] \in Handlers
  BY IdleHandler DEF Handlers, Records, Steps, LifeSteps
<1> QED BY <1>1 DEF Tells

LEMMA AfterLifeTyped ==
  ASSUME run \in [Task -> Handlers], NEW p \in Task, NEW written, AfterLife(p, written)
  PROVE  run' \in [Task -> Handlers]
BY TurnsTyped, EndsTyped DEF AfterLife, Steps, LifeSteps

LEMMA EffectiveTyped ==
  ASSUME NEW r, Agree(r)
  PROVE  Effective(r) \in Statuses
BY DEF Effective, Agree, Keys, Statuses

-----------------------------------------------------------------------------
(* The invariant.                                                           *)

LEMMA InvParts ==
  Inv <=> /\ conn \in [Socket -> {"new", "open", "closed"}]
          /\ Agree(db)
          /\ run \in [Task -> Records]
          /\ told \in Statuses /\ missed \in BOOLEAN
BY DEF Inv, TypeOK, KeysAgree, Agree, Keys, Leased, Records, Steps

\* The invariant holds of the handlers too, which makes it inductive.
IInv ==
    /\ conn \in [Socket -> {"new", "open", "closed"}]
    /\ Agree(db)
    /\ run \in [Task -> Handlers]
    /\ told \in Statuses /\ missed \in BOOLEAN

LEMMA IInvHolds == Spec => []IInv
<1>1. Init => IInv
  BY GoneAgrees, IdleHandler DEF Init, Statuses, IInv
<1>2. IInv /\ [Next]_vars => IInv'
  <2> SUFFICES ASSUME IInv, [Next]_vars PROVE IInv'
    OBVIOUS
  <2>0. /\ conn \in [Socket -> {"new", "open", "closed"}]
        /\ Agree(db)
        /\ run \in [Task -> Handlers]
        /\ told \in Statuses /\ missed \in BOOLEAN
    BY DEF IInv
  <2> DEFINE Aim == /\ conn' \in [Socket -> {"new", "open", "closed"}]
                    /\ Agree(db')
                    /\ run' \in [Task -> Handlers]
                    /\ told' \in Statuses /\ missed' \in BOOLEAN
  <2>goal. SUFFICES Aim
    BY DEF IInv, Agree, Keys, Leased
  <2>typed. \A p \in Task : /\ run[p].want \in Statuses /\ run[p].say \in Statuses
    BY <2>0 DEF Handlers, Records
  <2>choice. Choices \subseteq Statuses /\ Cycles \subseteq Statuses /\ Cycles \subseteq Lifecycle /\ "online" \in Statuses
             /\ "idle" \in Statuses /\ "offline" \in Statuses
    BY DEF Statuses, Lifecycle
  <2>1. ASSUME NEW p \in Task, Handler(p) PROVE Aim
    <3>1. CASE SetsOnline(p)
      BY <2>0, <2>choice, <3>1, StatusAgrees, TurnsTyped DEF SetsOnline, Steps, LifeSteps
    <3>2. CASE SetsStatus(p)
      BY <2>0, <2>typed, <3>2, StatusAgrees, TurnsTyped DEF SetsStatus, Steps, LifeSteps
    <3>3. CASE LifePrunes(p)
      <4>1. Agree(db') /\ missed' \in BOOLEAN /\ UNCHANGED <<conn, told>>
        BY <2>0, <3>3, PrunedAgrees DEF LifePrunes, Prunes, Unheard, Agree, Keys
      <4>2. run' \in [Task -> Handlers]
        BY <2>0, <3>3, AfterLifeTyped, GoesTyped DEF LifePrunes, Steps, LifeSteps
      <4> QED BY <2>0, <4>1, <4>2
    <3>4. CASE StatusPrunes(p)
      <4>1. Agree(db') /\ missed' \in BOOLEAN /\ UNCHANGED <<conn, told>>
        BY <2>0, <3>4, PrunedAgrees DEF StatusPrunes, Prunes, Unheard, Agree, Keys
      <4>2. run' \in [Task -> Handlers]
        BY <2>0, <2>choice, <3>4, TellsTyped, TurnsTyped DEF StatusPrunes, Steps, LifeSteps
      <4> QED BY <2>0, <4>1, <4>2
    <3>5. CASE StatusReads(p)
      BY <2>0, <3>5, EffectiveTyped, TellsTyped DEF StatusReads
    <3>6. CASE CardPrunes(p)
      <4>1. Agree(db') /\ missed' \in BOOLEAN /\ UNCHANGED <<conn, told>>
        BY <2>0, <3>6, PrunedAgrees DEF CardPrunes, Prunes, Unheard, Agree, Keys
      <4>2. run' \in [Task -> Handlers]
        BY <2>0, <3>6, GoesTyped DEF CardPrunes, Steps, LifeSteps
      <4> QED BY <2>0, <4>1, <4>2
    <3>7. CASE Emits(p)
      BY <2>0, <2>typed, <3>7, EndsTyped DEF Emits
    <3>8. CASE SweepPrunes(p)
      <4>1. Agree(db') /\ UNCHANGED <<conn, told, missed>>
        BY <2>0, <3>8, PrunedAgrees DEF SweepPrunes, Prunes
      <4>2. CASE Ends(p)
        BY <2>0, <4>1, <4>2, EndsTyped
      <4>3. CASE run' = [run EXCEPT ![p].pc = "card", ![p].say = "offline"]
        <5>1. [run[p] EXCEPT !.pc = "card", !.say = "offline"] \in Handlers
          <6>1. run[p] \in Records
            BY <2>0 DEF Handlers
          <6>2. [run[p] EXCEPT !.pc = "card", !.say = "offline"] \in Records
            BY <2>choice, <6>1 DEF Records, Steps
          <6> QED BY <6>1, <6>2 DEF Handlers, Records, LifeSteps
        <5>2. run' = [run EXCEPT ![p] = [run[p] EXCEPT !.pc = "card", !.say = "offline"]]
          BY <2>0, <4>3
        <5>3. run' \in [Task -> Handlers]
          BY <2>0, <5>1, <5>2
        <5> QED BY <2>0, <4>1, <5>3
      <4> QED BY <3>8, <4>2, <4>3 DEF SweepPrunes
    <3>9. ASSUME NEW s \in Socket, Adds(p, s) PROVE Aim
      BY <2>0, <3>9, UpsertedAgrees, TurnsTyped DEF Adds, Steps, LifeSteps
    <3>10. ASSUME NEW s \in Socket, Refreshes(p, s) PROVE Aim
      <4> DEFINE first == (Live(db) = {})
      <4>0. run[p] \in Handlers /\ run[p].pc = "refresh" /\ first \in BOOLEAN
        BY <2>0, <3>10 DEF Refreshes
      <4> HIDE DEF first
      <4>1. [run[p] EXCEPT !.pc = "life", !.first = first] \in Handlers
        BY <4>0 DEF Handlers, Records, Steps, LifeSteps
      <4>2. run' = [run EXCEPT ![p] = [run[p] EXCEPT !.pc = "life", !.first = first]]
        BY <2>0, <3>10 DEF Refreshes, first
      <4>3. run' \in [Task -> Handlers]
        BY <2>0, <4>1, <4>2
      <4> QED BY <2>0, <3>10, <4>3, UpsertedAgrees DEF Refreshes
    <3>11. ASSUME NEW s \in Socket, LifeScores(p, s) PROVE Aim
      BY <2>0, <3>11, AfterLifeTyped, GoesTyped DEF LifeScores, Steps, LifeSteps
    <3>12. ASSUME NEW s \in Socket, LifeWrites(p, s) PROVE Aim
      <4>1. run[p] \in Handlers /\ run[p].pc = "hset"
        BY <2>0, <3>12 DEF LifeWrites
      <4>2. run[p].want \in Lifecycle
        BY <4>1 DEF Handlers, LifeSteps
      <4>3. Agree(db') /\ UNCHANGED <<conn, told, missed>>
        BY <2>0, <3>12, <4>2, CycleAgrees DEF LifeWrites
      <4>4. run' \in [Task -> Handlers]
        BY <2>0, <3>12, AfterLifeTyped DEF LifeWrites
      <4> QED BY <2>0, <4>3, <4>4
    <3>13. ASSUME NEW s \in Socket, Removes(p, s) PROVE Aim
      BY <2>0, <2>choice, <3>13, RemovedAgrees, TellsTyped, TurnsTyped DEF Removes, Steps, LifeSteps
    <3> QED BY <2>1, <3>1, <3>2, <3>3, <3>4, <3>5, <3>6, <3>7, <3>8, <3>9, <3>10, <3>11,
               <3>12, <3>13 DEF Handler
  <2>2. ASSUME NEW p \in Task, Event(p) PROVE Aim
    <3>1. ASSUME NEW s \in Socket, Connect(p, s) PROVE Aim
      BY <2>0, <2>choice, <3>1, StartsTyped DEF Connect, Steps, LifeSteps
    <3>2. ASSUME NEW s \in Socket, Disconnect(p, s) PROVE Aim
      BY <2>0, <2>choice, <3>2, StartsTyped DEF Disconnect, Steps, LifeSteps
    <3>3. ASSUME NEW s \in Socket, NEW want \in Choices, Update(p, s, want) PROVE Aim
      BY <2>0, <2>choice, <3>3, StartsTyped DEF Update, Steps, LifeSteps
    <3>4. ASSUME NEW s \in Socket, NEW want \in Cycles, Heartbeat(p, s, want) PROVE Aim
      BY <2>0, <2>choice, <3>4, StartsTyped DEF Heartbeat, Steps, LifeSteps
    <3>5. ASSUME NEW s \in Socket, NEW want \in Cycles, SaysLifecycle(p, s, want) PROVE Aim
      <4>1. [Idle EXCEPT !.pc = "life", !.sock = {s}, !.want = want, !.say = "idle"]
               \in Handlers
        BY <2>choice, IdleHandler DEF Handlers, Records, Steps, LifeSteps
      <4>2. run' \in [Task -> Handlers]
        BY <2>0, <3>5, <4>1 DEF SaysLifecycle
      <4> QED BY <2>0, <3>5, <4>2 DEF SaysLifecycle
    <3> QED BY <2>2, <3>1, <3>2, <3>3, <3>4, <3>5 DEF Event
  <2>3. ASSUME NEW p \in Task, SweepLists(p) PROVE Aim
    <3>1. [Idle EXCEPT !.pc = "sweep", !.sweep = TRUE] \in Handlers
      BY IdleHandler DEF Handlers, Records, Steps, LifeSteps
    <3>2. run' \in [Task -> Handlers]
      BY <2>0, <2>3, <3>1 DEF SweepLists
    <3> QED BY <2>0, <2>3, <3>2 DEF SweepLists
  <2>4. CASE Reader
    BY <2>0, <2>4, PrunedAgrees DEF Reader, Prunes, Unheard, Agree, Keys
  <2>5. CASE Restart
    BY <2>0, <2>5, GoneAgrees, IdleHandler DEF Restart, Statuses
  <2>6. ASSUME NEW s \in Socket, Lapse(s) PROVE Aim
    BY <2>0, <2>6, LapseAgrees DEF Lapse
  <2>7. CASE UNCHANGED vars
    BY <2>0, <2>7 DEF vars
  <2> QED BY <2>1, <2>2, <2>3, <2>4, <2>5, <2>6, <2>7 DEF Next
<1> QED BY <1>1, <1>2, PTL DEF Spec

\* The keys of the user agree: whoever has a lease is on the list the sweep works
\* from, with a device and a lifecycle, after any scripts in any order.
THEOREM KeysOfUserAgree == Spec => []Inv
<1>1. IInv => Inv
  BY InvParts DEF IInv, Handlers
<1> QED BY <1>1, IInvHolds, PTL

-----------------------------------------------------------------------------
(* What is owed to the others.                                              *)

\* A handler that is going to say what the user is.
Telling(h) ==
    \/ h.pc \in {"fresh", "prune", "get", "card", "emit"}
    \/ h.pc \in {"life", "score", "hset"} /\ h.first

Settled == Offline(told) <=> Offline(Reads(db))

\* Either the others have been told, or a handler is about to, or the sweep will
\* find the user, or one of the exceptions has happened.
Owed ==
    \/ missed
    \/ Settled
    \/ \E p \in Task : Telling(run[p])
    \/ db.listed /\ Live(db) = {}

\* When a reader is told "offline".
Away(r) == Live(r) = {} \/ r.status = "offline"

LEMMA AwayReads ==
  ASSUME NEW r, Agree(r)
  PROVE  Offline(Reads(r)) <=> Away(r)
<1>1. r.status \in Statuses \union {"none"}
  BY DEF Agree, Keys
<1>2. Effective(r) = "offline" <=> r.status = "offline"
  BY <1>1 DEF Effective, Statuses
<1> QED BY <1>2 DEF Offline, Reads, Away

LEMMA ExpiredAway ==
  ASSUME NEW r, Agree(r)
  PROVE  Live(Expired(r)) = Live(r) /\ Expired(r).status = r.status
         /\ Expired(r).listed = r.listed
<1> DEFINE gone == {s \in Socket : r.lease[s] = "lapsed"}
           lease == [s \in Socket |-> IF s \in gone THEN "none" ELSE r.lease[s]]
           cycle == [s \in Socket |-> IF s \in gone THEN "none" ELSE r.cycle[s]]
<1>1. Expired(r) = [r EXCEPT !.lease = lease, !.devices = @ \ gone, !.cycle = cycle]
  BY DEF Expired
<1>2. r \in Keys
  BY DEF Agree
<1>3. /\ Expired(r).lease = lease
      /\ Expired(r).status = r.status /\ Expired(r).listed = r.listed
  BY <1>1, <1>2 DEF Keys
<1> QED BY <1>3 DEF Live

\* A prune changes nothing for the others, unless it takes the user off the list.
LEMMA PrunedAway ==
  ASSUME NEW r, Agree(r)
  PROVE  /\ Away(Pruned(r)) <=> Away(r)
         /\ Live(Pruned(r)) = Live(r)
BY ExpiredAway DEF Pruned, Away, Live, Gone

LEMMA UpsertedAway ==
  ASSUME NEW r, Agree(r), NEW s \in Socket, Live(r) # {}
  PROVE  /\ Away(Upserted(r, s)) <=> Away(r)
         /\ Live(Upserted(r, s)) # {}
<1> DEFINE e == Expired(r)
           u == Upserted(r, s)
<1>1. Agree(e) /\ Live(e) = Live(r) /\ e.status = r.status
  BY ExpiredAgrees, ExpiredAway
<1>2. u = [e EXCEPT !.lease[s] = "live", !.devices = @ \union {s},
                    !.cycle[s] = IF @ = "none" THEN "online" ELSE @, !.listed = TRUE]
  BY DEF Upserted
<1> HIDE DEF e, u
<1>3. e \in Keys /\ e.lease \in [Socket -> {"none", "live", "lapsed"}]
  BY <1>1 DEF Agree, Keys
<1>4. u.lease = [e.lease EXCEPT ![s] = "live"] /\ u.status = e.status
  BY <1>2, <1>3 DEF Keys
<1>5. s \in Live(u)
  BY <1>3, <1>4 DEF Live
<1>6. (Away(u) <=> Away(r)) /\ Live(u) # {}
  BY <1>1, <1>4, <1>5 DEF Away
<1> QED BY <1>6 DEF u

\* What the ways to write run mean for a handler that is telling.
LEMMA GoesTells ==
  ASSUME run \in [Task -> Handlers], NEW p \in Task, NEW step \in Steps, Goes(p, step)
  PROVE  /\ run'[p].pc = step /\ run'[p].first = run[p].first
         /\ \A q \in Task \ {p} : run'[q] = run[q]
<1>1. run[p] \in Records /\ run' = [run EXCEPT ![p] = [run[p] EXCEPT !.pc = step]]
  BY DEF Goes, Handlers
<1>2. run'[p] = [run[p] EXCEPT !.pc = step]
  BY <1>1
<1> QED BY <1>1, <1>2 DEF Records

LEMMA EndsTells ==
  ASSUME run \in [Task -> Handlers], NEW p \in Task, Ends(p)
  PROVE  \A q \in Task \ {p} : run'[q] = run[q]
BY DEF Ends

LEMMA TurnsTells ==
  ASSUME run \in [Task -> Handlers], NEW p \in Task, NEW step \in Steps, Turns(p, step)
  PROVE  run'[p].pc = step /\ \A q \in Task \ {p} : run'[q] = run[q]
BY DEF Turns, Idle

LEMMA TellsTells ==
  ASSUME run \in [Task -> Handlers], NEW p \in Task, NEW status, Tells(p, status)
  PROVE  run'[p].pc = "card" /\ \A q \in Task \ {p} : run'[q] = run[q]
BY DEF Tells, Idle

LEMMA StartsTells ==
  ASSUME run \in [Task -> Handlers], NEW p \in Task, NEW step, NEW s, NEW want,
         Starts(p, step, s, want)
  PROVE  run[p].pc = "idle" /\ \A q \in Task \ {p} : run'[q] = run[q]
BY DEF Starts

LEMMA AfterLifeTells ==
  ASSUME run \in [Task -> Handlers], NEW p \in Task, NEW written, AfterLife(p, written)
  PROVE  /\ run[p].first => Telling(run'[p])
         /\ \A q \in Task \ {p} : run'[q] = run[q]
BY TurnsTells, EndsTells DEF AfterLife, Steps, Telling

\* A step that leaves the user as they were, and lets nobody off.
LEMMA OwedStays ==
  ASSUME Agree(db), Agree(db)', Owed, told' = told,
         NEW p \in Task, \A q \in Task \ {p} : run'[q] = run[q],
         Telling(run[p]) => Telling(run'[p]),
         missed => missed',
         Away(db') <=> Away(db),
         db.listed /\ Live(db) = {} => missed' \/ (db'.listed /\ Live(db') = {})
                                       \/ Telling(run'[p])
  PROVE  Owed'
<1>1. Offline(Reads(db))' <=> Away(db')
  <2>1. \A r : Agree(r) => (Offline(Reads(r)) <=> Away(r))
    BY AwayReads
  <2> QED BY <2>1 DEF Agree, Keys, Leased, Offline, Reads, Live, Effective
<1>2. Offline(Reads(db)) <=> Away(db)
  BY AwayReads
<1>3. Settled => Settled'
  BY <1>1, <1>2 DEF Settled, Offline
<1>4. (\E q \in Task : Telling(run[q])) => \E q \in Task : Telling(run'[q])
  OBVIOUS
<1> QED BY <1>3, <1>4 DEF Owed, Telling, Live

\* The same for a step of the server that is no handler's.
LEMMA OwedRests ==
  ASSUME Agree(db), Agree(db)', Owed, told' = told, run' = run,
         missed => missed',
         Away(db') <=> Away(db),
         db.listed /\ Live(db) = {} => missed' \/ (db'.listed /\ Live(db') = {})
  PROVE  Owed'
<1>1. \A r : Agree(r) => (Offline(Reads(r)) <=> Away(r))
  BY AwayReads
<1>2. Offline(Reads(db))' <=> Away(db')
  BY <1>1 DEF Agree, Keys, Leased, Offline, Reads, Live, Effective
<1>3. Settled => Settled'
  BY <1>1, <1>2 DEF Settled, Offline
<1> QED BY <1>3 DEF Owed, Telling, Live

\* Nothing changes but the handlers, and the one that moves was not telling.
LEMMA OwedStarts ==
  ASSUME Agree(db), Agree(db)', Owed, UNCHANGED <<db, told, missed>>,
         NEW p \in Task, run[p].pc = "idle", \A q \in Task \ {p} : run'[q] = run[q]
  PROVE  Owed'
<1>1. ~Telling(run[p])
  BY DEF Telling
<1> QED BY <1>1, OwedStays

LEMMA OwedTells ==
  ASSUME NEW p \in Task, Telling(run'[p])
  PROVE  Owed'
BY DEF Owed, Telling

\* No lease, no name on the list: a prune changes nothing then.
LEMMA PruneOwed ==
  ASSUME Agree(db), Prunes
  PROVE  /\ Agree(db') /\ Agree(db)'
         /\ Away(db') <=> Away(db)
         /\ Live(db') = Live(db)
<1>1. Agree(db')
  BY PrunedAgrees DEF Prunes
<1>2. Agree(db)'
  BY <1>1 DEF Agree, Keys, Leased
<1> QED BY <1>1, <1>2, PrunedAway DEF Prunes

\* Once the handlers are done and the sweep has nothing to find, the others believe
\* the user to be offline exactly if they are, unless a reader noticed first or a
\* broadcast was overtaken: for any number of sockets, handlers and readers.
THEOREM OthersAreTold == Spec => []ToldTheTruth
<1>1. Init => Owed
  BY GoneAgrees, AwayReads DEF Init, Owed, Settled, Away, Offline, Live, Gone
<1>2. IInv /\ IInv' /\ Owed /\ [Next]_vars => Owed'
  <2> SUFFICES ASSUME IInv, IInv', Owed, [Next]_vars PROVE Owed'
    OBVIOUS
  <2>0. /\ Agree(db) /\ Agree(db)' /\ run \in [Task -> Handlers]
        /\ missed \in BOOLEAN /\ missed' \in BOOLEAN
    BY DEF IInv
  <2>1. ASSUME NEW p \in Task, Handler(p) PROVE Owed'
    <3>1. CASE SetsOnline(p)
      BY <2>0, <3>1, TurnsTells, OwedTells DEF SetsOnline, Steps, Telling
    <3>2. CASE SetsStatus(p)
      BY <2>0, <3>2, TurnsTells, OwedTells DEF SetsStatus, Steps, Telling
    <3>3. CASE LifePrunes(p)
      <4>1. /\ Prunes /\ told' = told /\ run[p].pc = "life"
            /\ missed' = (missed \/ (db.listed /\ Live(db) = {}))
        BY <3>3 DEF LifePrunes, Unheard
      <4>2. AfterLife(p, FALSE) \/ Goes(p, "score")
        BY <3>3 DEF LifePrunes
      <4>3. /\ \A q \in Task \ {p} : run'[q] = run[q]
            /\ Telling(run[p]) => Telling(run'[p])
        <5>1. CASE AfterLife(p, FALSE)
          BY <2>0, <4>1, <5>1, AfterLifeTells DEF Telling
        <5>2. CASE Goes(p, "score")
          BY <2>0, <4>1, <5>2, GoesTells DEF Telling, Steps
        <5> QED BY <4>2, <5>1, <5>2
      <4> QED BY <2>0, <4>1, <4>3, PruneOwed, OwedStays
    <3>4. CASE StatusPrunes(p)
      BY <2>0, <3>4, TellsTells, TurnsTells, OwedTells DEF StatusPrunes, Steps, Telling
    <3>5. CASE StatusReads(p)
      BY <2>0, <3>5, TellsTells, OwedTells DEF StatusReads, Telling
    <3>6. CASE CardPrunes(p)
      BY <2>0, <3>6, GoesTells, OwedTells DEF CardPrunes, Steps, Telling
    <3>7. CASE Emits(p)
      <4>1. /\ told' = run[p].say /\ db' = db
            /\ missed' = (Offline(run[p].say) # Offline(Reads(db)))
        BY <3>7 DEF Emits
      <4>2. Offline(run[p].say) \in BOOLEAN /\ Offline(Reads(db)) \in BOOLEAN
        BY DEF Offline
      <4>3. missed' \/ (Offline(told') <=> Offline(Reads(db)))
        BY <4>1, <4>2
      <4>4. missed' \/ Settled'
        BY <4>1, <4>3 DEF Settled, Offline, Reads, Live, Effective
      <4> QED BY <4>4 DEF Owed
    <3>8. CASE SweepPrunes(p)
      <4>1. Prunes /\ UNCHANGED <<told, missed>> /\ run[p].pc = "sweep"
        BY <3>8 DEF SweepPrunes
      <4>2. CASE db.listed /\ Live(db) = {}
        <5>1. run' = [run EXCEPT ![p].pc = "card", ![p].say = "offline"]
          BY <3>8, <4>2 DEF SweepPrunes
        <5>2. run[p] \in Records
          BY <2>0 DEF Handlers
        <5>3. run'[p] = [run[p] EXCEPT !.pc = "card", !.say = "offline"]
          BY <2>0, <5>1
        <5>4. run'[p].pc = "card"
          BY <5>2, <5>3 DEF Records
        <5> QED BY <5>4, OwedTells DEF Telling
      <4>3. CASE ~(db.listed /\ Live(db) = {})
        <5>1. Ends(p)
          BY <3>8, <4>3 DEF SweepPrunes
        <5>2. ~Telling(run[p])
          BY <4>1 DEF Telling
        <5> QED BY <2>0, <4>1, <4>3, <5>1, <5>2, EndsTells, PruneOwed, OwedStays
      <4> QED BY <4>2, <4>3
    <3>9. ASSUME NEW s \in Socket, Adds(p, s) PROVE Owed'
      BY <2>0, <3>9, TurnsTells, OwedTells DEF Adds, Steps, Telling
    <3>10. ASSUME NEW s \in Socket, Refreshes(p, s) PROVE Owed'
      <4> DEFINE first == (Live(db) = {})
      <4>1. run' = [run EXCEPT ![p] = [run[p] EXCEPT !.pc = "life", !.first = first]]
        BY <2>0, <3>10 DEF Refreshes
      <4>2. /\ run[p] \in Records /\ run[p].pc = "refresh"
            /\ db' = Upserted(db, s) /\ UNCHANGED <<told, missed>>
        BY <2>0, <3>10 DEF Refreshes, Handlers
      <4> HIDE DEF first
      <4>3. run'[p] = [run[p] EXCEPT !.pc = "life", !.first = first]
        BY <2>0, <4>1
      <4>4. run'[p].pc = "life" /\ run'[p].first = first
        BY <4>2, <4>3 DEF Records
      <4>5. CASE Live(db) = {}
        BY <4>4, <4>5, OwedTells DEF Telling, first
      <4>6. CASE Live(db) # {}
        <5>1. ~Telling(run[p])
          BY <4>2 DEF Telling
        <5>2. Away(db') <=> Away(db)
          BY <2>0, <4>2, <4>6, UpsertedAway
        <5>3. \A q \in Task \ {p} : run'[q] = run[q]
          BY <2>0, <4>1
        <5> QED BY <2>0, <4>2, <4>6, <5>1, <5>2, <5>3, OwedStays
      <4> QED BY <4>5, <4>6
    <3>11. ASSUME NEW s \in Socket, LifeScores(p, s) PROVE Owed'
      <4>1. UNCHANGED <<db, told, missed>> /\ run[p].pc = "score"
        BY <3>11 DEF LifeScores
      <4>2. AfterLife(p, FALSE) \/ Goes(p, "hset")
        BY <3>11 DEF LifeScores
      <4>3. /\ \A q \in Task \ {p} : run'[q] = run[q]
            /\ Telling(run[p]) => Telling(run'[p])
        <5>1. CASE AfterLife(p, FALSE)
          BY <2>0, <4>1, <5>1, AfterLifeTells DEF Telling
        <5>2. CASE Goes(p, "hset")
          BY <2>0, <4>1, <5>2, GoesTells DEF Telling, Steps
        <5> QED BY <4>2, <5>1, <5>2
      <4> QED BY <2>0, <4>1, <4>3, OwedStays
    <3>12. ASSUME NEW s \in Socket, LifeWrites(p, s) PROVE Owed'
      <4>1. /\ db' = [db EXCEPT !.cycle[s] = run[p].want]
            /\ AfterLife(p, TRUE) /\ UNCHANGED <<told, missed>> /\ run[p].pc = "hset"
        BY <3>12 DEF LifeWrites
      <4>2. db'.lease = db.lease /\ db'.status = db.status /\ db'.listed = db.listed
        BY <2>0, <4>1 DEF Agree, Keys
      <4>3. (Away(db') <=> Away(db)) /\ Live(db') = Live(db)
        BY <4>2 DEF Away, Live
      <4>4. /\ \A q \in Task \ {p} : run'[q] = run[q]
            /\ Telling(run[p]) => Telling(run'[p])
        BY <2>0, <4>1, AfterLifeTells DEF Telling
      <4> QED BY <2>0, <4>1, <4>2, <4>3, <4>4, OwedStays
    <3>13. ASSUME NEW s \in Socket, Removes(p, s) PROVE Owed'
      BY <2>0, <3>13, TellsTells, TurnsTells, OwedTells DEF Removes, Steps, Telling
    <3> QED BY <2>1, <3>1, <3>2, <3>3, <3>4, <3>5, <3>6, <3>7, <3>8, <3>9, <3>10, <3>11,
               <3>12, <3>13 DEF Handler
  <2>2. ASSUME NEW p \in Task, Event(p) PROVE Owed'
    <3>1. /\ UNCHANGED <<db, told, missed>> /\ run[p].pc = "idle"
          /\ \A q \in Task \ {p} : run'[q] = run[q]
      BY <2>0, <2>2, StartsTells
         DEF Event, Connect, Disconnect, Update, Heartbeat, SaysLifecycle
    <3> QED BY <2>0, <3>1, OwedStarts
  <2>3. ASSUME NEW p \in Task, SweepLists(p) PROVE Owed'
    BY <2>0, <2>3, OwedStarts DEF SweepLists
  <2>4. CASE Reader
    <3>1. /\ Prunes /\ run' = run /\ told' = told
          /\ missed' = (missed \/ (db.listed /\ Live(db) = {}))
      BY <2>4 DEF Reader, Unheard
    <3> QED BY <2>0, <3>1, PruneOwed, OwedRests
  <2>5. CASE Restart
    <3>1. told' = "offline" /\ db' = Gone
      BY <2>5 DEF Restart
    <3>2. Live(Gone) = {}
      BY DEF Live, Gone
    <3>3. Settled'
      BY <3>1, <3>2 DEF Settled, Offline, Reads, Live
    <3> QED BY <3>3 DEF Owed
  <2>6. ASSUME NEW s \in Socket, Lapse(s) PROVE Owed'
    <3>1. /\ db.lease[s] = "live" /\ db' = [db EXCEPT !.lease[s] = "lapsed"]
          /\ UNCHANGED <<run, told, missed>>
      BY <2>6 DEF Lapse
    <3>2. /\ db'.lease = [db.lease EXCEPT ![s] = "lapsed"]
          /\ db'.status = db.status /\ db'.listed = db.listed
          /\ db.lease \in [Socket -> {"none", "live", "lapsed"}]
      BY <2>0, <3>1 DEF Agree, Keys
    <3>3. Live(db') = Live(db) \ {s} /\ s \in Live(db)
      BY <3>1, <3>2 DEF Live
    <3>4. db.listed
      BY <2>0, <3>1 DEF Agree, Leased
    <3>5. CASE Live(db') = {}
      BY <3>2, <3>4, <3>5 DEF Owed, Live
    <3>6. CASE Live(db') # {}
      BY <2>0, <3>1, <3>2, <3>3, <3>6, OwedRests DEF Away
    <3> QED BY <3>5, <3>6
  <2>7. CASE UNCHANGED vars
    BY <2>0, <2>7, OwedRests DEF vars
  <2> QED BY <2>1, <2>2, <2>3, <2>4, <2>5, <2>6, <2>7 DEF Next
<1>3. Owed => ToldTheTruth
  BY DEF Owed, ToldTheTruth, Settled, Telling
<1> QED BY <1>1, <1>2, <1>3, IInvHolds, PTL DEF Spec

=============================================================================
