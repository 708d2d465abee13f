---------------------------- MODULE VoiceProofs ----------------------------
(***************************************************************************)
(* Proofs about Voice, for any finite set of users and handlers, and any     *)
(* channels and sockets: the limit of a channel, and the list of users of a   *)
(* channel against the sockets that are in it.                              *)
(***************************************************************************)
EXTENDS Voice, FiniteSetTheorems, TLAPS

USE VoiceAssumption

-----------------------------------------------------------------------------
(* What the ways to write run do to it.                                     *)

Steps == {"idle", "check", "set", "room", "device", "undevice", "unroom",
          "rooms", "next", "other", "clear", "exists", "patch", "kill"}

Handlers == [pc : Steps, sock : SUBSET Socket, chan : Channel \union {None},
             todo : SUBSET Channel]

Others(p) == \A q \in Task \ {p} : run'[q] = run[q]

GoesTo(p, step) ==
    /\ run'[p].pc = step /\ run'[p].sock = run[p].sock
    /\ run'[p].chan = run[p].chan /\ run'[p].todo = run[p].todo
    /\ Others(p)

EndsNow(p) ==
    /\ run'[p].pc = "idle" /\ run'[p].sock = {} /\ run'[p].chan = None /\ run'[p].todo = {}
    /\ Others(p)

StartsNow(p, s, step, c) ==
    /\ run[p].pc = "idle"
    /\ run'[p].pc = step /\ run'[p].sock = {s} /\ run'[p].chan = c /\ run'[p].todo = {}
    /\ Others(p)

LEMMA IdleHandler == Idle \in Handlers
  BY DEF Idle, Handlers, Steps

LEMMA GoesEffect ==
  ASSUME run \in [Task -> Handlers], NEW p \in Task, NEW step \in Steps, Goes(p, step)
  PROVE  run' \in [Task -> Handlers] /\ GoesTo(p, step)
<1>1. run[p] \in Handlers /\ run' = [run EXCEPT ![p] = [run[p] EXCEPT !.pc = step]]
  BY DEF Goes
<1>2. [run[p] EXCEPT !.pc = step] \in Handlers
  BY <1>1 DEF Handlers
<1>3. run'[p] = [run[p] EXCEPT !.pc = step] /\ Others(p) /\ run' \in [Task -> Handlers]
  BY <1>1, <1>2 DEF Others
<1> QED BY <1>1, <1>3 DEF GoesTo, Handlers

LEMMA EndsEffect ==
  ASSUME run \in [Task -> Handlers], NEW p \in Task, Ends(p)
  PROVE  run' \in [Task -> Handlers] /\ EndsNow(p)
BY IdleHandler DEF Ends, EndsNow, Idle, Others

LEMMA StartsEffect ==
  ASSUME run \in [Task -> Handlers], NEW p \in Task, NEW s \in Socket, NEW step \in Steps,
         NEW c \in Channel \union {None}, Starts(p, s, step, c)
  PROVE  run' \in [Task -> Handlers] /\ StartsNow(p, s, step, c)
<1> DEFINE h == [Idle EXCEPT !.pc = step, !.sock = {s}, !.chan = c]
<1>1. h.pc = step /\ h.sock = {s} /\ h.chan = c /\ h.todo = {}
  BY DEF Idle
<1>2. h \in Handlers
  BY IdleHandler DEF Handlers
<1>3. run[p].pc = "idle" /\ run' = [run EXCEPT ![p] = h]
  BY DEF Starts
<1> HIDE DEF h
<1>4. run'[p] = h /\ Others(p) /\ run' \in [Task -> Handlers]
  BY <1>2, <1>3 DEF Others
<1> QED BY <1>1, <1>3, <1>4 DEF StartsNow

-----------------------------------------------------------------------------
(* Every variable keeps its type.                                           *)

LEMMA TypeParts ==
  TypeOK <=> /\ state \in [Channel -> SUBSET User]
             /\ device \in [Socket -> Channel \union {None}]
             /\ rooms \in [Socket -> SUBSET Channel]
             /\ conn \in [Socket -> {"new", "open", "closed"}]
             /\ want \in [Socket -> Channel \union {None}]
             /\ run \in [Task -> Handlers]
             /\ crossed \subseteq User
             /\ raced \subseteq Channel
BY DEF TypeOK, Handlers, Steps

LEMMA TypeStep ==
  ASSUME TypeOK, [Next]_vars
  PROVE  TypeOK'
<1>0. /\ state \in [Channel -> SUBSET User]
      /\ device \in [Socket -> Channel \union {None}]
      /\ rooms \in [Socket -> SUBSET Channel]
      /\ conn \in [Socket -> {"new", "open", "closed"}]
      /\ want \in [Socket -> Channel \union {None}]
      /\ run \in [Task -> Handlers]
      /\ crossed \subseteq User
      /\ raced \subseteq Channel
  BY TypeParts
<1> DEFINE Aim == /\ state' \in [Channel -> SUBSET User]
                  /\ device' \in [Socket -> Channel \union {None}]
                  /\ rooms' \in [Socket -> SUBSET Channel]
                  /\ conn' \in [Socket -> {"new", "open", "closed"}]
                  /\ want' \in [Socket -> Channel \union {None}]
                  /\ run' \in [Task -> Handlers]
                  /\ crossed' \subseteq User
                  /\ raced' \subseteq Channel
<1> SUFFICES Aim
  BY DEF TypeOK, Handlers, Steps
<1>1. ASSUME NEW p \in Task, Event(p) PROVE Aim
  <2>0. \A s \in Socket : \A step, c : Starts(p, s, step, c) => crossed' \subseteq User
    BY <1>0 DEF Starts
  <2>1. crossed' \subseteq User /\ UNCHANGED <<state, device, rooms, raced>>
    BY <1>0, <1>1, <2>0 DEF Event, Leave, Disconnect, Update, Join, Dismiss
  <2>2. run' \in [Task -> Handlers]
    BY <1>0, <1>1, StartsEffect
       DEF Event, Leave, Disconnect, Update, Join, Dismiss, Steps
  <2>3. /\ conn' \in [Socket -> {"new", "open", "closed"}]
        /\ want' \in [Socket -> Channel \union {None}]
    BY <1>0, <1>1 DEF Event, Leave, Disconnect, Update, Join, Dismiss
  <2> QED BY <1>0, <2>1, <2>2, <2>3
<1>2. ASSUME NEW p \in Task, NextRoom(p) PROVE Aim
  <2>1. CASE Ends(p)
    BY <1>0, <1>2, <2>1, EndsEffect DEF NextRoom
  <2>2. ASSUME NEW c \in run[p].todo,
               run' = [run EXCEPT ![p].pc = "other", ![p].chan = c, ![p].todo = @ \ {c}]
        PROVE  Aim
    <3>1. run[p] \in Handlers
      BY <1>0
    <3>2. [run[p] EXCEPT !.pc = "other", !.chan = c, !.todo = @ \ {c}] \in Handlers
      BY <3>1 DEF Handlers, Steps
    <3>3. run' = [run EXCEPT ![p] = [run[p] EXCEPT !.pc = "other", !.chan = c,
                                                   !.todo = @ \ {c}]]
      BY <1>0, <2>2
    <3> QED BY <1>0, <1>2, <3>2, <3>3 DEF NextRoom
  <2> QED BY <1>2, <2>1, <2>2 DEF NextRoom
<1>3. ASSUME NEW p \in Task, NEW s \in Socket,
             ReadsRooms(p, s) \/ Strikes(p, s) \/ RemovesDevice(p, s, None)
      PROVE  Aim
  <2>1. CASE ReadsRooms(p, s)
    <3>0. run[p] \in Handlers /\ rooms[s] \in SUBSET Channel
      BY <1>0
    <3>1. [run[p] EXCEPT !.pc = "next", !.todo = rooms[s]] \in Handlers
      BY <3>0 DEF Handlers, Steps
    <3>2. run' = [run EXCEPT ![p] = [run[p] EXCEPT !.pc = "next", !.todo = rooms[s]]]
      BY <1>0, <2>1 DEF ReadsRooms
    <3> QED BY <1>0, <2>1, <3>1, <3>2 DEF ReadsRooms
  <2>2. CASE Strikes(p, s)
    BY <1>0, <2>2, EndsEffect DEF Strikes
  <2>3. CASE RemovesDevice(p, s, None)
    BY <1>0, <2>3, GoesEffect DEF RemovesDevice, Steps
  <2> QED BY <1>3, <2>1, <2>2, <2>3
<1>4. ASSUME NEW p \in Task, NEW s \in Socket, NEW c \in Channel,
             \/ JoinChecks(p, s, c) \/ JoinSets(p, s, c) \/ JoinRoom(p, s, c)
             \/ JoinAddsDevice(p, s, c)
             \/ RemovesDevice(p, s, c) \/ LeavesRoom(p, s, c)
             \/ LooksElsewhere(p, s, c) \/ Clears(p, s, c)
             \/ UpdateReads(p, s, c) \/ UpdateWrites(p, s, c)
      PROVE  Aim
  <2>1. run' \in [Task -> Handlers]
    BY <1>0, <1>4, GoesEffect, EndsEffect
       DEF JoinChecks, JoinSets, JoinRoom, JoinAddsDevice, RemovesDevice, LeavesRoom,
           LooksElsewhere, Clears, UpdateReads, UpdateWrites, Steps
  <2>2. /\ state' \in [Channel -> SUBSET User] /\ device' \in [Socket -> Channel \union {None}]
        /\ rooms' \in [Socket -> SUBSET Channel] /\ UNCHANGED <<conn, want, crossed>>
        /\ raced' \subseteq Channel
    BY <1>0, <1>4
       DEF JoinChecks, JoinSets, JoinRoom, JoinAddsDevice, RemovesDevice, LeavesRoom,
           LooksElsewhere, Clears, UpdateReads, UpdateWrites
  <2> QED BY <1>0, <2>1, <2>2
<1>5. ASSUME NEW s \in Socket, Connect(s) PROVE Aim
  BY <1>0, <1>5 DEF Connect
<1>6. CASE Restart
  <2>1. \A p \in Task : Users(p) \subseteq User
    BY <1>0 DEF Users, Handlers
  <2> DEFINE busy == UNION {Users(p) : p \in Task}
             listed == UNION {state[c] : c \in Channel}
  <2>2. busy \subseteq User /\ listed \subseteq User
    BY <1>0, <2>1
  <2>3. crossed' \subseteq User
    <3>1. crossed' = crossed \union listed \union busy
      BY <1>6 DEF Restart
    <3> HIDE DEF busy, listed
    <3> QED BY <1>0, <2>2, <3>1
  <2> HIDE DEF busy, listed
  <2> QED BY <1>0, <1>6, <2>3, IdleHandler DEF Restart
<1>7. CASE UNCHANGED vars
  BY <1>0, <1>7 DEF vars
<1> QED BY <1>1, <1>2, <1>3, <1>4, <1>5, <1>6, <1>7 DEF Next, Handler

-----------------------------------------------------------------------------
(* The limit.                                                               *)

\* Those who are listed in a channel or about to be.
Coming(c) == state[c] \union Pending(c)

LEMMA InPending ==
  ASSUME NEW c, NEW u
  PROVE  u \in Pending(c) <=> \E q \in Task : /\ run[q].pc \in {"set", "patch"}
                                              /\ run[q].chan = c /\ u \in Users(q)
BY DEF Pending

LEMMA InPendingNext ==
  ASSUME NEW c, NEW u
  PROVE  u \in Pending(c)' <=> \E q \in Task : /\ run'[q].pc \in {"set", "patch"}
                                               /\ run'[q].chan = c /\ u \in Users(q)'
BY DEF Pending

\* A limit that holds goes on holding for fewer users.
LEMMA FewerFit ==
  ASSUME TypeOK, NEW c \in Channel, Limit[c] > 0,
         Cardinality(Coming(c) \ Exempt) <= Limit[c],
         NEW S, S \subseteq Coming(c) \ Exempt
  PROVE  Cardinality(S) <= Limit[c]
<1>1. Pending(c) \subseteq User
  <2>1. \A p \in Task : Users(p) \subseteq User
    BY TypeParts DEF Users, Handlers
  <2> QED BY <2>1 DEF Pending
<1>2. IsFiniteSet(Coming(c) \ Exempt)
  BY <1>1, FS_Subset DEF Coming, TypeOK
<1>3. Cardinality(S) <= Cardinality(Coming(c) \ Exempt) /\ IsFiniteSet(S)
  BY <1>2, FS_Subset
<1>4. Cardinality(S) \in Nat /\ Cardinality(Coming(c) \ Exempt) \in Nat /\ Limit[c] \in Nat
  BY <1>2, <1>3, FS_CardinalityType
<1> QED BY <1>3, <1>4

\* A step that brings nobody keeps the limits.
LEMMA NobodyComes ==
  ASSUME TypeOK, CapacityKept, raced' = raced,
         \A c \in Channel : Coming(c)' \subseteq Coming(c)
  PROVE  CapacityKept'
<1> SUFFICES ASSUME NEW c \in Channel \ raced, Limit[c] > 0
             PROVE  Cardinality(Coming(c)' \ Exempt) <= Limit[c]
  BY DEF CapacityKept, Coming
<1>1. Cardinality(Coming(c) \ Exempt) <= Limit[c]
  BY DEF CapacityKept, Coming
<1> QED BY <1>1, FewerFit

\* Only one handler moves, and it is not about to write.
LEMMA NobodyPending ==
  ASSUME NEW p \in Task, Others(p), run'[p].pc \notin {"set", "patch"}, NEW c
  PROVE  Pending(c)' \subseteq Pending(c)
<1> SUFFICES ASSUME NEW u \in Pending(c)'
             PROVE  u \in Pending(c)
  OBVIOUS
<1>1. PICK q \in Task : /\ run'[q].pc \in {"set", "patch"}
                        /\ run'[q].chan = c /\ u \in Users(q)'
  BY InPendingNext
<1>2. run'[q] = run[q]
  BY <1>1 DEF Others
<1> QED BY <1>1, <1>2, InPending DEF Users

LEMMA CapacityStep ==
  ASSUME TypeOK, CapacityKept, [Next]_vars
  PROVE  CapacityKept'
<1>0. /\ state \in [Channel -> SUBSET User] /\ run \in [Task -> Handlers]
      /\ raced \subseteq Channel
  BY TypeParts
<1>1. ASSUME NEW p \in Task, Event(p) PROVE CapacityKept'
  <2>1. state' = state /\ raced' = raced
    BY <1>1 DEF Event, Leave, Disconnect, Update, Join, Dismiss
  <2>2. Others(p) /\ run'[p].pc \notin {"set", "patch"}
    BY <1>0, <1>1, StartsEffect, TypeParts
       DEF Event, Leave, Disconnect, Update, Join, Dismiss, Steps, StartsNow
  <2> QED BY <2>1, <2>2, NobodyPending, NobodyComes DEF Coming
<1>2. ASSUME NEW p \in Task, NextRoom(p) PROVE CapacityKept'
  <2>1. state' = state /\ raced' = raced
    BY <1>2 DEF NextRoom
  <2>2. Others(p) /\ run'[p].pc \notin {"set", "patch"}
    <3>1. CASE Ends(p)
      BY <1>0, <3>1, EndsEffect DEF EndsNow
    <3>2. ASSUME NEW c \in run[p].todo,
                 run' = [run EXCEPT ![p].pc = "other", ![p].chan = c, ![p].todo = @ \ {c}]
          PROVE  Others(p) /\ run'[p].pc = "other"
      <4>1. run[p] \in Handlers
        BY <1>0
      <4>2. run'[p] = [run[p] EXCEPT !.pc = "other", !.chan = c, !.todo = @ \ {c}]
        BY <1>0, <3>2
      <4> QED BY <1>0, <3>2, <4>1, <4>2 DEF Others, Handlers
    <3> QED BY <1>2, <3>1, <3>2 DEF NextRoom
  <2> QED BY <2>1, <2>2, NobodyPending, NobodyComes DEF Coming
<1>3. ASSUME NEW p \in Task, NEW s \in Socket,
             ReadsRooms(p, s) \/ Strikes(p, s) \/ RemovesDevice(p, s, None)
      PROVE  CapacityKept'
  <2>1. state' = state /\ raced' = raced
    BY <1>3 DEF ReadsRooms, Strikes, RemovesDevice
  <2>2. Others(p) /\ run'[p].pc \notin {"set", "patch"}
    <3>1. CASE ReadsRooms(p, s)
      <4>1. run[p] \in Handlers
        BY <1>0
      <4>2. run' = [run EXCEPT ![p] = [run[p] EXCEPT !.pc = "next", !.todo = rooms[s]]]
        BY <1>0, <3>1 DEF ReadsRooms
      <4>3. run'[p] = [run[p] EXCEPT !.pc = "next", !.todo = rooms[s]] /\ Others(p)
        BY <1>0, <4>2 DEF Others
      <4> QED BY <4>1, <4>3 DEF Handlers
    <3>2. CASE Strikes(p, s)
      BY <1>0, <3>2, EndsEffect DEF Strikes, EndsNow
    <3>3. CASE RemovesDevice(p, s, None)
      BY <1>0, <3>3, GoesEffect DEF RemovesDevice, Steps, GoesTo
    <3> QED BY <1>3, <3>1, <3>2, <3>3
  <2> QED BY <2>1, <2>2, NobodyPending, NobodyComes DEF Coming
<1>4. ASSUME NEW p \in Task, NEW s \in Socket, NEW c \in Channel, JoinChecks(p, s, c)
      PROVE  CapacityKept'
  <2>1. state' = state /\ At(p, "check", s, c)
    BY <1>4 DEF JoinChecks
  <2>2. CASE HasRoom(c, Owner[s])
    <3>1. GoesTo(p, "set")
      BY <1>0, <1>4, <2>2, GoesEffect DEF JoinChecks, Steps
    <3>2. \A d : Pending(d)' \subseteq Pending(d) \union (IF d = c THEN {Owner[s]} ELSE {})
      <4> SUFFICES ASSUME NEW d, NEW u \in Pending(d)'
                   PROVE  u \in Pending(d) \/ (d = c /\ u = Owner[s])
        OBVIOUS
      <4>1. PICK q \in Task : /\ run'[q].pc \in {"set", "patch"}
                              /\ run'[q].chan = d /\ u \in Users(q)'
        BY InPendingNext
      <4>2. CASE q = p
        BY <2>1, <3>1, <4>1, <4>2 DEF GoesTo, At, Users
      <4>3. CASE q # p
        <5>1. run'[q] = run[q]
          BY <3>1, <4>3 DEF GoesTo, Others
        <5> QED BY <4>1, <5>1, InPending DEF Users
      <4> QED BY <4>2, <4>3
    <3>3. ASSUME NEW d \in Channel \ raced', Limit[d] > 0
          PROVE  Cardinality(Coming(d)' \ Exempt) <= Limit[d]
      <4>1. d \notin raced /\ (d = c => Pending(c) \subseteq state[c] \union {Owner[s]})
        BY <1>4, <2>2, <3>3 DEF JoinChecks
      <4>2. Cardinality(Coming(d) \ Exempt) <= Limit[d]
        BY <3>3, <4>1 DEF CapacityKept, Coming
      <4>3. CASE Coming(d)' \ Exempt \subseteq Coming(d) \ Exempt
        BY <3>3, <4>2, <4>3, FewerFit
      <4>4. CASE ~ (Coming(d)' \ Exempt \subseteq Coming(d) \ Exempt)
        <5>1. d = c /\ Owner[s] \notin Exempt /\ Owner[s] \notin state[c]
          BY <2>1, <3>2, <4>4 DEF Coming
        <5>2. Cardinality(state[c]) < Limit[c]
          BY <2>2, <3>3, <5>1 DEF HasRoom
        <5>3. Coming(c)' \ Exempt \subseteq state[c] \union {Owner[s]}
          BY <2>1, <3>2, <4>1, <5>1 DEF Coming
        <5>4. IsFiniteSet(state[c])
          BY <1>0, FS_Subset
        <5>5. /\ IsFiniteSet(state[c] \union {Owner[s]})
              /\ Cardinality(state[c] \union {Owner[s]}) = Cardinality(state[c]) + 1
          BY <5>1, <5>4, FS_AddElement
        <5>6. /\ IsFiniteSet(Coming(c)' \ Exempt)
              /\ Cardinality(Coming(c)' \ Exempt)
                   <= Cardinality(state[c] \union {Owner[s]})
          BY <5>3, <5>5, FS_Subset
        <5>7. /\ Cardinality(Coming(c)' \ Exempt) \in Nat
              /\ Cardinality(state[c]) \in Nat /\ Limit[c] \in Nat
          BY <5>4, <5>6, FS_CardinalityType
        <5> QED BY <5>1, <5>2, <5>5, <5>6, <5>7
      <4> QED BY <4>3, <4>4
    <3> QED BY <3>3 DEF CapacityKept, Coming
  <2>3. CASE ~ HasRoom(c, Owner[s])
    <3>1. EndsNow(p) /\ raced' = raced
      BY <1>0, <1>4, <2>3, EndsEffect DEF JoinChecks
    <3> QED BY <2>1, <3>1, NobodyPending, NobodyComes DEF EndsNow, Coming
  <2> QED BY <2>2, <2>3
<1>5. ASSUME NEW p \in Task, NEW s \in Socket, NEW c \in Channel,
             JoinSets(p, s, c) \/ UpdateWrites(p, s, c)
      PROVE  CapacityKept'
  <2>1. /\ run[p].pc \in {"set", "patch"} /\ run[p].chan = c /\ Owner[s] \in Users(p)
        /\ state' = [state EXCEPT ![c] = @ \union {Owner[s]}] /\ raced' = raced
    BY <1>5 DEF JoinSets, UpdateWrites, At, Users
  <2>2. Others(p) /\ run'[p].pc \notin {"set", "patch"}
    BY <1>0, <1>5, GoesEffect, EndsEffect DEF JoinSets, UpdateWrites, Steps, GoesTo, EndsNow
  <2>3. Owner[s] \in Pending(c)
    BY <2>1, InPending
  <2>4. \A d \in Channel : Coming(d)' \subseteq Coming(d)
    BY <1>0, <2>1, <2>2, <2>3, NobodyPending DEF Coming
  <2> QED BY <2>1, <2>4, NobodyComes
<1>6. ASSUME NEW p \in Task, NEW s \in Socket, NEW c \in Channel,
             \/ JoinRoom(p, s, c) \/ JoinAddsDevice(p, s, c)
             \/ RemovesDevice(p, s, c) \/ LeavesRoom(p, s, c)
             \/ LooksElsewhere(p, s, c) \/ Clears(p, s, c)
      PROVE  CapacityKept'
  <2>1. raced' = raced /\ \A d \in Channel : state'[d] \subseteq state[d]
    BY <1>0, <1>6 DEF JoinRoom, JoinAddsDevice, RemovesDevice, LeavesRoom, LooksElsewhere,
                      Clears
  <2>2. Others(p) /\ run'[p].pc \notin {"set", "patch"}
    BY <1>0, <1>6, GoesEffect, EndsEffect
       DEF JoinRoom, JoinAddsDevice, RemovesDevice, LeavesRoom, LooksElsewhere, Clears,
           Steps, GoesTo, EndsNow
  <2> QED BY <2>1, <2>2, NobodyPending, NobodyComes DEF Coming
<1>7. ASSUME NEW p \in Task, NEW s \in Socket, NEW c \in Channel, UpdateReads(p, s, c)
      PROVE  CapacityKept'
  <2>1. state' = state /\ raced' = raced /\ At(p, "exists", s, c)
    BY <1>7 DEF UpdateReads
  <2>2. CASE Owner[s] \in state[c]
    <3>1. GoesTo(p, "patch")
      BY <1>0, <1>7, <2>2, GoesEffect DEF UpdateReads, Steps
    <3>2. ASSUME NEW d \in Channel, NEW u \in Pending(d)'
          PROVE  u \in Coming(d)
      <4>1. PICK q \in Task : /\ run'[q].pc \in {"set", "patch"}
                              /\ run'[q].chan = d /\ u \in Users(q)'
        BY <3>2, InPendingNext
      <4>2. CASE q = p
        BY <2>1, <2>2, <3>1, <4>1, <4>2 DEF GoesTo, At, Users, Coming
      <4>3. CASE q # p
        <5>1. run'[q] = run[q]
          BY <3>1, <4>3 DEF GoesTo, Others
        <5> QED BY <4>1, <5>1, InPending DEF Users, Coming
      <4> QED BY <4>2, <4>3
    <3> QED BY <2>1, <3>2, NobodyComes DEF Coming
  <2>3. CASE Owner[s] \notin state[c]
    <3>1. EndsNow(p)
      BY <1>0, <1>7, <2>3, EndsEffect DEF UpdateReads
    <3> QED BY <2>1, <3>1, NobodyPending, NobodyComes DEF EndsNow, Coming
  <2> QED BY <2>2, <2>3
<1>8. ASSUME NEW s \in Socket, Connect(s) PROVE CapacityKept'
  BY <1>8, NobodyComes DEF Connect, Coming, Pending, Users
<1>9. CASE Restart
  <2>1. \A c : Pending(c)' = {}
    BY <1>9, InPendingNext DEF Restart, Idle
  <2> QED BY <1>9, <2>1, NobodyComes DEF Restart, Coming
<1>10. CASE UNCHANGED vars
  BY <1>10, NobodyComes DEF vars, Coming, Pending, Users
<1> QED BY <1>1, <1>2, <1>3, <1>4, <1>5, <1>6, <1>7, <1>8, <1>9, <1>10 DEF Next, Handler

\* The limit of a channel is exceeded by no way but one: a user was let in while
\* another one was about to be listed.  For any number of users and handlers.
THEOREM LimitHoldsUnlessRaced == Spec => []Inv
<1>1. Init => Inv
  <2> SUFFICES ASSUME Init PROVE Inv
    OBVIOUS
  <2>1. TypeOK
    BY IdleHandler, TypeParts DEF Init
  <2>2. \A c \in Channel : Coming(c) = {}
    BY InPending DEF Init, Coming, Idle
  <2>3. Cardinality({} \ Exempt) = 0
    BY FS_EmptySet
  <2> QED BY <2>1, <2>2, <2>3 DEF Inv, CapacityKept, Coming
<1>2. Inv /\ [Next]_vars => Inv'
  BY TypeStep, CapacityStep DEF Inv
<1> QED BY <1>1, <1>2, PTL DEF Spec

-----------------------------------------------------------------------------
(* The list of a channel and the sockets in it, for one user.               *)

\* An open socket of u is in the channel.
Sits(u, c) ==
    \E t \in Socket : Owner[t] = u /\ conn[t] = "open" /\ c \in rooms[t] /\ device[t] = c

\* A socket no handler is busy with is all the way in the channel its page believes
\* to be in, or not at all.
Quiet(t) ==
    /\ conn[t] = "open" =>
          \/ (device[t] = None /\ rooms[t] = {})
          \/ (device[t] # None /\ device[t] = want[t] /\ rooms[t] = {want[t]})
    /\ conn[t] # "open" => device[t] = None /\ want[t] = None
    /\ conn[t] = "new" => rooms[t] = {}

\* How far the handler p of socket t, of user u, has got.
Fit(p, u, t) ==
    LET c == run[p].chan
        In(steps) == run[p].pc \in steps
    IN  /\ In({"check", "set", "room", "device"}) =>
              conn[t] = "open" /\ want[t] = c /\ device[t] = None
        /\ In({"check", "set", "room"}) => rooms[t] = {}
        /\ In({"device"}) => rooms[t] = {c}
        /\ In({"room", "device", "patch"}) => u \in state[c]
        /\ In({"exists", "patch"}) => conn[t] = "open" /\ want[t] = c /\ Quiet(t)
        /\ In({"undevice", "unroom"}) /\ c # None => conn[t] = "open"
        /\ In({"undevice", "unroom"}) /\ c # None => rooms[t] \subseteq {c}
        /\ In({"undevice"}) /\ c # None =>
              (device[t] = None /\ rooms[t] = {}) \/ (device[t] = c /\ rooms[t] = {c})
        /\ (In({"undevice"}) /\ c = None) \/ In({"rooms"}) => conn[t] = "closed"
        /\ In({"undevice"}) => device[t] = None \/ rooms[t] = {device[t]}
        /\ In({"unroom", "rooms", "other", "clear", "next"}) => device[t] = None
        /\ In({"undevice", "unroom", "rooms", "other", "clear", "next"}) => want[t] = None
        /\ In({"other", "clear", "next"}) =>
              conn[t] = "closed" \/ (conn[t] = "open" /\ rooms[t] = {})
        /\ In({"clear"}) => \A d \in Socket \ {t} : Owner[d] = u => device[d] # c
        /\ ~In({"idle", "kill"})

\* Where handler p may have left the user on the list, and is going to look.
Doubt(p, c) ==
    \/ run[p].pc \in {"room", "device", "unroom", "other", "clear"} /\ c = run[p].chan
    \/ run[p].pc \in {"other", "clear", "next"} /\ c \in run[p].todo
    \/ /\ run[p].pc = "rooms" \/ (run[p].pc = "undevice" /\ run[p].chan = None)
       /\ \E t \in run[p].sock : c \in rooms[t]

Roster(u) ==
    \A c \in Channel :
        /\ Sits(u, c) => u \in state[c]
        /\ u \in state[c] => Sits(u, c) \/ \E p \in Task : u \in Users(p) /\ Doubt(p, c)

Alone(u) == \A p, q \in Task : u \in Users(p) /\ u \in Users(q) => p = q
Rest(u) ==
    \A t \in Socket : Owner[t] = u /\ (\A p \in Task : t \notin run[p].sock) => Quiet(t)
Busy(u) == \A p \in Task : \A t \in run[p].sock : Owner[t] = u => Fit(p, u, t)

Orderly(u) == Alone(u) /\ Rest(u) /\ Busy(u) /\ Roster(u)

\* What a handler is busy with, whoever it works for.
Shape ==
    \A p \in Task :
        /\ run[p].sock = {} <=> run[p].pc = "idle"
        /\ \A s, t \in run[p].sock : s = t
        /\ run[p].pc \notin {"idle", "undevice", "rooms", "next", "kill"} => run[p].chan # None

Roll == Shape /\ \A u \in User \ crossed : Orderly(u)

\* Seen from one socket: it is in the channel, or another one of its user is.
Here(t, c) == conn[t] = "open" /\ c \in rooms[t] /\ device[t] = c
Else(u, s, c) == \E t \in Socket \ {s} : Owner[t] = u /\ Here(t, c)

LEMMA SitsSplit ==
  ASSUME NEW s \in Socket, NEW c
  PROVE  Sits(Owner[s], c) <=> Here(s, c) \/ Else(Owner[s], s, c)
BY DEF Sits, Here, Else

\* What is known of a handler and the socket it is busy with.
Known(p, s) ==
    LET u == Owner[s]
    IN  /\ Fit(p, u, s)
        /\ \A t \in Socket \ {s} : Owner[t] = u => Quiet(t)
        /\ \A c \in Channel :
              /\ Here(s, c) \/ Else(u, s, c) => u \in state[c]
              /\ u \in state[c] => Here(s, c) \/ Else(u, s, c) \/ Doubt(p, c)

LEMMA HandlerKnows ==
  ASSUME Roll, NEW p \in Task, NEW s \in Socket, run[p].sock = {s}, Owner[s] \notin crossed
  PROVE  Known(p, s)
<1> DEFINE u == Owner[s]
<1>1. u \in User /\ Orderly(u)
  BY DEF Roll
<1>2. u \in Users(p)
  BY DEF Users
<1> HIDE DEF u
<1>3. \A q \in Task : u \in Users(q) => q = p
  BY <1>1, <1>2 DEF Orderly, Alone
<1>4. Fit(p, u, s)
  BY <1>1 DEF Orderly, Busy, u
<1>5. ASSUME NEW t \in Socket \ {s}, Owner[t] = u
      PROVE  Quiet(t)
  <2>1. \A q \in Task : t \notin run[q].sock
    BY <1>3, <1>5 DEF Users
  <2> QED BY <1>1, <1>5, <2>1 DEF Orderly, Rest
<1>6. \A c \in Channel : /\ Sits(u, c) => u \in state[c]
                         /\ u \in state[c] => Sits(u, c) \/ Doubt(p, c)
  BY <1>1, <1>3 DEF Orderly, Roster
<1>7. \A c \in Channel : Sits(u, c) <=> Here(s, c) \/ Else(u, s, c)
  BY SitsSplit DEF u
<1> QED BY <1>4, <1>5, <1>6, <1>7 DEF Known, u

\* What is to be known after its step.
KnownNext(p, s) ==
    LET u == Owner[s]
    IN  /\ run'[p].sock = {s} => Fit(p, u, s)'
        /\ run'[p].sock = {} => Quiet(s)'
        /\ \A c \in Channel :
              /\ Here(s, c)' \/ Else(u, s, c) => u \in state'[c]
              /\ u \in state'[c] => \/ Here(s, c)' \/ Else(u, s, c)
                                    \/ run'[p].sock = {s} /\ Doubt(p, c)'

\* A step touches one socket, and one user's place on the lists.
OnlyOf(s) ==
    /\ \A t \in Socket \ {s} : /\ conn'[t] = conn[t] /\ device'[t] = device[t]
                               /\ rooms'[t] = rooms[t] /\ want'[t] = want[t]
    /\ \A c \in Channel : \A u \in User \ {Owner[s]} : u \in state'[c] <=> u \in state[c]

\* Users who have nothing to do with a step.
LEMMA Bystander ==
  ASSUME TypeOK, Shape, NEW p \in Task, NEW s \in Socket, Others(p), OnlyOf(s),
         run[p].sock \subseteq {s}, run'[p].sock \subseteq {s},
         NEW u \in User, u # Owner[s], Orderly(u)
  PROVE  Orderly(u)'
<1>0. run \in [Task -> Handlers]
  BY TypeParts
<1>1. \A t \in Socket : Owner[t] = u => /\ conn'[t] = conn[t] /\ device'[t] = device[t]
                                        /\ rooms'[t] = rooms[t] /\ want'[t] = want[t]
  BY DEF OnlyOf
<1>2. \A c \in Channel : u \in state'[c] <=> u \in state[c]
  BY DEF OnlyOf
<1>3. u \notin Users(p) /\ u \notin Users(p)'
  BY DEF Users
<1>4. \A q \in Task \ {p} : run'[q] = run[q]
  BY DEF Others
<1>5. \A q \in Task : u \in Users(q)' <=> u \in Users(q)
  BY <1>3, <1>4 DEF Users
<1>6. Alone(u)'
  BY <1>5 DEF Orderly, Alone
<1>7. Rest(u)'
  <2> SUFFICES ASSUME NEW t \in Socket, Owner[t] = u, \A q \in Task : t \notin run'[q].sock
               PROVE  Quiet(t)'
    BY DEF Rest
  <2>1. \A q \in Task : t \notin run[q].sock
    BY <1>4
  <2>2. Quiet(t)
    BY <2>1 DEF Orderly, Rest
  <2> QED BY <1>1, <2>2 DEF Quiet
<1>8. Busy(u)'
  <2> SUFFICES ASSUME NEW q \in Task, NEW t \in run'[q].sock, Owner[t] = u
               PROVE  Fit(q, u, t)'
    BY DEF Busy
  <2>1. q # p /\ run'[q] = run[q]
    BY <1>4
  <2>2. Fit(q, u, t) /\ t \in Socket
    BY <1>0, <2>1 DEF Orderly, Busy, Handlers
  <2>3. run[q].chan \in Channel \union {None}
    BY <1>0 DEF Handlers
  <2>4. /\ conn'[t] = conn[t] /\ device'[t] = device[t]
        /\ rooms'[t] = rooms[t] /\ want'[t] = want[t] /\ (Quiet(t)' <=> Quiet(t))
    BY <1>1, <2>2 DEF Quiet
  <2>5. \A d \in Socket : Owner[d] = u => device'[d] = device[d]
    BY <1>1
  <2>6. run[q].chan # None => (u \in state'[run[q].chan] <=> u \in state[run[q].chan])
    BY <1>2, <2>3
  <2>7. run[q].pc \in {"room", "device", "patch"} => run[q].chan # None
    BY DEF Shape
  <2> QED BY <2>1, <2>2, <2>4, <2>5, <2>6, <2>7 DEF Fit
<1>9. Roster(u)'
  <2>1. \A c \in Channel : Sits(u, c)' <=> Sits(u, c)
    BY <1>1 DEF Sits
  <2>2. ASSUME NEW q \in Task, u \in Users(q), NEW c
        PROVE  Doubt(q, c)' <=> Doubt(q, c)
    <3>1. run'[q] = run[q]
      BY <1>3, <1>4, <2>2
    <3>2. \A t \in run[q].sock : t \in Socket /\ Owner[t] = u
      BY <1>0, <2>2 DEF Users, Handlers, Shape
    <3>3. \A t \in run[q].sock : rooms'[t] = rooms[t]
      BY <1>1, <3>2
    <3> QED BY <3>1, <3>3 DEF Doubt
  <2> QED BY <1>2, <1>5, <2>1, <2>2 DEF Orderly, Roster
<1> QED BY <1>6, <1>7, <1>8, <1>9 DEF Orderly

\* The user of the handler that moves.
LEMMA HandlerMoves ==
  ASSUME TypeOK, Roll, NEW p \in Task, NEW s \in Socket, run[p].sock = {s}, Others(p),
         crossed' = crossed, OnlyOf(s), run'[p].sock \in {{s}, {}},
         Owner[s] \notin crossed => KnownNext(p, s)
  PROVE  \A u \in User \ crossed' : Orderly(u)'
<1> SUFFICES ASSUME NEW u \in User \ crossed
             PROVE  Orderly(u)'
  OBVIOUS
<1>1. Orderly(u) /\ Shape
  BY DEF Roll
<1>2. CASE u # Owner[s]
  BY <1>1, <1>2, Bystander
<1>3. CASE u = Owner[s]
  <2>1. KnownNext(p, s) /\ Known(p, s)
    BY <1>3, HandlerKnows
  <2>2. \A q \in Task : u \in Users(q) => q = p
    BY <1>1, <1>3 DEF Orderly, Alone, Users
  <2>3. \A q \in Task \ {p} : run'[q] = run[q]
    BY DEF Others
  <2>4. \A q \in Task : u \in Users(q)' => q = p
    BY <2>2, <2>3 DEF Users
  <2>5. Alone(u)'
    BY <2>4 DEF Alone
  <2>6. Rest(u)'
    <3> SUFFICES ASSUME NEW t \in Socket, Owner[t] = u, \A q \in Task : t \notin run'[q].sock
                 PROVE  Quiet(t)'
      BY DEF Rest
    <3>1. CASE t = s
      BY <2>1, <3>1 DEF KnownNext
    <3>2. CASE t # s
      <4>1. Quiet(t)
        BY <1>3, <2>1, <3>2 DEF Known
      <4> QED BY <3>2, <4>1 DEF OnlyOf, Quiet
    <3> QED BY <3>1, <3>2
  <2>7. Busy(u)'
    <3> SUFFICES ASSUME NEW q \in Task, NEW t \in run'[q].sock, Owner[t] = u
                 PROVE  Fit(q, u, t)'
      BY DEF Busy
    <3>1. q = p
      BY <2>4 DEF Users
    <3>2. t = s /\ run'[p].sock = {s}
      BY <3>1
    <3> QED BY <1>3, <2>1, <3>1, <3>2 DEF KnownNext
  <2>8. Roster(u)'
    <3> SUFFICES ASSUME NEW c \in Channel
                 PROVE  /\ Sits(u, c)' => u \in state'[c]
                        /\ u \in state'[c] =>
                              Sits(u, c)' \/ \E q \in Task : u \in Users(q)' /\ Doubt(q, c)'
      BY DEF Roster
    <3>1. Sits(u, c)' <=> Here(s, c)' \/ Else(u, s, c)
      BY <1>3 DEF Sits, Here, Else, OnlyOf
    <3>2. run'[p].sock = {s} => u \in Users(p)'
      BY <1>3 DEF Users
    <3> QED BY <1>3, <2>1, <3>1, <3>2 DEF KnownNext
  <2> QED BY <2>5, <2>6, <2>7, <2>8 DEF Orderly
<1> QED BY <1>2, <1>3

\* A user one of whose sockets gets its first handler.
LEMMA HandlerStarts ==
  ASSUME TypeOK, Roll, NEW p \in Task, NEW s \in Socket, run[p].pc = "idle", Others(p),
         run'[p].sock = {s}, OnlyOf(s), state' = state,
         device' = device, rooms' = rooms,
         crossed' = IF \E q \in Task : Owner[s] \in Users(q) THEN crossed \union {Owner[s]}
                    ELSE crossed,
         Quiet(s) /\ Owner[s] \notin crossed' => Fit(p, Owner[s], s)',
         conn'[s] = conn[s]
           \/ (conn'[s] # "open" /\ \A c \in rooms[s] : Doubt(p, c)')
  PROVE  \A u \in User \ crossed' : Orderly(u)'
<1> SUFFICES ASSUME NEW u \in User \ crossed'
             PROVE  Orderly(u)'
  OBVIOUS
<1>1. u \notin crossed /\ Orderly(u) /\ Shape
  BY DEF Roll
<1>2. CASE u # Owner[s]
  <2>1. run[p].sock = {}
    BY <1>1 DEF Shape
  <2> QED BY <1>1, <1>2, <2>1, Bystander
<1>3. CASE u = Owner[s]
  <2>1. \A q \in Task : u \notin Users(q)
    BY <1>3
  <2>2. \A q \in Task \ {p} : run'[q] = run[q]
    BY DEF Others
  <2>3. \A q \in Task : u \in Users(q)' => q = p
    BY <2>1, <2>2 DEF Users
  <2>4. Alone(u)'
    BY <2>3 DEF Alone
  <2>5. \A t \in Socket : Owner[t] = u => Quiet(t)
    BY <1>1, <2>1 DEF Orderly, Rest, Users
  <2>6. Rest(u)'
    <3> SUFFICES ASSUME NEW t \in Socket, Owner[t] = u, \A q \in Task : t \notin run'[q].sock
                 PROVE  Quiet(t)'
      BY DEF Rest
    <3>1. t # s
      OBVIOUS
    <3> QED BY <2>5, <3>1 DEF OnlyOf, Quiet
  <2>7. Busy(u)'
    <3> SUFFICES ASSUME NEW q \in Task, NEW t \in run'[q].sock, Owner[t] = u
                 PROVE  Fit(q, u, t)'
      BY DEF Busy
    <3>1. q = p
      BY <2>3 DEF Users
    <3>2. t = s
      BY <3>1
    <3> QED BY <1>3, <2>5, <3>1, <3>2
  <2>8. Roster(u)'
    <3> SUFFICES ASSUME NEW c \in Channel
                 PROVE  /\ Sits(u, c)' => u \in state'[c]
                        /\ u \in state'[c] =>
                              Sits(u, c)' \/ \E q \in Task : u \in Users(q)' /\ Doubt(q, c)'
      BY DEF Roster
    <3>1. u \in state[c] <=> Sits(u, c)
      BY <1>1, <2>1 DEF Orderly, Roster
    <3>2. Sits(u, c)' => Sits(u, c)
      BY <1>3 DEF Sits, OnlyOf
    <3>3. Sits(u, c) => Sits(u, c)' \/ Doubt(p, c)'
      BY <1>3 DEF Sits, OnlyOf
    <3>4. u \in Users(p)'
      BY <1>3 DEF Users
    <3> QED BY <3>1, <3>2, <3>3, <3>4
  <2> QED BY <2>4, <2>6, <2>7, <2>8 DEF Orderly
<1> QED BY <1>2, <1>3

-----------------------------------------------------------------------------
(* The steps.                                                               *)

LEMMA ShapeStep ==
  ASSUME TypeOK, Shape, [Next]_vars
  PROVE  Shape'
<1>0. run \in [Task -> Handlers]
  BY TypeParts
<1> DEFINE Shaped(h) == /\ h.sock = {} <=> h.pc = "idle"
                        /\ \A s, t \in h.sock : s = t
                        /\ h.pc \notin {"idle", "undevice", "rooms", "next", "kill"}
                              => h.chan # None
<1>1. \A p \in Task : Shaped(run[p])
  BY DEF Shape
<1> SUFFICES ASSUME NEW q \in Task PROVE Shaped(run'[q])
  BY DEF Shape
<1>2. ASSUME NEW p \in Task, Event(p) PROVE Shaped(run'[q])
  <2>1. \E s \in Socket, c \in Channel \union {None}, step \in Steps :
           StartsNow(p, s, step, c) /\ step # "idle"
           /\ (step \in {"check", "exists"} => c # None)
           /\ step \in {"check", "undevice", "exists", "kill"}
    BY <1>0, <1>2, StartsEffect, TypeParts
       DEF Event, Leave, Disconnect, Update, Join, Dismiss, Steps
  <2> QED BY <1>1, <2>1 DEF StartsNow, Others
<1>3. ASSUME NEW p \in Task, NextRoom(p) PROVE Shaped(run'[q])
  <2>1. CASE Ends(p)
    BY <1>0, <1>1, <2>1, EndsEffect DEF EndsNow, Others
  <2>2. ASSUME NEW c \in run[p].todo,
               run' = [run EXCEPT ![p].pc = "other", ![p].chan = c, ![p].todo = @ \ {c}]
        PROVE  Shaped(run'[q])
    <3>1. run[p] \in Handlers /\ c # None
      BY <1>0 DEF Handlers
    <3>2. run'[p] = [run[p] EXCEPT !.pc = "other", !.chan = c, !.todo = @ \ {c}]
      BY <1>0, <2>2
    <3>3. run'[p].pc = "other" /\ run'[p].chan = c /\ run'[p].sock = run[p].sock
      BY <3>1, <3>2 DEF Handlers
    <3>4. run[p].pc = "next" /\ (q # p => run'[q] = run[q])
      BY <1>0, <1>3, <2>2 DEF NextRoom
    <3> QED BY <1>1, <3>1, <3>3, <3>4
  <2> QED BY <1>3, <2>1, <2>2 DEF NextRoom
<1>4. ASSUME NEW p \in Task, NEW s \in Socket,
             ReadsRooms(p, s) \/ Strikes(p, s) \/ RemovesDevice(p, s, None)
      PROVE  Shaped(run'[q])
  <2>1. CASE ReadsRooms(p, s)
    <3>1. run[p] \in Handlers /\ run[p].pc = "rooms" /\ (q # p => run'[q] = run[q])
      BY <1>0, <2>1 DEF ReadsRooms, At
    <3>2. run' = [run EXCEPT ![p] = [run[p] EXCEPT !.pc = "next", !.todo = rooms[s]]]
      BY <1>0, <2>1 DEF ReadsRooms
    <3>3. run'[p] = [run[p] EXCEPT !.pc = "next", !.todo = rooms[s]]
      BY <1>0, <3>2
    <3>4. run'[p].pc = "next" /\ run'[p].sock = run[p].sock
      BY <3>1, <3>3 DEF Handlers
    <3> QED BY <1>1, <3>1, <3>4
  <2>2. CASE Strikes(p, s)
    BY <1>0, <1>1, <2>2, EndsEffect DEF Strikes, EndsNow, Others
  <2>3. CASE RemovesDevice(p, s, None)
    <3>1. GoesTo(p, "rooms") /\ run[p].pc = "undevice"
      BY <1>0, <2>3, GoesEffect DEF RemovesDevice, Steps, At
    <3> QED BY <1>1, <3>1 DEF GoesTo, Others
  <2> QED BY <1>4, <2>1, <2>2, <2>3
<1>5. ASSUME NEW p \in Task, NEW s \in Socket, NEW c \in Channel,
             \/ JoinChecks(p, s, c) \/ JoinSets(p, s, c) \/ JoinRoom(p, s, c)
             \/ JoinAddsDevice(p, s, c)
             \/ RemovesDevice(p, s, c) \/ LeavesRoom(p, s, c)
             \/ LooksElsewhere(p, s, c) \/ Clears(p, s, c)
             \/ UpdateReads(p, s, c) \/ UpdateWrites(p, s, c)
      PROVE  Shaped(run'[q])
  <2>1. run[p].chan = c /\ run[p].sock = {s} /\ c # None
    BY <1>5 DEF JoinChecks, JoinSets, JoinRoom, JoinAddsDevice, RemovesDevice, LeavesRoom,
                LooksElsewhere, Clears, UpdateReads, UpdateWrites, At
  <2>2. EndsNow(p) \/ \E step \in Steps \ {"idle"} : GoesTo(p, step)
    BY <1>0, <1>5, GoesEffect, EndsEffect
       DEF JoinChecks, JoinSets, JoinRoom, JoinAddsDevice, RemovesDevice, LeavesRoom,
           LooksElsewhere, Clears, UpdateReads, UpdateWrites, Steps
  <2> QED BY <1>1, <2>1, <2>2 DEF GoesTo, EndsNow, Others
<1>6. ASSUME NEW s \in Socket, Connect(s) PROVE Shaped(run'[q])
  BY <1>1, <1>6 DEF Connect
<1>7. CASE Restart
  BY <1>7 DEF Restart, Idle
<1>8. CASE UNCHANGED vars
  BY <1>1, <1>8 DEF vars
<1> QED BY <1>2, <1>3, <1>4, <1>5, <1>6, <1>7, <1>8 DEF Next, Handler

\* The list stays true to the sockets, for users whose handlers never overlapped.
LEMMA OrderStep ==
  ASSUME TypeOK, Roll, [Next]_vars
  PROVE  \A u \in User \ crossed' : Orderly(u)'
<1>0. /\ state \in [Channel -> SUBSET User]
      /\ device \in [Socket -> Channel \union {None}]
      /\ rooms \in [Socket -> SUBSET Channel]
      /\ conn \in [Socket -> {"new", "open", "closed"}]
      /\ want \in [Socket -> Channel \union {None}]
      /\ run \in [Task -> Handlers] /\ Shape
  BY TypeParts DEF Roll
<1>1. ASSUME NEW p \in Task, NEW s \in Socket, NEW c \in Channel, JoinChecks(p, s, c)
      PROVE  \A u \in User \ crossed' : Orderly(u)'
  <2>1. At(p, "check", s, c) /\ UNCHANGED <<state, device, rooms, conn, want, crossed>>
    BY <1>1 DEF JoinChecks
  <2>2. GoesTo(p, "set") \/ EndsNow(p)
    BY <1>0, <1>1, GoesEffect, EndsEffect DEF JoinChecks, Steps
  <2>3. /\ run[p].sock = {s} /\ run[p].chan = c /\ c # None /\ Others(p)
        /\ run'[p].sock \in {{s}, {}}
    BY <2>1, <2>2 DEF At, GoesTo, EndsNow
  <2>4. OnlyOf(s)
    BY <1>0, <2>1 DEF OnlyOf
  <2>5. ASSUME Owner[s] \notin crossed PROVE KnownNext(p, s)
    <3>1. Known(p, s) /\ run[p].todo \subseteq Channel
      BY <1>0, <2>3, <2>5, HandlerKnows DEF Handlers
    <3> QED BY <1>0, <2>1, <2>2, <2>3, <3>1
            DEF Known, KnownNext, Fit, Doubt, Here, Quiet, At, GoesTo, EndsNow
  <2> QED BY <2>1, <2>3, <2>4, <2>5, HandlerMoves
<1>2. ASSUME NEW p \in Task, NEW s \in Socket, NEW c \in Channel, JoinSets(p, s, c)
      PROVE  \A u \in User \ crossed' : Orderly(u)'
  <2>1. /\ At(p, "set", s, c) /\ UNCHANGED <<device, rooms, conn, want, crossed>>
        /\ state' = [state EXCEPT ![c] = @ \union {Owner[s]}]
    BY <1>2 DEF JoinSets
  <2>2. GoesTo(p, "room")
    BY <1>0, <1>2, GoesEffect DEF JoinSets, Steps
  <2>3. /\ run[p].sock = {s} /\ run[p].chan = c /\ c # None /\ Others(p)
        /\ run'[p].sock \in {{s}, {}}
    BY <2>1, <2>2 DEF At, GoesTo, EndsNow
  <2>4. OnlyOf(s)
    BY <1>0, <2>1 DEF OnlyOf
  <2>5. ASSUME Owner[s] \notin crossed PROVE KnownNext(p, s)
    <3>1. Known(p, s) /\ run[p].todo \subseteq Channel
      BY <1>0, <2>3, <2>5, HandlerKnows DEF Handlers
    <3> QED BY <1>0, <2>1, <2>2, <2>3, <3>1
            DEF Known, KnownNext, Fit, Doubt, Here, Quiet, At, GoesTo, EndsNow
  <2> QED BY <2>1, <2>3, <2>4, <2>5, HandlerMoves
<1>3. ASSUME NEW p \in Task, NEW s \in Socket, NEW c \in Channel, JoinRoom(p, s, c)
      PROVE  \A u \in User \ crossed' : Orderly(u)'
  <2>1. /\ At(p, "room", s, c) /\ UNCHANGED <<state, device, conn, want, crossed>>
        /\ rooms' = [rooms EXCEPT ![s] = @ \union {c}]
    BY <1>3 DEF JoinRoom
  <2>2. GoesTo(p, "device")
    BY <1>0, <1>3, GoesEffect DEF JoinRoom, Steps
  <2>3. /\ run[p].sock = {s} /\ run[p].chan = c /\ c # None /\ Others(p)
        /\ run'[p].sock \in {{s}, {}}
    BY <2>1, <2>2 DEF At, GoesTo, EndsNow
  <2>4. OnlyOf(s)
    BY <1>0, <2>1 DEF OnlyOf
  <2>5. ASSUME Owner[s] \notin crossed PROVE KnownNext(p, s)
    <3>1. Known(p, s) /\ run[p].todo \subseteq Channel
      BY <1>0, <2>3, <2>5, HandlerKnows DEF Handlers
    <3> QED BY <1>0, <2>1, <2>2, <2>3, <3>1
            DEF Known, KnownNext, Fit, Doubt, Here, Quiet, At, GoesTo, EndsNow
  <2> QED BY <2>1, <2>3, <2>4, <2>5, HandlerMoves
<1>4. ASSUME NEW p \in Task, NEW s \in Socket, NEW c \in Channel, JoinAddsDevice(p, s, c)
      PROVE  \A u \in User \ crossed' : Orderly(u)'
  <2>1. /\ At(p, "device", s, c) /\ UNCHANGED <<state, rooms, conn, want, crossed>>
        /\ device' = [device EXCEPT ![s] = c]
    BY <1>4 DEF JoinAddsDevice
  <2>2. EndsNow(p)
    BY <1>0, <1>4, EndsEffect DEF JoinAddsDevice
  <2>3. /\ run[p].sock = {s} /\ run[p].chan = c /\ c # None /\ Others(p)
        /\ run'[p].sock \in {{s}, {}}
    BY <2>1, <2>2 DEF At, GoesTo, EndsNow
  <2>4. OnlyOf(s)
    BY <1>0, <2>1 DEF OnlyOf
  <2>5. ASSUME Owner[s] \notin crossed PROVE KnownNext(p, s)
    <3>1. Known(p, s) /\ run[p].todo \subseteq Channel
      BY <1>0, <2>3, <2>5, HandlerKnows DEF Handlers
    <3> QED BY <1>0, <2>1, <2>2, <2>3, <3>1
            DEF Known, KnownNext, Fit, Doubt, Here, Quiet, At, GoesTo, EndsNow
  <2> QED BY <2>1, <2>3, <2>4, <2>5, HandlerMoves
<1>5. ASSUME NEW p \in Task, NEW s \in Socket, NEW c \in Channel, RemovesDevice(p, s, c)
      PROVE  \A u \in User \ crossed' : Orderly(u)'
  <2>1. /\ At(p, "undevice", s, c) /\ UNCHANGED <<state, rooms, conn, want, crossed>>
        /\ device' = [device EXCEPT ![s] = None]
    BY <1>5 DEF RemovesDevice
  <2>2. GoesTo(p, "unroom")
    BY <1>0, <1>5, GoesEffect DEF RemovesDevice, Steps
  <2>3. /\ run[p].sock = {s} /\ run[p].chan = c /\ c # None /\ Others(p)
        /\ run'[p].sock \in {{s}, {}}
    BY <2>1, <2>2 DEF At, GoesTo, EndsNow
  <2>4. OnlyOf(s)
    BY <1>0, <2>1 DEF OnlyOf
  <2>5. ASSUME Owner[s] \notin crossed PROVE KnownNext(p, s)
    <3>1. Known(p, s) /\ run[p].todo \subseteq Channel
      BY <1>0, <2>3, <2>5, HandlerKnows DEF Handlers
    <3> QED BY <1>0, <2>1, <2>2, <2>3, <3>1
            DEF Known, KnownNext, Fit, Doubt, Here, Quiet, At, GoesTo, EndsNow
  <2> QED BY <2>1, <2>3, <2>4, <2>5, HandlerMoves
<1>6. ASSUME NEW p \in Task, NEW s \in Socket, NEW c \in Channel, LeavesRoom(p, s, c)
      PROVE  \A u \in User \ crossed' : Orderly(u)'
  <2>1. /\ At(p, "unroom", s, c) /\ UNCHANGED <<state, device, conn, want, crossed>>
        /\ rooms' = [rooms EXCEPT ![s] = @ \ {c}]
    BY <1>6 DEF LeavesRoom
  <2>2. GoesTo(p, "other")
    BY <1>0, <1>6, GoesEffect DEF LeavesRoom, Steps
  <2>3. /\ run[p].sock = {s} /\ run[p].chan = c /\ c # None /\ Others(p)
        /\ run'[p].sock \in {{s}, {}}
    BY <2>1, <2>2 DEF At, GoesTo, EndsNow
  <2>4. OnlyOf(s)
    BY <1>0, <2>1 DEF OnlyOf
  <2>5. ASSUME Owner[s] \notin crossed PROVE KnownNext(p, s)
    <3>1. Known(p, s) /\ run[p].todo \subseteq Channel
      BY <1>0, <2>3, <2>5, HandlerKnows DEF Handlers
    <3> QED BY <1>0, <2>1, <2>2, <2>3, <3>1
            DEF Known, KnownNext, Fit, Doubt, Here, Quiet, At, GoesTo, EndsNow
  <2> QED BY <2>1, <2>3, <2>4, <2>5, HandlerMoves
<1>7. ASSUME NEW p \in Task, NEW s \in Socket, NEW c \in Channel, LooksElsewhere(p, s, c)
      PROVE  \A u \in User \ crossed' : Orderly(u)'
  <2>1. At(p, "other", s, c) /\ UNCHANGED <<state, device, rooms, conn, want, crossed>>
    BY <1>7 DEF LooksElsewhere
  <2>2. \/ GoesTo(p, "next") /\ OtherDevice(s, c)
        \/ GoesTo(p, "clear") /\ ~OtherDevice(s, c)
    BY <1>0, <1>7, GoesEffect DEF LooksElsewhere, Steps
  <2>3. /\ run[p].sock = {s} /\ run[p].chan = c /\ c # None /\ Others(p)
        /\ run'[p].sock \in {{s}, {}}
    BY <2>1, <2>2 DEF At, GoesTo, EndsNow
  <2>4. OnlyOf(s)
    BY <1>0, <2>1 DEF OnlyOf
  <2>5. ASSUME Owner[s] \notin crossed PROVE KnownNext(p, s)
    <3>1. Known(p, s) /\ run[p].todo \subseteq Channel
      BY <1>0, <2>3, <2>5, HandlerKnows DEF Handlers
    <3> QED BY <1>0, <2>1, <2>2, <2>3, <3>1
            DEF Known, KnownNext, Fit, Doubt, Here, Quiet, At, GoesTo, EndsNow, OtherDevice, Else
  <2> QED BY <2>1, <2>3, <2>4, <2>5, HandlerMoves
<1>8. ASSUME NEW p \in Task, NEW s \in Socket, NEW c \in Channel, Clears(p, s, c)
      PROVE  \A u \in User \ crossed' : Orderly(u)'
  <2>1. /\ At(p, "clear", s, c) /\ UNCHANGED <<device, rooms, conn, want, crossed>>
        /\ state' = [state EXCEPT ![c] = @ \ {Owner[s]}]
    BY <1>8 DEF Clears
  <2>2. GoesTo(p, "next")
    BY <1>0, <1>8, GoesEffect DEF Clears, Steps
  <2>3. /\ run[p].sock = {s} /\ run[p].chan = c /\ c # None /\ Others(p)
        /\ run'[p].sock \in {{s}, {}}
    BY <2>1, <2>2 DEF At, GoesTo, EndsNow
  <2>4. OnlyOf(s)
    BY <1>0, <2>1 DEF OnlyOf
  <2>5. ASSUME Owner[s] \notin crossed PROVE KnownNext(p, s)
    <3>1. Known(p, s) /\ run[p].todo \subseteq Channel
      BY <1>0, <2>3, <2>5, HandlerKnows DEF Handlers
    <3> QED BY <1>0, <2>1, <2>2, <2>3, <3>1
            DEF Known, KnownNext, Fit, Doubt, Here, Quiet, At, GoesTo, EndsNow, Else
  <2> QED BY <2>1, <2>3, <2>4, <2>5, HandlerMoves
<1>9. ASSUME NEW p \in Task, NEW s \in Socket, NEW c \in Channel, UpdateReads(p, s, c)
      PROVE  \A u \in User \ crossed' : Orderly(u)'
  <2>1. At(p, "exists", s, c) /\ UNCHANGED <<state, device, rooms, conn, want, crossed>>
    BY <1>9 DEF UpdateReads
  <2>2. (GoesTo(p, "patch") /\ Owner[s] \in state[c]) \/ EndsNow(p)
    BY <1>0, <1>9, GoesEffect, EndsEffect DEF UpdateReads, Steps
  <2>3. /\ run[p].sock = {s} /\ run[p].chan = c /\ c # None /\ Others(p)
        /\ run'[p].sock \in {{s}, {}}
    BY <2>1, <2>2 DEF At, GoesTo, EndsNow
  <2>4. OnlyOf(s)
    BY <1>0, <2>1 DEF OnlyOf
  <2>5. ASSUME Owner[s] \notin crossed PROVE KnownNext(p, s)
    <3>1. Known(p, s) /\ run[p].todo \subseteq Channel
      BY <1>0, <2>3, <2>5, HandlerKnows DEF Handlers
    <3> QED BY <1>0, <2>1, <2>2, <2>3, <3>1
            DEF Known, KnownNext, Fit, Doubt, Here, Quiet, At, GoesTo, EndsNow
  <2> QED BY <2>1, <2>3, <2>4, <2>5, HandlerMoves
<1>10. ASSUME NEW p \in Task, NEW s \in Socket, NEW c \in Channel, UpdateWrites(p, s, c)
      PROVE  \A u \in User \ crossed' : Orderly(u)'
  <2>1. /\ At(p, "patch", s, c) /\ UNCHANGED <<device, rooms, conn, want, crossed>>
        /\ state' = [state EXCEPT ![c] = @ \union {Owner[s]}]
    BY <1>10 DEF UpdateWrites
  <2>2. EndsNow(p)
    BY <1>0, <1>10, EndsEffect DEF UpdateWrites
  <2>3. /\ run[p].sock = {s} /\ run[p].chan = c /\ c # None /\ Others(p)
        /\ run'[p].sock \in {{s}, {}}
    BY <2>1, <2>2 DEF At, GoesTo, EndsNow
  <2>4. OnlyOf(s)
    BY <1>0, <2>1 DEF OnlyOf
  <2>5. ASSUME Owner[s] \notin crossed PROVE KnownNext(p, s)
    <3>1. Known(p, s) /\ run[p].todo \subseteq Channel
      BY <1>0, <2>3, <2>5, HandlerKnows DEF Handlers
    <3> QED BY <1>0, <2>1, <2>2, <2>3, <3>1
            DEF Known, KnownNext, Fit, Doubt, Here, Quiet, At, GoesTo, EndsNow
  <2> QED BY <2>1, <2>3, <2>4, <2>5, HandlerMoves
<1>11. ASSUME NEW p \in Task, NEW s \in Socket, RemovesDevice(p, s, None)
      PROVE  \A u \in User \ crossed' : Orderly(u)'
  <2>1. /\ At(p, "undevice", s, None) /\ UNCHANGED <<state, rooms, conn, want, crossed>>
        /\ device' = [device EXCEPT ![s] = None]
    BY <1>11 DEF RemovesDevice
  <2>2. GoesTo(p, "rooms")
    BY <1>0, <1>11, GoesEffect DEF RemovesDevice, Steps
  <2>3. /\ run[p].sock = {s} /\ run[p].chan = None /\ Others(p)
        /\ run'[p].sock = {s}
    BY <2>1, <2>2 DEF At, GoesTo
  <2>4. OnlyOf(s)
    BY <1>0, <2>1 DEF OnlyOf
  <2>5. ASSUME Owner[s] \notin crossed PROVE KnownNext(p, s)
    <3>1. Known(p, s)
      BY <2>3, <2>5, HandlerKnows
    <3> QED BY <1>0, <2>1, <2>2, <2>3, <3>1
            DEF Known, KnownNext, Fit, Doubt, Here, Quiet, At, GoesTo
  <2> QED BY <2>1, <2>3, <2>4, <2>5, HandlerMoves
<1>12. ASSUME NEW p \in Task, NEW s \in Socket, ReadsRooms(p, s)
      PROVE  \A u \in User \ crossed' : Orderly(u)'
  <2>1. At(p, "rooms", s, None) /\ UNCHANGED <<state, device, rooms, conn, want, crossed>>
    BY <1>12 DEF ReadsRooms
  <2>2. /\ run'[p].pc = "next" /\ run'[p].sock = run[p].sock /\ run'[p].chan = None
        /\ run'[p].todo = rooms[s] /\ Others(p)
    <3>1. run[p] \in Handlers /\ run[p].chan = None /\ Others(p)
      BY <1>0, <1>12 DEF ReadsRooms, At, Others
    <3>2. run' = [run EXCEPT ![p] = [run[p] EXCEPT !.pc = "next", !.todo = rooms[s]]]
      BY <1>0, <1>12 DEF ReadsRooms
    <3>3. run'[p] = [run[p] EXCEPT !.pc = "next", !.todo = rooms[s]]
      BY <1>0, <3>2
    <3> QED BY <3>1, <3>3 DEF Handlers
  <2>3. run[p].sock = {s} /\ run'[p].sock = {s}
    BY <2>1, <2>2 DEF At
  <2>4. OnlyOf(s)
    BY <1>0, <2>1 DEF OnlyOf
  <2>5. ASSUME Owner[s] \notin crossed PROVE KnownNext(p, s)
    <3>1. Known(p, s)
      BY <2>3, <2>5, HandlerKnows
    <3> QED BY <1>0, <2>1, <2>2, <2>3, <3>1
            DEF Known, KnownNext, Fit, Doubt, Here, Quiet, At
  <2> QED BY <2>1, <2>2, <2>3, <2>4, <2>5, HandlerMoves
<1>13. ASSUME NEW p \in Task, NextRoom(p)
      PROVE  \A u \in User \ crossed' : Orderly(u)'
  <2>1. run[p].pc = "next" /\ UNCHANGED <<state, device, rooms, conn, want, crossed>>
    BY <1>13 DEF NextRoom
  <2>2. PICK s \in Socket : run[p].sock = {s}
    <3>1. run[p].sock # {} /\ run[p].sock \subseteq Socket
          /\ \A s, t \in run[p].sock : s = t
      BY <1>0, <2>1 DEF Shape, Handlers
    <3> QED BY <3>1
  <2>3. \/ EndsNow(p) /\ run[p].todo = {}
        \/ \E c \in run[p].todo :
              /\ run'[p].pc = "other" /\ run'[p].sock = run[p].sock /\ run'[p].chan = c
              /\ run'[p].todo = run[p].todo \ {c} /\ Others(p)
    <3>1. CASE run[p].todo = {}
      BY <1>0, <1>13, <3>1, EndsEffect DEF NextRoom
    <3>2. CASE run[p].todo # {}
      <4>1. PICK c \in run[p].todo :
               run' = [run EXCEPT ![p].pc = "other", ![p].chan = c, ![p].todo = @ \ {c}]
        BY <1>13, <3>2 DEF NextRoom
      <4>2. run[p] \in Handlers /\ Others(p)
        BY <1>0, <4>1 DEF Others
      <4>3. run'[p] = [run[p] EXCEPT !.pc = "other", !.chan = c, !.todo = @ \ {c}]
        BY <1>0, <4>1
      <4>4. /\ run'[p].pc = "other" /\ run'[p].sock = run[p].sock /\ run'[p].chan = c
            /\ run'[p].todo = run[p].todo \ {c} /\ Others(p)
        BY <4>2, <4>3 DEF Handlers
      <4> QED BY <4>4
    <3> QED BY <3>1, <3>2
  <2>4. OnlyOf(s)
    BY <1>0, <2>1 DEF OnlyOf
  <2>5. ASSUME Owner[s] \notin crossed PROVE KnownNext(p, s)
    <3>1. Known(p, s)
      BY <2>2, <2>5, HandlerKnows
    <3> QED BY <1>0, <2>1, <2>2, <2>3, <3>1
            DEF Known, KnownNext, Fit, Doubt, Here, Quiet, EndsNow
  <2>6. Others(p) /\ run'[p].sock \in {{s}, {}}
    BY <2>2, <2>3 DEF EndsNow
  <2> QED BY <2>1, <2>2, <2>4, <2>5, <2>6, HandlerMoves
<1>14. ASSUME NEW p \in Task, NEW s \in Socket, Strikes(p, s)
      PROVE  \A u \in User \ crossed' : Orderly(u)'
  <2>1. /\ At(p, "kill", s, None) /\ UNCHANGED <<state, rooms, conn, want, crossed>>
        /\ device' = [device EXCEPT ![s] = None]
    BY <1>14 DEF Strikes
  <2>2. EndsNow(p)
    BY <1>0, <1>14, EndsEffect DEF Strikes
  <2>3. run[p].sock = {s} /\ Others(p) /\ run'[p].sock = {}
    BY <2>1, <2>2 DEF At, EndsNow
  <2>4. OnlyOf(s)
    BY <1>0, <2>1 DEF OnlyOf
  <2>5. Owner[s] \in crossed
    BY <2>1, <2>3, HandlerKnows DEF Known, Fit, At
  <2> QED BY <2>1, <2>3, <2>4, <2>5, HandlerMoves
<1>15. ASSUME NEW p \in Task, NEW s \in Socket, NEW c \in Channel, Join(p, s, c)
      PROVE  \A u \in User \ crossed' : Orderly(u)'
  <2>1. /\ conn[s] = "open" /\ want[s] = None /\ want' = [want EXCEPT ![s] = c]
        /\ UNCHANGED <<state, device, rooms, conn>> /\ c # None
    BY <1>15 DEF Join
  <2>2. StartsNow(p, s, "check", c)
    BY <1>0, <1>15, StartsEffect DEF Join, Steps
  <2>3. crossed' = IF \E q \in Task : Owner[s] \in Users(q) THEN crossed \union {Owner[s]}
                   ELSE crossed
    BY <1>15 DEF Join, Starts
  <2>4. OnlyOf(s)
    BY <1>0, <2>1 DEF OnlyOf
  <2>5. Quiet(s) => Fit(p, Owner[s], s)'
    BY <1>0, <2>1, <2>2 DEF Quiet, Fit, StartsNow
  <2> QED BY <2>1, <2>2, <2>3, <2>4, <2>5, HandlerStarts DEF StartsNow
<1>16. ASSUME NEW p \in Task, NEW s \in Socket, Leave(p, s)
      PROVE  \A u \in User \ crossed' : Orderly(u)'
  <2>1. /\ conn[s] = "open" /\ want[s] # None /\ want' = [want EXCEPT ![s] = None]
        /\ UNCHANGED <<state, device, rooms, conn>> /\ want[s] \in Channel
    BY <1>0, <1>16 DEF Leave
  <2>2. StartsNow(p, s, "undevice", want[s])
    BY <1>0, <1>16, <2>1, StartsEffect DEF Leave, Steps
  <2>3. crossed' = IF \E q \in Task : Owner[s] \in Users(q) THEN crossed \union {Owner[s]}
                   ELSE crossed
    BY <1>16 DEF Leave, Starts
  <2>4. OnlyOf(s)
    BY <1>0, <2>1 DEF OnlyOf
  <2>5. Quiet(s) => Fit(p, Owner[s], s)'
    BY <1>0, <2>1, <2>2 DEF Quiet, Fit, StartsNow
  <2> QED BY <2>1, <2>2, <2>3, <2>4, <2>5, HandlerStarts DEF StartsNow
<1>17. ASSUME NEW p \in Task, NEW s \in Socket, Disconnect(p, s)
      PROVE  \A u \in User \ crossed' : Orderly(u)'
  <2>1. /\ conn[s] = "open" /\ want' = [want EXCEPT ![s] = None]
        /\ conn' = [conn EXCEPT ![s] = "closed"] /\ UNCHANGED <<state, device, rooms>>
    BY <1>17 DEF Disconnect
  <2>2. StartsNow(p, s, "undevice", None)
    BY <1>0, <1>17, StartsEffect DEF Disconnect, Steps
  <2>3. crossed' = IF \E q \in Task : Owner[s] \in Users(q) THEN crossed \union {Owner[s]}
                   ELSE crossed
    BY <1>17 DEF Disconnect, Starts
  <2>4. OnlyOf(s)
    BY <1>0, <2>1 DEF OnlyOf
  <2>5. Quiet(s) => Fit(p, Owner[s], s)'
    BY <1>0, <2>1, <2>2 DEF Quiet, Fit, StartsNow
  <2>6. conn'[s] # "open" /\ \A c \in rooms[s] : Doubt(p, c)'
    BY <1>0, <2>1, <2>2 DEF Doubt, StartsNow
  <2> QED BY <2>1, <2>2, <2>3, <2>4, <2>5, <2>6, HandlerStarts DEF StartsNow
<1>18. ASSUME NEW p \in Task, NEW s \in Socket, Update(p, s)
      PROVE  \A u \in User \ crossed' : Orderly(u)'
  <2>1. /\ conn[s] = "open" /\ want[s] # None /\ want[s] \in Channel
        /\ UNCHANGED <<state, device, rooms, conn, want>>
    BY <1>0, <1>18 DEF Update
  <2>2. StartsNow(p, s, "exists", want[s])
    BY <1>0, <1>18, <2>1, StartsEffect DEF Update, Steps
  <2>3. crossed' = IF \E q \in Task : Owner[s] \in Users(q) THEN crossed \union {Owner[s]}
                   ELSE crossed
    BY <1>18 DEF Update, Starts
  <2>4. OnlyOf(s)
    BY <1>0, <2>1 DEF OnlyOf
  <2>5. Quiet(s) => Fit(p, Owner[s], s)'
    BY <1>0, <2>1, <2>2 DEF Quiet, Fit, StartsNow
  <2> QED BY <2>1, <2>2, <2>3, <2>4, <2>5, HandlerStarts DEF StartsNow
<1>19. ASSUME NEW p \in Task, NEW s \in Socket, NEW t \in Socket, Dismiss(p, s, t)
      PROVE  \A u \in User \ crossed' : Orderly(u)'
  <2>1. /\ device[t] # None /\ conn[t] # "open"
        /\ UNCHANGED <<state, device, rooms, conn, want>>
    BY <1>19 DEF Dismiss
  <2>2. StartsNow(p, t, "kill", None)
    BY <1>0, <1>19, StartsEffect DEF Dismiss, Steps
  <2>3. crossed' = IF \E q \in Task : Owner[t] \in Users(q) THEN crossed \union {Owner[t]}
                   ELSE crossed
    BY <1>19 DEF Dismiss, Starts
  <2>4. OnlyOf(t)
    BY <1>0, <2>1 DEF OnlyOf
  <2>5. ~Quiet(t)
    BY <2>1 DEF Quiet
  <2> QED BY <2>1, <2>2, <2>3, <2>4, <2>5, HandlerStarts DEF StartsNow
<1>20. ASSUME NEW s \in Socket, Connect(s)
      PROVE  \A u \in User \ crossed' : Orderly(u)'
  <2> SUFFICES ASSUME NEW u \in User \ crossed
               PROVE  Orderly(u)'
    BY <1>20 DEF Connect
  <2>1. /\ conn[s] = "new" /\ conn' = [conn EXCEPT ![s] = "open"]
        /\ UNCHANGED <<state, device, rooms, want, run>> /\ Orderly(u)
    BY <1>20 DEF Connect, Roll
  <2>2. Alone(u)' /\ \A q \in Task : u \in Users(q)' <=> u \in Users(q)
    BY <2>1 DEF Orderly, Alone, Users
  <2>3. \A q \in Task : Owner[s] = u => s \notin run[q].sock
    <3> SUFFICES ASSUME NEW q \in Task, Owner[s] = u, s \in run[q].sock PROVE FALSE
      OBVIOUS
    <3>1. Fit(q, u, s) /\ run[q].pc \in Steps
      BY <1>0, <2>1 DEF Orderly, Busy, Handlers
    <3>2. run[q].chan \in Channel \union {None}
      BY <1>0 DEF Handlers
    <3>3. run[q].pc \in {"unroom"} => run[q].chan # None
      BY <1>0 DEF Shape
    <3> QED BY <2>1, <3>1, <3>2, <3>3 DEF Fit, Steps
  <2>4. Owner[s] = u => Quiet(s)
    BY <2>1, <2>3 DEF Orderly, Rest
  <2>5. Rest(u)'
    <3> SUFFICES ASSUME NEW t \in Socket, Owner[t] = u, \A q \in Task : t \notin run[q].sock
                 PROVE  Quiet(t)'
      BY <2>1 DEF Rest
    <3>1. Quiet(t)
      BY <2>1 DEF Orderly, Rest
    <3> QED BY <1>0, <2>1, <3>1 DEF Quiet
  <2>6. Busy(u)'
    <3> SUFFICES ASSUME NEW q \in Task, NEW t \in run[q].sock, Owner[t] = u
                 PROVE  Fit(q, u, t)'
      BY <2>1 DEF Busy
    <3>1. Fit(q, u, t) /\ t # s /\ t \in Socket
      BY <1>0, <2>1, <2>3 DEF Orderly, Busy, Handlers
    <3>2. conn'[t] = conn[t] /\ (Quiet(t)' <=> Quiet(t))
      BY <2>1, <3>1 DEF Quiet
    <3> QED BY <2>1, <3>1, <3>2 DEF Fit
  <2>7. Roster(u)'
    <3>1. ASSUME NEW c PROVE Sits(u, c)' <=> Sits(u, c)
      BY <1>0, <2>1, <2>4 DEF Sits, Quiet
    <3>2. \A q \in Task, c \in Channel : Doubt(q, c)' <=> Doubt(q, c)
      BY <2>1 DEF Doubt
    <3> QED BY <2>1, <2>2, <3>1, <3>2 DEF Orderly, Roster
  <2> QED BY <2>2, <2>5, <2>6, <2>7 DEF Orderly
<1>21. ASSUME Restart
      PROVE  \A u \in User \ crossed' : Orderly(u)'
  <2> SUFFICES ASSUME NEW u \in User \ crossed'
               PROVE  Orderly(u)'
    OBVIOUS
  <2> DEFINE busy == UNION {Users(p) : p \in Task}
             listed == UNION {state[c] : c \in Channel}
  <2>1. /\ u \notin crossed /\ u \notin busy /\ u \notin listed
    <3>1. crossed' = crossed \union listed \union busy
      BY <1>21 DEF Restart
    <3> HIDE DEF busy, listed
    <3> QED BY <3>1
  <2>2. /\ \A p \in Task : u \notin Users(p)
        /\ \A c \in Channel : u \notin state[c]
    BY <2>1
  <2> HIDE DEF busy, listed
  <2>3. Orderly(u)
    BY <2>1 DEF Roll
  <2>4. /\ conn' = [s \in Socket |-> IF conn[s] = "open" THEN "closed" ELSE conn[s]]
        /\ want' = [s \in Socket |-> None] /\ rooms' = [s \in Socket |-> {}]
        /\ run' = [p \in Task |-> Idle] /\ UNCHANGED <<state, device>>
    BY <1>21 DEF Restart
  <2>5. \A p \in Task : run'[p].sock = {}
    BY <2>4 DEF Idle
  <2>6. \A p \in Task : u \notin Users(p)'
    BY <2>5 DEF Users
  <2>7. ASSUME NEW t \in Socket, Owner[t] = u
        PROVE  Quiet(t)'
    <3>1. Quiet(t)
      BY <2>2, <2>3, <2>7 DEF Orderly, Rest, Users
    <3>2. device[t] = None
      <4> SUFFICES ASSUME device[t] # None PROVE FALSE
        OBVIOUS
      <4>1. conn[t] = "open" /\ rooms[t] = {device[t]} /\ device[t] \in Channel
        BY <1>0, <3>1 DEF Quiet
      <4>2. Sits(u, device[t])
        BY <2>7, <4>1 DEF Sits
      <4> QED BY <2>2, <2>3, <4>1, <4>2 DEF Orderly, Roster
    <3> QED BY <1>0, <2>4, <3>1, <3>2 DEF Quiet
  <2>8. \A c \in Channel : ~Sits(u, c)' /\ u \notin state'[c]
    BY <1>0, <2>2, <2>4 DEF Sits
  <2>9. Alone(u)' /\ Rest(u)' /\ Busy(u)' /\ Roster(u)'
    BY <2>5, <2>6, <2>7, <2>8 DEF Alone, Rest, Busy, Roster
  <2> QED BY <2>9 DEF Orderly
<1>22. CASE UNCHANGED vars
  BY <1>22 DEF vars, Roll, Orderly, Alone, Rest, Busy, Roster, Sits, Users, Doubt, Fit, Quiet
<1> QED
  BY <1>1, <1>2, <1>3, <1>4, <1>5, <1>6, <1>7, <1>8, <1>9, <1>10, <1>11, <1>12, <1>13, <1>14,
     <1>15, <1>16, <1>17, <1>18, <1>19, <1>20, <1>21, <1>22
  DEF Next, Handler, Event

\* Whatever the handlers of other users do in between, a user whose own handlers never
\* overlapped is listed in exactly the channels one of their open sockets is in, as
\* soon as their handlers are done: for any number of users, sockets and handlers.
THEOREM ListIsTrue == Spec => []RosterTrue
<1>1. Init => TypeOK /\ Roll
  <2> SUFFICES ASSUME Init PROVE TypeOK /\ Roll
    OBVIOUS
  <2>1. TypeOK
    BY IdleHandler, TypeParts DEF Init
  <2>2. \A p \in Task : run[p].sock = {} /\ run[p].pc = "idle"
    BY DEF Init, Idle
  <2>3. \A p \in Task : Users(p) = {}
    BY <2>2 DEF Users
  <2>4. Shape
    BY <2>2 DEF Shape
  <2>5. ASSUME NEW u \in User
        PROVE  Alone(u) /\ Rest(u) /\ Busy(u) /\ Roster(u)
    BY <2>2, <2>3 DEF Init, Alone, Rest, Busy, Roster, Sits, Quiet
  <2> QED BY <2>1, <2>4, <2>5 DEF Roll, Orderly
<1>2. TypeOK /\ Roll /\ [Next]_vars => (TypeOK /\ Roll)'
  BY TypeStep, ShapeStep, OrderStep DEF Roll
<1>3. TypeOK /\ Roll => RosterTrue
  BY DEF Roll, Orderly, Roster, Sits, RosterTrue
<1> QED BY <1>1, <1>2, <1>3, PTL DEF Spec

=============================================================================
