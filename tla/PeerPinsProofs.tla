--------------------------- MODULE PeerPinsProofs ---------------------------
(***************************************************************************)
(* Proofs about PeerPins, for any number of identities, any lengths of their *)
(* logs and any number of operations in progress: types, what becomes of the  *)
(* pin while it is not loose, that an acceptance never loses it, and that a   *)
(* contact who never started over is not accused of it.                       *)
(***************************************************************************)
EXTENDS PeerPins, TLAPS

USE BoundsAssumption, NoneIsNoPin

-----------------------------------------------------------------------------
(* Types, for any number of operations in progress.                         *)

\* What an operation has read, as far as its await says it has.
Typed(st) ==
    /\ st.phase \in {"check", "reread", "put"} => st.list \in [gen : Gens, len : 1..MaxLen]
    /\ st.op = "gossip" => st.head \in Heads
    /\ st.phase \in {"look", "again"} => st.op = "gossip"
    /\ st.phase \in {"restore", "markput"} => st.old \in Pins
    /\ st.phase = "idle" => st.op = "none"

Served ==
    /\ gen = 0 => len = 0
    /\ \A h \in heads : h.gen <= gen /\ (h.gen = gen /\ len # 0 => h.seq < len)

\* What TypeOK says of every variable but the history.
Stored ==
    /\ Log \in Logs /\ heads \subseteq Heads
    /\ pin \in Pins \union {None}
    /\ alerts \subseteq Kinds /\ confirmed \subseteq Gens
    /\ task \in [Tasks -> States]

TypeInv ==
    /\ Stored /\ Served
    /\ \A t \in Tasks : Typed(task[t])

LEMMA IdleTyped == Idle \in States /\ Typed(Idle) /\ Idle.phase = "idle" /\ Idle.op = "none"
<1>1. 0 \in 0..MaxGen /\ 0 \in 0..MaxLen
  OBVIOUS
<1>2. NoLog \in Logs
  BY <1>1 DEF NoLog, Logs
<1>3. QED
  BY <1>1, <1>2 DEF Idle, States, Phases, Typed

LEMMA GotoTyped ==
  ASSUME NEW t \in Tasks, task \in [Tasks -> States], NEW phase \in Phases
  PROVE  /\ Goto(t, phase) \in States
         /\ Goto(t, phase).phase = phase
         /\ Goto(t, phase).op = task[t].op /\ Goto(t, phase).devices = task[t].devices
         /\ Goto(t, phase).list = task[t].list /\ Goto(t, phase).verified = task[t].verified
         /\ Goto(t, phase).old = task[t].old /\ Goto(t, phase).head = task[t].head
         /\ Goto(t, phase).code = task[t].code
BY DEF Goto, States

\* One operation takes a step: the others are where they were.
LEMMA StepTyped ==
  ASSUME TypeInv, NEW t \in Tasks, NEW state, task' = [task EXCEPT ![t] = state],
         state \in States, Typed(state)
  PROVE  /\ task' \in [Tasks -> States] /\ task'[t] = state
         /\ \A u \in Tasks : Typed(task'[u])
BY DEF TypeInv, Stored

LEMMA ThrownTyped ==
  ASSUME TypeInv, NEW t \in Tasks
  PROVE  /\ Thrown(t) \in States /\ Typed(Thrown(t))
         /\ \/ Thrown(t) = Idle /\ ~ (task[t].op = "accept" /\ task[t].old # None)
            \/ /\ Thrown(t) = Goto(t, "restore") /\ task[t].op = "accept" /\ task[t].old # None
<1>1. task \in [Tasks -> States] /\ task[t] \in States
  BY DEF TypeInv, Stored
<1>2. CASE task[t].op = "accept" /\ task[t].old # None
  <2>1. task[t].old \in Pins /\ "restore" \in Phases
    BY <1>1, <1>2 DEF States, Phases
  <2>2. QED
    BY <1>1, <1>2, <2>1, GotoTyped DEF Thrown, Typed
<1>3. CASE ~ (task[t].op = "accept" /\ task[t].old # None)
  BY <1>3, IdleTyped DEF Thrown
<1>4. QED
  BY <1>2, <1>3

LEMMA PinTyped ==
  ASSUME TypeInv, NEW t \in Tasks, task[t].phase = "put"
  PROVE  NewPin(t) \in Pins
BY DEF TypeInv, Stored, Typed, NewPin, Pins, States, Gens

\* The steps that change nothing but what one operation has read.
LEMMA TypeBecomes ==
  ASSUME TypeInv, NEW t \in Tasks, NEW state, state \in States, Typed(state), Becomes(t, state)
  PROVE  TypeInv'
<1>1. task' \in [Tasks -> States] /\ \A u \in Tasks : Typed(task'[u])
  BY StepTyped DEF Becomes
<1>2. QED
  BY <1>1 DEF TypeInv, Stored, Served, Becomes, server, Log, Typed

LEMMA TypeAlarms ==
  ASSUME TypeInv, NEW t \in Tasks, NEW state, state \in States, Typed(state),
         NEW kind \in Kinds, Alarms(t, kind, state)
  PROVE  TypeInv'
<1>1. task' \in [Tasks -> States] /\ \A u \in Tasks : Typed(task'[u])
  BY StepTyped DEF Alarms
<1>2. QED
  BY <1>1 DEF TypeInv, Stored, Served, Alarms, server, Log, Typed

LEMMA TypeWrites ==
  ASSUME TypeInv, NEW t \in Tasks, NEW state, state \in States, Typed(state),
         NEW p \in Pins \union {None}, Writes(t, p, state)
  PROVE  TypeInv'
<1>1. task' \in [Tasks -> States] /\ \A u \in Tasks : Typed(task'[u])
  BY StepTyped DEF Writes
<1>2. QED
  BY <1>1 DEF TypeInv, Stored, Served, Writes, server, Log, Typed

LEMMA TypeAccount ==
  ASSUME TypeInv, Account
  PROVE  TypeInv' /\ UNCHANGED <<pin, alerts, confirmed, task>>
<1>1. gen \in 0..MaxGen /\ len \in 0..MaxLen /\ (gen = 0 => len = 0) /\ heads \subseteq Heads
  BY DEF TypeInv, Stored, Log, Logs, Served
<1>2. UNCHANGED <<pin, alerts, confirmed, task>>
  BY DEF Account, Enrols, Grows, Erases, LogBecomes
<1>3. ASSUME NEW g \in Gens, NEW n \in 0..MaxLen, LogBecomes(g, n),
             \/ g = gen + 1
             \/ g = gen /\ (n = 0 \/ (len # 0 /\ n = len + 1))
      PROVE  TypeInv'
  <2>1. n # 0 => [gen |-> g, seq |-> n - 1] \in Heads
    BY DEF Heads
  <2>2. heads' \subseteq Heads
    BY <1>1, <1>3, <2>1 DEF LogBecomes
  <2>3. Log' \in Logs
    BY <1>3 DEF LogBecomes, Log, Logs, Gens
  <2>4. \A h \in heads : h.gen \in Int /\ h.seq \in Int
    BY <1>1 DEF Heads, Gens
  <2>5. Served'
    <3>1. g # 0 /\ gen' = g /\ len' = n
      BY <1>3 DEF LogBecomes, Gens
    <3>2. ASSUME NEW h \in heads'
          PROVE  h.gen <= g /\ (h.gen = g /\ n # 0 => h.seq < n)
      <4>1. CASE h \in heads
        <5>1. h.gen <= gen /\ (h.gen = gen /\ len # 0 => h.seq < len)
          BY <4>1 DEF TypeInv, Served
        <5>2. CASE g = gen + 1
          BY <1>1, <2>4, <4>1, <5>1, <5>2
        <5>3. CASE g = gen /\ n = 0
          BY <5>1, <5>3
        <5>4. CASE g = gen /\ n = len + 1 /\ len # 0
          BY <1>1, <2>4, <4>1, <5>1, <5>4
        <5>5. QED
          BY <1>3, <5>2, <5>3, <5>4
      <4>2. CASE h = [gen |-> g, seq |-> n - 1] /\ n # 0
        BY <4>2 DEF Gens
      <4>3. QED
        BY <1>3, <4>1, <4>2 DEF LogBecomes
    <3>3. QED
      BY <3>1, <3>2 DEF Served
  <2>6. QED
    BY <1>2, <2>2, <2>3, <2>5 DEF TypeInv, Stored, Typed
<1>4. CASE Enrols
  BY <1>1, <1>2, <1>3, <1>4 DEF Enrols, Gens
<1>5. CASE Grows
  BY <1>1, <1>2, <1>3, <1>5 DEF Grows, Gens
<1>6. CASE Erases
  BY <1>1, <1>2, <1>3, <1>6 DEF Erases, Gens
<1>7. QED
  BY <1>4, <1>5, <1>6 DEF Account

LEMMA TypeStays == TypeInv /\ [Step]_vars => TypeInv'
<1> SUFFICES ASSUME TypeInv, [Step]_vars PROVE TypeInv'
  OBVIOUS
<1> USE DEF Reads
<1>0. task \in [Tasks -> States] /\ \A t \in Tasks : task[t] \in States /\ Typed(task[t])
  BY DEF TypeInv, Stored
<1>a. heads \subseteq Heads /\ pin \in Pins \union {None} /\ Log \in Logs /\ gen \in 0..MaxGen
      /\ len \in 0..MaxLen /\ (len # 0 => gen # 0)
  BY DEF TypeInv, Stored, Served, Log, Logs
<1>1. CASE Account
  BY <1>1, TypeAccount
<1>2. ASSUME NEW t \in Tasks, User(t)
      PROVE  TypeInv'
  <2>1. CASE Open(t) \/ Accept(t) \/ Unverify(t)
    <3>1. \E op \in {"open", "accept", "unverify"}, phase \in {"devices", "old", "mark"} :
             Becomes(t, [Idle EXCEPT !.op = op, !.phase = phase])
      BY <2>1 DEF Open, Accept, Unverify
    <3>2. ASSUME NEW op \in {"open", "accept", "unverify"}, NEW phase \in {"devices", "old", "mark"}
          PROVE  LET st == [Idle EXCEPT !.op = op, !.phase = phase] IN st \in States /\ Typed(st)
      BY IdleTyped DEF Idle, States, Phases, Typed
    <3>3. QED
      BY <3>1, <3>2, TypeBecomes
  <2>2. ASSUME NEW head \in heads, Gossip(t, head)
        PROVE  TypeInv'
    <3> DEFINE st == [Idle EXCEPT !.op = "gossip", !.phase = "look", !.head = head]
    <3>1. st \in States /\ Typed(st)
      BY <1>a, IdleTyped DEF Idle, States, Phases, Typed
    <3>2. QED
      BY <2>2, <3>1, TypeBecomes DEF Gossip
  <2>3. CASE Scan(t)
    <3> DEFINE st == [Idle EXCEPT !.op = "scan", !.phase = "devices", !.code = gen]
    <3>1. st \in States /\ Typed(st)
      BY <1>a, IdleTyped DEF Idle, States, Phases, Typed
    <3>2. task' \in [Tasks -> States] /\ \A u \in Tasks : Typed(task'[u])
      BY <2>3, <3>1, StepTyped DEF Scan
    <3>3. QED
      BY <1>a, <2>3, <3>2 DEF Scan, TypeInv, Stored, Served, server, Log, Typed, Gens
  <2>4. CASE Shows(t)
    <3> DEFINE st == [Idle EXCEPT !.op = "compare", !.phase = "shown", !.code = pin.gen]
    <3>1. pin # None => pin.gen \in 0..MaxGen
      BY <1>a DEF Pins, Gens
    <3>2. st \in States /\ Typed(st)
      BY <2>4, <3>1, IdleTyped DEF Shows, Idle, States, Phases, Typed
    <3>3. QED
      BY <2>4, <3>2, TypeBecomes DEF Shows
  <2>5. CASE Compare(t)
    <3>1. task' = [task EXCEPT ![t] = Goto(t, "mark")]
      BY <1>0, <2>5 DEF Compare, Goto
    <3>2. Goto(t, "mark") \in States /\ Typed(Goto(t, "mark"))
      BY <1>0, GotoTyped DEF Phases, Typed
    <3>3. task' \in [Tasks -> States] /\ \A u \in Tasks : Typed(task'[u])
      BY <3>1, <3>2, StepTyped
    <3>4. QED
      BY <1>a, <2>5, <3>3 DEF Compare, TypeInv, Stored, Served, server, Log, Typed, Gens
  <2>6. CASE Closes(t)
    BY <2>6, IdleTyped, TypeBecomes DEF Closes
  <2>7. QED
    BY <1>2, <2>1, <2>2, <2>3, <2>4, <2>5, <2>6 DEF User
<1>3. ASSUME NEW t \in Tasks, Resolve(t)
      PROVE  TypeInv'
  <2>1. CASE ReadsDevices(t)
    <3> DEFINE st == [Goto(t, "log") EXCEPT !.devices = Log]
    <3>1. st \in States /\ Typed(st)
      <4>1. Goto(t, "log") \in States /\ Goto(t, "log").phase = "log"
        BY <1>0, GotoTyped DEF Phases
      <4>2. st \in States /\ st.phase = "log" /\ st.op = task[t].op /\ st.head = task[t].head
        BY <1>0, <1>a, <4>1 DEF Goto, States
      <4> HIDE DEF st
      <4>3. QED
        BY <1>0, <4>2 DEF Typed
    <3>2. QED
      BY <2>1, <3>1, TypeBecomes DEF ReadsDevices
  <2>2. CASE ReadsLog(t)
    <3> DEFINE st == [Goto(t, "check") EXCEPT !.list = Log]
    <3>1. len # 0 => st \in States /\ Typed(st)
      <4>1. len # 0 => Log \in [gen : Gens, len : 1..MaxLen]
        BY <1>a DEF Log, Gens
      <4>a. Goto(t, "check") \in States /\ Goto(t, "check").phase = "check"
        BY <1>0, GotoTyped DEF Phases
      <4>2. /\ st \in States /\ st.phase = "check" /\ st.list = Log
            /\ st.op = task[t].op /\ st.head = task[t].head
        BY <1>0, <1>a, <4>a DEF Goto, States
      <4> HIDE DEF st
      <4>3. QED
        BY <1>0, <4>1, <4>2 DEF Typed
    <3>2. len = 0 => ListVerifies(t) = {FALSE}
      BY DEF ListVerifies
    <3>3. \/ len # 0 /\ Becomes(t, st)
          \/ Becomes(t, Thrown(t))
      BY <2>2, <3>2 DEF ReadsLog
    <3>4. QED
      BY <3>1, <3>3, ThrownTyped, TypeBecomes
  <2>3. CASE FetchFails(t)
    BY <2>3, ThrownTyped, TypeBecomes DEF FetchFails
  <2>4. CASE Checks(t)
    <3>1. "reread" \in Phases /\ {"identity-changed", "log-rollback"} \subseteq Kinds
      BY DEF Phases, Kinds
    <3>2. Goto(t, "reread") \in States /\ Typed(Goto(t, "reread"))
      BY <1>0, <2>4, <3>1, GotoTyped DEF Checks, In, Typed
    <3>3. \/ Becomes(t, Goto(t, "reread"))
          \/ \E kind \in Kinds : Alarms(t, kind, Thrown(t))
      BY <2>4, <3>1 DEF Checks, Verdict
    <3>4. QED
      BY <3>2, <3>3, ThrownTyped, TypeBecomes, TypeAlarms
  <2>5. CASE RereadsPin(t)
    <3> DEFINE st == [Goto(t, "put") EXCEPT !.verified = IF pin = None THEN FALSE ELSE pin.verified]
    <3>1. (IF pin = None THEN FALSE ELSE pin.verified) \in BOOLEAN
      BY <1>a DEF Pins
    <3>a. /\ st \in States /\ st.phase = "put" /\ st.list = task[t].list
          /\ st.op = task[t].op /\ st.head = task[t].head
      <4>1. Goto(t, "put") \in States /\ Goto(t, "put").phase = "put"
        BY <1>0, GotoTyped DEF Phases
      <4>2. QED
        BY <1>0, <3>1, <4>1 DEF Goto, States
    <3>b. task[t].phase = "reread"
      BY <2>5 DEF RereadsPin, In
    <3>2. st \in States /\ Typed(st)
      <4> HIDE DEF st
      <4>1. QED
        BY <1>0, <3>a, <3>b DEF Typed
    <3>3. QED
      BY <2>5, <3>2, TypeBecomes DEF RereadsPin
  <2>6. CASE PutsPin(t)
    <3>1. pin' \in Pins /\ UNCHANGED <<server, confirmed>>
      BY <2>6, PinTyped DEF PutsPin, In
    <3>2. alerts' \subseteq Kinds
      BY <2>6 DEF PutsPin, TypeInv, Stored, Kinds
    <3>3. \/ task' = [task EXCEPT ![t] = Idle]
          \/ task' = [task EXCEPT ![t].phase = "again"] /\ task[t].op = "gossip"
          \/ task' = [task EXCEPT ![t].phase = "mark"]
      BY <2>6 DEF PutsPin
    <3>4. CASE task' = [task EXCEPT ![t] = Idle]
      <4>1. task' \in [Tasks -> States] /\ \A u \in Tasks : Typed(task'[u])
        BY <3>4, IdleTyped, StepTyped
      <4>2. QED
        BY <3>1, <3>2, <4>1 DEF TypeInv, Stored, Served, server, Log, Typed
    <3>5. ASSUME NEW phase \in {"again", "mark"}, phase = "again" => task[t].op = "gossip",
                 task' = [task EXCEPT ![t].phase = phase]
          PROVE  TypeInv'
      <4>a. phase \in Phases
        BY <3>5 DEF Phases
      <4>b. task' = [task EXCEPT ![t] = Goto(t, phase)]
        BY <1>0, <3>5 DEF Goto
      <4>1. task' = [task EXCEPT ![t] = Goto(t, phase)] /\ Goto(t, phase) \in States
        BY <1>0, <4>a, <4>b, GotoTyped
      <4>2. Typed(Goto(t, phase))
        BY <1>0, <3>5, GotoTyped DEF Phases, Typed
      <4>3. task' \in [Tasks -> States] /\ \A u \in Tasks : Typed(task'[u])
        BY <4>1, <4>2, StepTyped
      <4>4. QED
        BY <3>1, <3>2, <4>3 DEF TypeInv, Stored, Served, server, Log, Typed
    <3>6. QED
      BY <3>3, <3>4, <3>5
  <2>7. QED
    BY <1>3, <2>1, <2>2, <2>3, <2>4, <2>5, <2>6 DEF Resolve
<1>4. ASSUME NEW t \in Tasks, Around(t)
      PROVE  TypeInv'
  <2>0. {"devices", "drop", "markput"} \subseteq Phases /\ {"log-fork", "log-omission"} \subseteq Kinds
    BY DEF Phases, Kinds
  <2>1. CASE LooksAtPin(t) \/ LooksAgain(t)
    <3>1. \/ Becomes(t, Idle)
          \/ Becomes(t, Goto(t, "devices"))
          \/ \E kind \in {"log-fork", "log-omission"} : Alarms(t, kind, Idle)
      BY <2>1 DEF LooksAtPin, LooksAgain
    <3>2. Goto(t, "devices") \in States /\ Typed(Goto(t, "devices"))
      BY <1>0, <2>0, GotoTyped DEF Typed
    <3>3. QED
      BY <2>0, <3>1, <3>2, IdleTyped, TypeBecomes, TypeAlarms
  <2>2. CASE ReadsOldPin(t)
    <3> DEFINE st == [Goto(t, "drop") EXCEPT !.old = pin]
    <3>1. st \in States /\ Typed(st)
      <4>1. Goto(t, "drop") \in States /\ Goto(t, "drop").phase = "drop"
        BY <1>0, GotoTyped DEF Phases
      <4>2. st \in States /\ st.phase = "drop" /\ st.op = task[t].op /\ st.head = task[t].head
        BY <1>0, <1>a, <4>1 DEF Goto, States
      <4> HIDE DEF st
      <4>3. QED
        BY <1>0, <4>2 DEF Typed
    <3>2. QED
      BY <2>2, <3>1, TypeBecomes DEF ReadsOldPin
  <2>3. CASE DropsPin(t)
    <3>1. Goto(t, "devices") \in States /\ Typed(Goto(t, "devices"))
      BY <1>0, <2>0, GotoTyped DEF Typed
    <3>2. QED
      BY <2>3, <3>1, TypeWrites DEF DropsPin
  <2>4. CASE RestoresPin(t)
    BY <1>0, <2>4, IdleTyped, TypeWrites DEF RestoresPin, In, Typed
  <2>5. CASE ReadsMarked(t)
    <3> DEFINE st == [Goto(t, "markput") EXCEPT !.old = pin]
    <3>1. pin # None => st \in States /\ Typed(st)
      <4>1. Goto(t, "markput") \in States /\ Goto(t, "markput").phase = "markput"
        BY <1>0, GotoTyped DEF Phases
      <4>2. /\ st \in States /\ st.phase = "markput" /\ st.op = task[t].op
            /\ st.head = task[t].head /\ st.old = pin
        BY <1>0, <1>a, <4>1 DEF Goto, States
      <4> HIDE DEF st
      <4>3. QED
        BY <1>0, <1>a, <4>2 DEF Typed
    <3>2. QED
      BY <2>5, <3>1, IdleTyped, TypeBecomes DEF ReadsMarked
  <2>6. CASE PutsMarked(t)
    <3>1. task[t].old \in Pins
      BY <1>0, <2>6 DEF PutsMarked, In, Typed
    <3>2. [task[t].old EXCEPT !.verified = task[t].op # "unverify"] \in Pins
      BY <3>1 DEF Pins
    <3>3. QED
      BY <2>6, <3>2, IdleTyped, TypeWrites DEF PutsMarked
  <2>7. QED
    BY <1>4, <2>1, <2>2, <2>3, <2>4, <2>5, <2>6 DEF Around
<1>5. ASSUME NEW kind \in Kinds, Dismiss(kind)
      PROVE  TypeInv'
  BY <1>5 DEF Dismiss, TypeInv, Stored, Served, server, Log, Typed
<1>6. CASE Reload
  <2>1. task' \in [Tasks -> States] /\ \A t \in Tasks : Typed(task'[t])
    BY <1>6, IdleTyped DEF Reload
  <2>2. QED
    BY <1>6, <2>1 DEF Reload, TypeInv, Stored, Served, server, Log, Typed
<1>7. CASE UNCHANGED vars
  BY <1>7 DEF vars, TypeInv, Stored, Served, server, Log, Typed
<1>8. QED
  BY <1>1, <1>2, <1>3, <1>4, <1>5, <1>6, <1>7 DEF Step

LEMMA TypeAtStart == Init => TypeInv
<1> SUFFICES ASSUME Init PROVE TypeInv
  OBVIOUS
<1>1. task \in [Tasks -> States] /\ \A t \in Tasks : Typed(task[t])
  BY IdleTyped DEF Init
<1>2. Log \in Logs
  BY DEF Init, Log, Logs
<1>3. QED
  BY <1>1, <1>2 DEF Init, TypeInv, Stored, Served

\* Every variable, and what an operation has read, keeps its type, however many
\* operations interleave (identity.ts, keystore.ts).
THEOREM PinsTyped == Spec => []TypeOK
<1>1. TypeInv /\ loose \in BOOLEAN => TypeOK
  BY DEF TypeInv, Stored, TypeOK
<1>2. Init => loose \in BOOLEAN
  BY DEF Init
<1>3. loose \in BOOLEAN /\ [Next]_vars => (loose \in BOOLEAN)'
  BY DEF Next, Watch, Unpinned, vars
<1>4. [Next]_vars => [Step]_vars
  BY DEF Next
<1>5. QED
  BY <1>1, <1>2, <1>3, <1>4, TypeAtStart, TypeStays, PTL DEF Spec

-----------------------------------------------------------------------------
(* The pin, while it is not loose.                                          *)

\* A verified pin is of an identity that was compared.
Earned(p, compared) == p # None => (p.verified => p.gen \in compared)

\* What an operation has read, by itself: what it will write as verified was compared.
Honest(st, compared) ==
    /\ st.phase = "put" => (st.verified => st.list.gen \in compared)
    /\ st.phase \in {"old", "drop", "restore"} => st.op = "accept"
    /\ st.op = "accept" => Earned(st.old, compared)
    /\ st.op = "scan" => st.code \in compared
    /\ st.phase = "shown" => st.op = "compare"
    /\ st.phase = "mark" => (st.op # "unverify" => st.code \in compared)
    /\ st.phase = "markput" => (st.op # "unverify" => st.old.gen \in compared)

\* And against the pin there is: whatever it may write is of the same identity.
Bound(st, p) ==
    p # None =>
      /\ st.phase \in {"reread", "put"} => st.list.gen = p.gen
      /\ st.op = "accept" => st.phase \in {"old", "drop"}
      /\ st.phase = "shown" => st.code = p.gen
      /\ st.phase = "mark" => (st.op # "unverify" => st.code = p.gen)
      /\ st.phase = "markput" => st.old.gen = p.gen

Tight ==
    /\ Earned(pin, confirmed)
    /\ pin = None => \A t, u \in Tasks : Busy(t) /\ Busy(u) => t = u
    /\ \A t \in Tasks : Honest(task[t], confirmed) /\ Bound(task[t], pin)

\* What a step must not do for PinnedIdentityStays.
SameIdentity == pin # None /\ pin' # None => pin'.gen = pin.gen

LEMMA IdleTight == \A c, p : Honest(Idle, c) /\ Bound(Idle, p)
BY DEF Honest, Bound, Idle

\* What is idle has nothing to write.
LEMMA RestTight ==
  ASSUME TypeInv, NEW t \in Tasks, ~ Busy(t)
  PROVE  \A c, p : Honest(task[t], c) /\ Bound(task[t], p)
BY DEF TypeInv, Typed, Busy, Honest, Bound

\* One operation takes a step and leaves a pin of the same identity, none, or the
\* first; identities are compared, never forgotten.
LEMMA TightMoves ==
  ASSUME TypeInv, Tight, ~ Unpinned', NEW t \in Tasks, NEW state,
         task' = [task EXCEPT ![t] = state],
         NEW p \in Pins \union {None}, pin' = p,
         NEW c, confirmed' = c, confirmed \subseteq c,
         pin # None /\ p # None => p.gen = pin.gen,
         pin = None /\ p # None => Busy(t),
         Earned(p, c), Honest(state, c), Bound(state, p)
  PROVE  Tight' /\ SameIdentity
<1>1. task \in [Tasks -> States] /\ task' \in [Tasks -> {task[u] : u \in Tasks} \union {state}]
  BY DEF TypeInv, Stored
<1>2. ASSUME NEW u \in Tasks
      PROVE  Honest(task'[u], c) /\ Bound(task'[u], p)
  <2>1. CASE u = t
    BY <1>1, <2>1
  <2>2. CASE u # t
    <3>1. task'[u] = task[u] /\ Honest(task[u], confirmed) /\ Bound(task[u], pin)
      BY <1>1, <2>2 DEF Tight
    <3>2. Honest(task[u], c)
      BY <3>1 DEF Honest, Earned
    <3>3. CASE pin = None /\ p # None
      <4>1. ~ Busy(u)
        BY <2>2, <3>3 DEF Tight
      <4>2. QED
        BY <3>1, <4>1, RestTight
    <3>4. CASE pin # None \/ p = None
      BY <3>1, <3>2, <3>4 DEF Bound
    <3>5. QED
      BY <3>3, <3>4
  <2>3. QED
    BY <2>1, <2>2
<1>3. p = None => \A u, v \in Tasks : Busy(u)' /\ Busy(v)' => u = v
  BY DEF Unpinned
<1>4. QED
  BY <1>2, <1>3 DEF Tight, SameIdentity

\* The step that changes only what one operation has read, and the alarm.
LEMMA TightReads ==
  ASSUME TypeInv, Tight, ~ Unpinned', NEW t \in Tasks, NEW state,
         Becomes(t, state) \/ (\E kind \in Kinds : Alarms(t, kind, state)),
         Honest(state, confirmed), Bound(state, pin)
  PROVE  Tight' /\ SameIdentity
<1>1. task' = [task EXCEPT ![t] = state] /\ pin' = pin /\ confirmed' = confirmed
  BY DEF Becomes, Alarms
<1>2. pin \in Pins \union {None} /\ Earned(pin, confirmed)
  BY DEF TypeInv, Stored, Tight
<1>3. QED
  BY <1>1, <1>2, TightMoves

LEMMA TightUser ==
  ASSUME TypeInv, Tight, ~ Unpinned', NEW t \in Tasks, User(t)
  PROVE  Tight' /\ SameIdentity
<1>0. /\ pin \in Pins \union {None} /\ Earned(pin, confirmed) /\ task[t] \in States
      /\ task \in [Tasks -> States]
  BY DEF TypeInv, Stored, Tight
<1>1. ASSUME NEW op \in {"open", "accept", "unverify"}, NEW phase \in {"devices", "old", "mark"},
             phase = "old" <=> op = "accept", phase = "mark" <=> op = "unverify",
             Becomes(t, [Idle EXCEPT !.op = op, !.phase = phase])
      PROVE  Tight' /\ SameIdentity
  <2> DEFINE st == [Idle EXCEPT !.op = op, !.phase = phase]
  <2>1. Honest(st, confirmed) /\ Bound(st, pin)
    BY <1>1 DEF Honest, Bound, Idle, Earned
  <2>2. QED
    BY <1>1, <2>1, TightReads
<1>2. CASE Open(t)
  BY <1>1, <1>2 DEF Open
<1>3. CASE Accept(t)
  BY <1>1, <1>3 DEF Accept
<1>4. CASE Unverify(t)
  BY <1>1, <1>4 DEF Unverify
<1>5. ASSUME NEW head \in heads, Gossip(t, head)
      PROVE  Tight' /\ SameIdentity
  <2> DEFINE st == [Idle EXCEPT !.op = "gossip", !.phase = "look", !.head = head]
  <2>1. Honest(st, confirmed) /\ Bound(st, pin)
    BY DEF Honest, Bound, Idle
  <2>2. QED
    BY <1>5, <2>1, TightReads DEF Gossip
<1>6. CASE Scan(t)
  <2> DEFINE st == [Idle EXCEPT !.op = "scan", !.phase = "devices", !.code = gen]
             c  == confirmed \union {gen}
  <2>1. Honest(st, c) /\ Bound(st, pin) /\ Earned(pin, c)
    BY <1>0 DEF Honest, Bound, Idle, Earned
  <2>2. task' = [task EXCEPT ![t] = st] /\ pin' = pin /\ confirmed' = c
    BY <1>6 DEF Scan
  <2>3. QED
    BY <1>0, <2>1, <2>2, TightMoves
<1>7. CASE Shows(t)
  <2> DEFINE st == [Idle EXCEPT !.op = "compare", !.phase = "shown", !.code = pin.gen]
  <2>1. Honest(st, confirmed) /\ Bound(st, pin)
    BY DEF Honest, Bound, Idle
  <2>2. QED
    BY <1>7, <2>1, TightReads DEF Shows
<1>8. CASE Compare(t)
  <2> DEFINE c == confirmed \union {gen}
  <2>1. /\ task' = [task EXCEPT ![t] = Goto(t, "mark")] /\ pin' = pin /\ confirmed' = c
        /\ task[t].phase = "shown" /\ task[t].code = gen
    BY <1>0, <1>8 DEF Compare, Goto, In
  <2>2. Honest(task[t], confirmed) /\ Bound(task[t], pin)
    BY DEF Tight
  <2>3. /\ Goto(t, "mark").phase = "mark" /\ Goto(t, "mark").op = "compare"
        /\ Goto(t, "mark").code = gen
    BY <1>0, <2>1, <2>2, GotoTyped DEF Phases, Honest
  <2>4. Honest(Goto(t, "mark"), c) /\ Bound(Goto(t, "mark"), pin) /\ Earned(pin, c)
    BY <1>0, <2>1, <2>2, <2>3 DEF Honest, Bound, Earned
  <2>5. QED
    BY <1>0, <2>1, <2>4, TightMoves
<1>9. CASE Closes(t)
  BY <1>9, IdleTight, TightReads DEF Closes
<1>10. QED
  BY <1>2, <1>3, <1>4, <1>5, <1>6, <1>7, <1>8, <1>9 DEF User

\* An operation that gives up has nothing to write but the pin it dropped.
LEMMA ThrownTight ==
  ASSUME TypeInv, Tight, NEW t \in Tasks, task[t].phase \in {"devices", "log", "check"}
  PROVE  Honest(Thrown(t), confirmed) /\ Bound(Thrown(t), pin)
<1>0. task \in [Tasks -> States] /\ Honest(task[t], confirmed) /\ Bound(task[t], pin)
  BY DEF TypeInv, Stored, Tight
<1>1. CASE Thrown(t) = Idle
  BY <1>1, IdleTight
<1>2. CASE Thrown(t) = Goto(t, "restore") /\ task[t].op = "accept"
  <2>1. /\ Goto(t, "restore").phase = "restore" /\ Goto(t, "restore").op = "accept"
        /\ Goto(t, "restore").old = task[t].old
    BY <1>0, <1>2, GotoTyped DEF Phases
  <2>2. pin = None
    BY <1>0, <1>2 DEF Bound
  <2>3. QED
    BY <1>0, <1>2, <2>1, <2>2 DEF Honest, Bound
<1>3. QED
  BY <1>1, <1>2, ThrownTyped

LEMMA TightResolve ==
  ASSUME TypeInv, Tight, ~ Unpinned', NEW t \in Tasks, Resolve(t)
  PROVE  Tight' /\ SameIdentity
<1> USE DEF Reads
<1>0. /\ task \in [Tasks -> States] /\ task[t] \in States
      /\ pin \in Pins \union {None} /\ Earned(pin, confirmed)
      /\ Honest(task[t], confirmed) /\ Bound(task[t], pin)
  BY DEF TypeInv, Stored, Tight
<1>1. CASE ReadsDevices(t)
  <2> DEFINE st == [Goto(t, "log") EXCEPT !.devices = Log]
  <2>1. st.phase = "log" /\ st.op = task[t].op /\ st.old = task[t].old /\ st.code = task[t].code
    BY <1>0 DEF Goto, States
  <2>2. task[t].phase = "devices" /\ Becomes(t, st)
    BY <1>1 DEF ReadsDevices, In
  <2> HIDE DEF st
  <2>3. Honest(st, confirmed) /\ Bound(st, pin)
    BY <1>0, <2>1, <2>2 DEF Honest, Bound
  <2>4. QED
    BY <2>2, <2>3, TightReads
<1>2. CASE ReadsLog(t)
  <2> DEFINE st == [Goto(t, "check") EXCEPT !.list = Log]
  <2>1. st.phase = "check" /\ st.op = task[t].op /\ st.old = task[t].old /\ st.code = task[t].code
    BY <1>0 DEF Goto, States
  <2>2. task[t].phase = "log" /\ (Becomes(t, st) \/ Becomes(t, Thrown(t)))
    BY <1>2 DEF ReadsLog, In
  <2> HIDE DEF st
  <2>3. Honest(st, confirmed) /\ Bound(st, pin)
    BY <1>0, <2>1, <2>2 DEF Honest, Bound
  <2>4. QED
    BY <2>2, <2>3, ThrownTight, TightReads
<1>3. CASE FetchFails(t)
  BY <1>3, ThrownTight, TightReads DEF FetchFails
<1>4. CASE Checks(t)
  <2>1. CASE pin = None \/ Verdict(pin, task[t].list) = "agrees"
    <3>1. task[t].phase = "check" /\ Becomes(t, Goto(t, "reread"))
      BY <1>4, <2>1 DEF Checks, In
    <3>2. pin # None => task[t].list.gen = pin.gen
      BY <2>1 DEF Verdict
    <3>3. /\ Goto(t, "reread").phase = "reread" /\ Goto(t, "reread").op = task[t].op
          /\ Goto(t, "reread").list = task[t].list /\ Goto(t, "reread").old = task[t].old
          /\ Goto(t, "reread").code = task[t].code
      BY <1>0, GotoTyped DEF Phases
    <3>4. Honest(Goto(t, "reread"), confirmed) /\ Bound(Goto(t, "reread"), pin)
      BY <1>0, <3>1, <3>2, <3>3 DEF Honest, Bound
    <3>5. QED
      BY <3>1, <3>4, TightReads
  <2>2. CASE pin # None /\ Verdict(pin, task[t].list) # "agrees"
    <3>1. task[t].phase = "check" /\ Alarms(t, Verdict(pin, task[t].list), Thrown(t))
      BY <1>4, <2>2 DEF Checks, In
    <3>2. Verdict(pin, task[t].list) \in Kinds
      BY <2>2 DEF Verdict, Kinds
    <3>3. QED
      BY <3>1, <3>2, ThrownTight, TightReads
  <2>3. QED
    BY <2>1, <2>2
<1>5. CASE RereadsPin(t)
  <2> DEFINE v  == IF pin = None THEN FALSE ELSE pin.verified
             st == [Goto(t, "put") EXCEPT !.verified = v]
  <2>1. /\ st.phase = "put" /\ st.op = task[t].op /\ st.list = task[t].list
        /\ st.old = task[t].old /\ st.code = task[t].code /\ st.verified = v
    BY <1>0 DEF Goto, States
  <2>2. task[t].phase = "reread" /\ Becomes(t, st)
    BY <1>5 DEF RereadsPin, In
  <2>3. v => task[t].list.gen \in confirmed
    BY <1>0, <2>2 DEF Earned, Bound
  <2> HIDE DEF st, v
  <2>4. Honest(st, confirmed) /\ Bound(st, pin)
    BY <1>0, <2>1, <2>2, <2>3 DEF Honest, Bound
  <2>5. QED
    BY <2>2, <2>4, TightReads
<1>6. CASE PutsPin(t)
  <2> DEFINE p == NewPin(t)
  <2>1. task[t].phase = "put" /\ pin' = p /\ confirmed' = confirmed
    BY <1>6 DEF PutsPin, In
  <2>2. p \in Pins /\ p # None /\ p.gen = task[t].list.gen /\ p.verified = task[t].verified
    BY <2>1, PinTyped, NoneIsNoPin DEF NewPin
  <2>3. Earned(p, confirmed) /\ (pin # None => p.gen = pin.gen) /\ Busy(t)
    BY <1>0, <2>1, <2>2 DEF Honest, Bound, Earned, Busy
  <2>4. \/ task' = [task EXCEPT ![t] = Idle]
        \/ task' = [task EXCEPT ![t].phase = "again"] /\ task[t].op = "gossip"
        \/ task' = [task EXCEPT ![t].phase = "mark"] /\ task[t].op = "scan" /\ task[t].code = task[t].list.gen
    BY <1>6 DEF PutsPin
  <2>5. \A phase : [task EXCEPT ![t].phase = phase] = [task EXCEPT ![t] = Goto(t, phase)]
    BY <1>0 DEF Goto
  <2> HIDE DEF p
  <2>6. CASE task' = [task EXCEPT ![t] = Idle]
    BY <2>1, <2>2, <2>3, <2>6, IdleTight, TightMoves
  <2>7. ASSUME NEW phase \in {"again", "mark"}, task' = [task EXCEPT ![t].phase = phase],
               phase = "again" => task[t].op = "gossip",
               phase = "mark" => task[t].op = "scan" /\ task[t].code = task[t].list.gen
        PROVE  Tight' /\ SameIdentity
    <3>1. /\ Goto(t, phase).phase = phase /\ Goto(t, phase).op = task[t].op
          /\ Goto(t, phase).code = task[t].code
      BY <1>0, <2>7, GotoTyped DEF Phases
    <3>2. Honest(Goto(t, phase), confirmed) /\ Bound(Goto(t, phase), p)
      BY <1>0, <2>2, <2>7, <3>1 DEF Honest, Bound
    <3>3. task' = [task EXCEPT ![t] = Goto(t, phase)]
      BY <2>5, <2>7
    <3>4. QED
      BY <2>1, <2>2, <2>3, <3>2, <3>3, TightMoves
  <2>8. QED
    BY <2>4, <2>6, <2>7
<1>7. QED
  BY <1>1, <1>2, <1>3, <1>4, <1>5, <1>6 DEF Resolve

LEMMA TightAround ==
  ASSUME TypeInv, Tight, ~ Unpinned', NEW t \in Tasks, Around(t)
  PROVE  Tight' /\ SameIdentity
<1> USE DEF Reads
<1>0. /\ task \in [Tasks -> States] /\ task[t] \in States /\ Typed(task[t])
      /\ pin \in Pins \union {None} /\ Earned(pin, confirmed)
      /\ Honest(task[t], confirmed) /\ Bound(task[t], pin)
  BY DEF TypeInv, Stored, Tight
<1>a. ASSUME NEW phase \in Phases
      PROVE  /\ Goto(t, phase).phase = phase /\ Goto(t, phase).op = task[t].op
             /\ Goto(t, phase).old = task[t].old /\ Goto(t, phase).code = task[t].code
  BY <1>0, GotoTyped
<1>1. CASE LooksAtPin(t) \/ LooksAgain(t)
  <2>1. /\ task[t].phase \in {"look", "again"} /\ task[t].op = "gossip"
        /\ \/ Becomes(t, Idle)
           \/ Becomes(t, Goto(t, "devices"))
           \/ \E kind \in Kinds : Alarms(t, kind, Idle)
    BY <1>0, <1>1 DEF LooksAtPin, LooksAgain, In, Typed, Kinds
  <2>2. Honest(Goto(t, "devices"), confirmed) /\ Bound(Goto(t, "devices"), pin)
    BY <1>a, <2>1 DEF Honest, Bound, Phases
  <2>3. QED
    BY <2>1, <2>2, IdleTight, TightReads
<1>2. CASE ReadsOldPin(t)
  <2> DEFINE st == [Goto(t, "drop") EXCEPT !.old = pin]
  <2>1. st.phase = "drop" /\ st.op = task[t].op /\ st.old = pin /\ st.code = task[t].code
    BY <1>0 DEF Goto, States
  <2>2. task[t].phase = "old" /\ Becomes(t, st)
    BY <1>2 DEF ReadsOldPin, In
  <2> HIDE DEF st
  <2>3. Honest(st, confirmed) /\ Bound(st, pin)
    BY <1>0, <2>1, <2>2 DEF Honest, Bound
  <2>4. QED
    BY <2>2, <2>3, TightReads
<1>3. CASE DropsPin(t)
  <2>1. /\ task[t].phase = "drop" /\ pin' = None /\ confirmed' = confirmed
        /\ task' = [task EXCEPT ![t] = Goto(t, "devices")]
    BY <1>3 DEF DropsPin, In, Writes
  <2>2. Honest(Goto(t, "devices"), confirmed) /\ Bound(Goto(t, "devices"), None)
    BY <1>0, <1>a, <2>1 DEF Honest, Bound, Phases
  <2>3. QED
    BY <2>1, <2>2, TightMoves DEF Earned
<1>4. CASE RestoresPin(t)
  <2>1. /\ task[t].phase = "restore" /\ pin' = task[t].old /\ confirmed' = confirmed
        /\ task' = [task EXCEPT ![t] = Idle]
    BY <1>4 DEF RestoresPin, In, Writes
  <2>2. pin = None /\ task[t].old \in Pins /\ Earned(task[t].old, confirmed) /\ Busy(t)
    BY <1>0, <2>1 DEF Honest, Bound, Typed, Busy
  <2>3. QED
    BY <2>1, <2>2, IdleTight, TightMoves
<1>5. CASE ReadsMarked(t)
  <2> DEFINE st == [Goto(t, "markput") EXCEPT !.old = pin]
  <2>1. st.phase = "markput" /\ st.op = task[t].op /\ st.old = pin /\ st.code = task[t].code
    BY <1>0 DEF Goto, States
  <2>2. task[t].phase = "mark" /\ (IF pin = None THEN Becomes(t, Idle) ELSE Becomes(t, st))
    BY <1>5 DEF ReadsMarked, In
  <2> HIDE DEF st
  <2>3. pin # None => Honest(st, confirmed) /\ Bound(st, pin)
    BY <1>0, <2>1, <2>2 DEF Honest, Bound
  <2>4. QED
    BY <2>2, <2>3, IdleTight, TightReads
<1>6. CASE PutsMarked(t)
  <2> DEFINE p == [task[t].old EXCEPT !.verified = task[t].op # "unverify"]
  <2>1. /\ task[t].phase = "markput" /\ pin' = p /\ confirmed' = confirmed
        /\ task' = [task EXCEPT ![t] = Idle]
    BY <1>6 DEF PutsMarked, In, Writes
  <2>2. task[t].old \in Pins
    BY <1>0, <2>1 DEF Typed
  <2>3. p \in Pins /\ p.gen = task[t].old.gen /\ p.verified = (task[t].op # "unverify")
    BY <2>2 DEF Pins
  <2> HIDE DEF p
  <2>4. Earned(p, confirmed) /\ (pin # None => p.gen = pin.gen) /\ Busy(t)
    BY <1>0, <2>1, <2>3 DEF Honest, Bound, Earned, Busy
  <2>5. QED
    BY <2>1, <2>3, <2>4, IdleTight, TightMoves
<1>7. QED
  BY <1>1, <1>2, <1>3, <1>4, <1>5, <1>6 DEF Around

LEMMA TightStep ==
  ASSUME TypeInv, Tight, ~ Unpinned', Step
  PROVE  Tight' /\ SameIdentity
<1>1. ASSUME UNCHANGED << pin, confirmed, task >>
      PROVE  Tight' /\ SameIdentity
  BY <1>1 DEF Tight, Busy, SameIdentity
<1>2. CASE Account
  BY <1>1, <1>2, TypeAccount
<1>3. ASSUME NEW kind \in Kinds, Dismiss(kind)
      PROVE  Tight' /\ SameIdentity
  BY <1>1, <1>3 DEF Dismiss
<1>4. CASE Reload
  <2>1. \A t \in Tasks : task'[t] = Idle
    BY <1>4 DEF Reload
  <2>2. QED
    BY <1>4, <2>1, IdleTight, IdleTyped DEF Reload, Tight, Busy, SameIdentity
<1>5. QED
  BY <1>2, <1>3, <1>4, TightUser, TightResolve, TightAround DEF Step

\* Once everything is at rest, and nobody is verified by mistake, the pin is not
\* loose any more.
LEMMA TightAgain ==
  ASSUME TypeInv', Settled'
  PROVE  Tight'
<1>1. \A t \in Tasks : ~ Busy(t)'
  BY DEF Settled
<1>2. \A t \in Tasks : Honest(task[t], confirmed)' /\ Bound(task[t], pin)'
  BY <1>1 DEF TypeInv, Typed, Busy, Honest, Bound
<1>3. Earned(pin, confirmed)'
  BY DEF Settled, Unearned, Earned
<1>4. QED
  BY <1>1, <1>2, <1>3 DEF Tight

TightInv == TypeInv /\ (~ loose => Tight)

LEMMA TightStays == TightInv /\ [Next]_vars => TightInv' /\ (~ loose => SameIdentity)
<1> SUFFICES ASSUME TightInv, [Next]_vars
             PROVE  TightInv' /\ (~ loose => SameIdentity)
  OBVIOUS
<1>1. TypeInv'
  BY TypeStays DEF TightInv, Next, vars
<1>2. CASE Step /\ Watch
  <2>1. ~ loose' => ~ Unpinned' /\ (~ loose \/ Settled')
    BY <1>2 DEF Watch
  <2>2. ~ loose' /\ ~ loose => Tight' /\ SameIdentity
    BY <1>2, <2>1, TightStep DEF TightInv
  <2>3. ~ loose' /\ loose => Tight'
    BY <1>1, <2>1, TightAgain
  <2>4. ~ loose /\ loose' => SameIdentity
    BY <1>2 DEF Watch, Unpinned, SameIdentity
  <2>5. QED
    BY <1>1, <2>2, <2>3, <2>4 DEF TightInv
<1>3. CASE UNCHANGED vars
  BY <1>1, <1>3 DEF vars, TightInv, Tight, Busy, SameIdentity
<1>4. QED
  BY <1>2, <1>3 DEF Next

LEMMA TightAtStart == Init => TightInv
BY TypeAtStart, IdleTight, IdleTyped DEF Init, TightInv, Tight, Earned, Busy

\* However many operations are under way, and whatever they have read: the contact
\* counts as verified only with an identity that was compared in person, unless the
\* pin was missing while two of them were under way (markVerified, resolvePeer,
\* acceptIdentityChange and acceptScannedContact of identity.ts).
THEOREM TrustIsEarned == Spec => []VerifiedIsEarned
<1>1. TightInv => VerifiedIsEarned
  BY DEF TightInv, Tight, Earned, VerifiedIsEarned, Unearned
<1>2. QED
  BY <1>1, TightAtStart, TightStays, PTL DEF Spec

\* Nor does a write of any of them put another identity in the place of the pinned one:
\* checkAgainstPin compares with a pin that may be gone when resolvePeer writes.
THEOREM PinGivesWayOnlyDropped == Spec => PinnedIdentityStays
<1>1. TightInv /\ [Next]_vars =>
        [ ~ loose /\ pin # None /\ pin' # None => pin'.gen = pin.gen ]_vars
  BY TightStays DEF SameIdentity
<1>2. QED
  BY <1>1, TightAtStart, TightStays, PTL DEF Spec, PinnedIdentityStays

-----------------------------------------------------------------------------
(* The pin that is dropped, whether or not it is loose.                     *)

\* Who works on what: an acceptance has seen a pin, and knows it once it drops it.
Held(st, p) ==
    /\ st.phase \in {"old", "drop", "restore"} => st.op = "accept"
    /\ st.phase \in {"look", "again", "shown", "mark", "markput"} => st.op # "accept"
    /\ st.op = "accept" => IF st.phase = "old" THEN p # None ELSE st.old # None

Kept ==
    /\ \A t \in Tasks : Held(task[t], pin)
    /\ \A t, u \in Tasks : task[t].op = "accept" /\ task[u].op = "accept" => t = u
    /\ PinIsNotLost

\* One operation takes a step, and only an acceptance may drop the pin.
LEMMA KeptMoves ==
  ASSUME TypeInv, Kept, NEW t \in Tasks, NEW state, task' = [task EXCEPT ![t] = state],
         NEW p, pin' = p, p = None => pin = None \/ task[t].op = "accept", Held(state, p),
         state.op = "accept" => task[t].op = "accept",
         p = None => (task[t].op = "accept" => state.op = "accept"),
         pin = None /\ "identity-changed" \in alerts' => "identity-changed" \in alerts
  PROVE  Kept'
<1>1. task \in [Tasks -> States]
  BY DEF TypeInv, Stored
<1>2. \A u \in Tasks : task'[u] = IF u = t THEN state ELSE task[u]
  BY <1>1
<1>3. \A u \in Tasks : Held(task'[u], p)
  BY <1>2 DEF Kept, Held
<1>4. \A u, v \in Tasks : task'[u].op = "accept" /\ task'[v].op = "accept" => u = v
  BY <1>2 DEF Kept
<1>5. PinIsNotLost'
  <2>1. SUFFICES ASSUME p = None, "identity-changed" \in alerts'
                 PROVE  \E u \in Tasks : task'[u].op = "accept" /\ task'[u].old # None
    BY DEF PinIsNotLost
  <2>2. PICK u \in Tasks : task[u].op = "accept"
    BY <2>1 DEF Kept, PinIsNotLost
  <2>3. task'[u].op = "accept"
    BY <1>2, <2>1, <2>2
  <2>4. QED
    BY <1>3, <2>1, <2>3 DEF Held
<1>6. QED
  BY <1>3, <1>4, <1>5 DEF Kept

LEMMA KeptReads ==
  ASSUME TypeInv, Kept, NEW t \in Tasks, NEW state, Becomes(t, state), Held(state, pin),
         state.op = "accept" <=> task[t].op = "accept"
  PROVE  Kept'
BY KeptMoves DEF Becomes

LEMMA IdleHeld == \A p : Held(Idle, p)
BY DEF Held, Idle

\* resolvePeer throws: the acceptance goes on to put the pin back.
LEMMA KeptThrows ==
  ASSUME TypeInv, Kept, NEW t \in Tasks, task[t].phase \in {"devices", "log", "check"},
         task' = [task EXCEPT ![t] = Thrown(t)], pin' = pin,
         pin = None /\ "identity-changed" \in alerts' => "identity-changed" \in alerts
  PROVE  Kept'
<1>0. task \in [Tasks -> States] /\ Held(task[t], pin)
  BY DEF TypeInv, Stored, Kept
<1>1. CASE task[t].op = "accept"
  <2>1. task[t].old # None
    BY <1>0, <1>1 DEF Held
  <2>2. Thrown(t) = Goto(t, "restore")
    BY <1>1, <2>1 DEF Thrown
  <2>3. /\ Goto(t, "restore").phase = "restore" /\ Goto(t, "restore").op = "accept"
        /\ Goto(t, "restore").old = task[t].old
    BY <1>0, <1>1, GotoTyped DEF Phases
  <2>4. Held(Goto(t, "restore"), pin)
    BY <2>1, <2>3 DEF Held
  <2>5. task' = [task EXCEPT ![t] = Goto(t, "restore")]
    BY <2>2
  <2>6. QED
    BY <1>1, <2>3, <2>4, <2>5, KeptMoves
<1>2. CASE task[t].op # "accept"
  <2>1. task' = [task EXCEPT ![t] = Idle]
    BY <1>2 DEF Thrown
  <2>2. Held(Idle, pin) /\ Idle.op # "accept"
    BY IdleHeld, IdleTyped
  <2>3. QED
    BY <1>2, <2>1, <2>2, KeptMoves
<1>3. QED
  BY <1>1, <1>2

LEMMA KeptUser ==
  ASSUME TypeInv, Kept, NEW t \in Tasks, User(t)
  PROVE  Kept'
<1>0. /\ task \in [Tasks -> States] /\ task[t] \in States /\ Held(task[t], pin)
      /\ task[t].phase = "idle" => task[t].op = "none"
  BY DEF TypeInv, Stored, Typed, Kept
<1>1. CASE Open(t)
  <2>1. Held([Idle EXCEPT !.op = "open", !.phase = "devices"], pin)
    BY DEF Held, Idle
  <2>2. QED
    BY <1>0, <1>1, <2>1, KeptReads DEF Open, Idle, In
<1>2. ASSUME NEW head \in heads, Gossip(t, head)
      PROVE  Kept'
  <2>1. Held([Idle EXCEPT !.op = "gossip", !.phase = "look", !.head = head], pin)
    BY DEF Held, Idle
  <2>2. QED
    BY <1>0, <1>2, <2>1, KeptReads DEF Gossip, Idle, In
<1>3. CASE Accept(t)
  <2> DEFINE st == [Idle EXCEPT !.op = "accept", !.phase = "old"]
  <2>1. /\ \A u \in Tasks : task[u].op # "accept"
        /\ task' = [task EXCEPT ![t] = st] /\ pin' = pin /\ "identity-changed" \in alerts
    BY <1>3 DEF Accept, Becomes
  <2>2. pin # None
    BY <2>1 DEF Kept, PinIsNotLost
  <2>3. st.op = "accept" /\ Held(st, pin)
    BY <2>2 DEF Held, Idle
  <2> HIDE DEF st
  <2>4. \A u \in Tasks : task'[u] = IF u = t THEN st ELSE task[u]
    BY <1>0, <2>1
  <2>5. \A u, v \in Tasks : task'[u].op = "accept" /\ task'[v].op = "accept" => u = v
    BY <2>1, <2>4
  <2>6. \A u \in Tasks : Held(task'[u], pin)
    BY <2>3, <2>4 DEF Kept
  <2>7. QED
    BY <2>1, <2>2, <2>5, <2>6 DEF Kept, PinIsNotLost
<1>4. CASE Scan(t)
  <2> DEFINE st == [Idle EXCEPT !.op = "scan", !.phase = "devices", !.code = gen]
  <2>1. Held(st, pin) /\ st.op # "accept"
    BY DEF Held, Idle
  <2>2. /\ task' = [task EXCEPT ![t] = st] /\ pin' = pin /\ alerts' = alerts
        /\ task[t].op = "none"
    BY <1>0, <1>4 DEF Scan, In
  <2>3. QED
    BY <2>1, <2>2, KeptMoves
<1>5. CASE Shows(t)
  <2>1. Held([Idle EXCEPT !.op = "compare", !.phase = "shown", !.code = pin.gen], pin)
    BY DEF Held, Idle
  <2>2. QED
    BY <1>0, <1>5, <2>1, KeptReads DEF Shows, Idle, In
<1>6. CASE Compare(t)
  <2>1. /\ task' = [task EXCEPT ![t] = Goto(t, "mark")] /\ pin' = pin /\ alerts' = alerts
        /\ task[t].phase = "shown"
    BY <1>0, <1>6 DEF Compare, Goto, In
  <2>2. Goto(t, "mark").phase = "mark" /\ Goto(t, "mark").op = task[t].op
    BY <1>0, GotoTyped DEF Phases
  <2>3. task[t].op # "accept" /\ Held(Goto(t, "mark"), pin)
    BY <1>0, <2>1, <2>2 DEF Held
  <2>4. QED
    BY <2>1, <2>2, <2>3, KeptMoves
<1>7. CASE Closes(t)
  BY <1>0, <1>7, IdleHeld, IdleTyped, KeptReads DEF Closes, In, Held
<1>8. CASE Unverify(t)
  <2>1. Held([Idle EXCEPT !.op = "unverify", !.phase = "mark"], pin)
    BY DEF Held, Idle
  <2>2. QED
    BY <1>0, <1>8, <2>1, KeptReads DEF Unverify, Idle, In
<1>9. QED
  BY <1>1, <1>2, <1>3, <1>4, <1>5, <1>6, <1>7, <1>8 DEF User

LEMMA KeptResolve ==
  ASSUME TypeInv, Kept, NEW t \in Tasks, Resolve(t)
  PROVE  Kept'
<1> USE DEF Reads
<1>0. /\ task \in [Tasks -> States] /\ task[t] \in States /\ Held(task[t], pin)
      /\ pin \in Pins \union {None}
  BY DEF TypeInv, Stored, Kept
<1>1. CASE ReadsDevices(t)
  <2> DEFINE st == [Goto(t, "log") EXCEPT !.devices = Log]
  <2>1. st.phase = "log" /\ st.op = task[t].op /\ st.old = task[t].old
    BY <1>0 DEF Goto, States
  <2>2. task[t].phase = "devices" /\ Becomes(t, st)
    BY <1>1 DEF ReadsDevices, In
  <2> HIDE DEF st
  <2>3. Held(st, pin)
    BY <1>0, <2>1, <2>2 DEF Held
  <2>4. QED
    BY <2>1, <2>2, <2>3, KeptReads
<1>2. CASE ReadsLog(t)
  <2> DEFINE st == [Goto(t, "check") EXCEPT !.list = Log]
  <2>1. st.phase = "check" /\ st.op = task[t].op /\ st.old = task[t].old
    BY <1>0 DEF Goto, States
  <2>2. task[t].phase = "log" /\ (Becomes(t, st) \/ Becomes(t, Thrown(t)))
    BY <1>2 DEF ReadsLog, In
  <2> HIDE DEF st
  <2>3. Held(st, pin)
    BY <1>0, <2>1, <2>2 DEF Held
  <2>4. CASE Becomes(t, st)
    BY <2>1, <2>3, <2>4, KeptReads
  <2>5. CASE Becomes(t, Thrown(t))
    BY <2>2, <2>5, KeptThrows DEF Becomes
  <2>6. QED
    BY <2>2, <2>4, <2>5
<1>3. CASE FetchFails(t)
  BY <1>3, KeptThrows DEF FetchFails, Becomes
<1>4. CASE Checks(t)
  <2>1. CASE Becomes(t, Goto(t, "reread"))
    <3>1. task[t].phase = "check"
      BY <1>4 DEF Checks, In
    <3>2. /\ Goto(t, "reread").phase = "reread" /\ Goto(t, "reread").op = task[t].op
          /\ Goto(t, "reread").old = task[t].old
      BY <1>0, GotoTyped DEF Phases
    <3>3. Held(Goto(t, "reread"), pin)
      BY <1>0, <3>1, <3>2 DEF Held
    <3>4. QED
      BY <2>1, <3>2, <3>3, KeptReads
  <2>2. CASE pin # None /\ \E kind \in Kinds : Alarms(t, kind, Thrown(t))
    BY <1>4, <2>2, KeptThrows DEF Checks, In, Alarms
  <2>3. QED
    BY <1>4, <2>1, <2>2 DEF Checks, Verdict, Kinds
<1>5. CASE RereadsPin(t)
  <2> DEFINE st == [Goto(t, "put") EXCEPT !.verified = IF pin = None THEN FALSE ELSE pin.verified]
  <2>1. st.phase = "put" /\ st.op = task[t].op /\ st.old = task[t].old
    BY <1>0 DEF Goto, States
  <2>2. task[t].phase = "reread" /\ Becomes(t, st)
    BY <1>5 DEF RereadsPin, In
  <2> HIDE DEF st
  <2>3. Held(st, pin)
    BY <1>0, <2>1, <2>2 DEF Held
  <2>4. QED
    BY <2>1, <2>2, <2>3, KeptReads
<1>6. CASE PutsPin(t)
  <2> DEFINE p == NewPin(t)
  <2>1. task[t].phase = "put" /\ pin' = p
    BY <1>6 DEF PutsPin, In
  <2>2. p \in Pins /\ p # None
    BY <2>1, PinTyped, NoneIsNoPin
  <2> HIDE DEF p
  <2>3. \/ task' = [task EXCEPT ![t] = Idle]
        \/ \E phase \in {"again", "mark"} :
             task' = [task EXCEPT ![t] = Goto(t, phase)] /\ task[t].op # "accept"
    BY <1>0, <1>6 DEF PutsPin, Goto
  <2>4. ASSUME NEW state, task' = [task EXCEPT ![t] = state], Held(state, p),
               state.op = "accept" => task[t].op = "accept"
        PROVE  Kept'
    <3>1. \A u \in Tasks : task'[u] = IF u = t THEN state ELSE task[u]
      BY <1>0, <2>4
    <3>2. \A u \in Tasks : Held(task'[u], p)
      BY <2>2, <2>4, <3>1 DEF Kept, Held
    <3>3. \A u, v \in Tasks : task'[u].op = "accept" /\ task'[v].op = "accept" => u = v
      BY <2>4, <3>1 DEF Kept
    <3>4. QED
      BY <2>1, <2>2, <3>2, <3>3 DEF Kept, PinIsNotLost
  <2>5. CASE task' = [task EXCEPT ![t] = Idle]
    <3>1. Held(Idle, p) /\ Idle.op # "accept"
      BY IdleHeld, IdleTyped
    <3>2. QED
      BY <2>4, <2>5, <3>1
  <2>6. ASSUME NEW phase \in {"again", "mark"}, task[t].op # "accept",
               task' = [task EXCEPT ![t] = Goto(t, phase)]
        PROVE  Kept'
    <3>1. Goto(t, phase).phase = phase /\ Goto(t, phase).op = task[t].op
      BY <1>0, GotoTyped DEF Phases
    <3>2. Held(Goto(t, phase), p)
      BY <2>6, <3>1 DEF Held
    <3>3. QED
      BY <2>4, <2>6, <3>1, <3>2
  <2>7. QED
    BY <2>3, <2>5, <2>6
<1>7. QED
  BY <1>1, <1>2, <1>3, <1>4, <1>5, <1>6 DEF Resolve

LEMMA KeptAround ==
  ASSUME TypeInv, Kept, NEW t \in Tasks, Around(t)
  PROVE  Kept'
<1> USE DEF Reads
<1>0. /\ task \in [Tasks -> States] /\ task[t] \in States /\ Typed(task[t])
      /\ Held(task[t], pin) /\ pin \in Pins \union {None}
  BY DEF TypeInv, Stored, Kept
<1>a. ASSUME NEW phase \in Phases
      PROVE  /\ Goto(t, phase).phase = phase /\ Goto(t, phase).op = task[t].op
             /\ Goto(t, phase).old = task[t].old
  BY <1>0, GotoTyped
<1>b. \A p : Held(Idle, p) /\ Idle.op # "accept"
  BY IdleHeld, IdleTyped
<1>1. CASE LooksAtPin(t) \/ LooksAgain(t)
  <2>1. /\ task[t].op # "accept" /\ pin' = pin
        /\ \/ task' = [task EXCEPT ![t] = Idle]
           \/ task' = [task EXCEPT ![t] = Goto(t, "devices")]
        /\ "identity-changed" \in alerts' => "identity-changed" \in alerts
    BY <1>0, <1>1 DEF LooksAtPin, LooksAgain, In, Typed, Becomes, Alarms
  <2>2. Held(Goto(t, "devices"), pin) /\ Goto(t, "devices").op # "accept"
    BY <1>a, <2>1 DEF Held, Phases
  <2>3. QED
    BY <1>b, <2>1, <2>2, KeptMoves
<1>2. CASE ReadsOldPin(t)
  <2> DEFINE st == [Goto(t, "drop") EXCEPT !.old = pin]
  <2>1. st.phase = "drop" /\ st.op = task[t].op /\ st.old = pin
    BY <1>0 DEF Goto, States
  <2>2. task[t].phase = "old" /\ Becomes(t, st)
    BY <1>2 DEF ReadsOldPin, In
  <2> HIDE DEF st
  <2>3. task[t].op = "accept" => Held(st, pin)
    BY <1>0, <2>1, <2>2 DEF Held
  <2>4. task[t].op = "accept"
    BY <2>2 DEF Kept, Held
  <2>5. QED
    BY <2>1, <2>2, <2>3, <2>4, KeptReads
<1>3. CASE DropsPin(t)
  <2>1. /\ task[t].phase = "drop" /\ pin' = None /\ alerts' = alerts
        /\ task' = [task EXCEPT ![t] = Goto(t, "devices")]
    BY <1>3 DEF DropsPin, In, Writes
  <2>2. task[t].op = "accept" /\ task[t].old # None
    BY <1>0, <2>1 DEF Held
  <2>3. /\ Goto(t, "devices").phase = "devices" /\ Goto(t, "devices").op = "accept"
        /\ Goto(t, "devices").old # None
    BY <1>a, <2>2 DEF Phases
  <2>4. Held(Goto(t, "devices"), None)
    BY <2>3 DEF Held
  <2>5. QED
    BY <2>1, <2>2, <2>3, <2>4, KeptMoves
<1>4. CASE RestoresPin(t)
  <2>1. /\ task[t].phase = "restore" /\ pin' = task[t].old /\ alerts' = alerts
        /\ task' = [task EXCEPT ![t] = Idle]
    BY <1>4 DEF RestoresPin, In, Writes
  <2>2. task[t].old # None
    BY <1>0, <2>1, NoneIsNoPin DEF Typed
  <2>3. QED
    BY <1>b, <2>1, <2>2, KeptMoves
<1>5. CASE ReadsMarked(t)
  <2> DEFINE st == [Goto(t, "markput") EXCEPT !.old = pin]
  <2>1. st.phase = "markput" /\ st.op = task[t].op
    BY <1>0 DEF Goto, States
  <2>2. task[t].phase = "mark" /\ (Becomes(t, Idle) \/ Becomes(t, st))
    BY <1>5 DEF ReadsMarked, In
  <2> HIDE DEF st
  <2>3. task[t].op # "accept" /\ Held(st, pin)
    BY <1>0, <2>1, <2>2 DEF Held
  <2>4. QED
    BY <1>b, <2>1, <2>2, <2>3, KeptReads
<1>6. CASE PutsMarked(t)
  <2> DEFINE p == [task[t].old EXCEPT !.verified = task[t].op # "unverify"]
  <2>1. /\ task[t].phase = "markput" /\ pin' = p /\ alerts' = alerts
        /\ task' = [task EXCEPT ![t] = Idle]
    BY <1>6 DEF PutsMarked, In, Writes
  <2>2. p \in Pins
    BY <1>0, <2>1 DEF Typed, Pins
  <2> HIDE DEF p
  <2>3. p # None
    BY <2>2, NoneIsNoPin
  <2>4. QED
    BY <1>b, <2>1, <2>3, KeptMoves
<1>7. QED
  BY <1>1, <1>2, <1>3, <1>4, <1>5, <1>6 DEF Around

LEMMA KeptStays == TypeInv /\ Kept /\ [Step]_vars => Kept'
<1> SUFFICES ASSUME TypeInv, Kept, [Step]_vars PROVE Kept'
  OBVIOUS
<1>1. ASSUME UNCHANGED << pin, task >>, alerts' \subseteq alerts
      PROVE  Kept'
  BY <1>1 DEF Kept, PinIsNotLost
<1>2. CASE Account
  BY <1>1, <1>2, TypeAccount
<1>3. ASSUME NEW kind \in Kinds, Dismiss(kind)
      PROVE  Kept'
  BY <1>1, <1>3 DEF Dismiss
<1>4. CASE Reload
  <2>1. \A t \in Tasks : task'[t] = Idle
    BY <1>4 DEF Reload
  <2>2. alerts' = {}
    BY <1>4 DEF Reload
  <2>3. QED
    BY <2>1, <2>2, IdleHeld, IdleTyped DEF Kept, PinIsNotLost
<1>5. CASE UNCHANGED vars
  BY <1>1, <1>5 DEF vars
<1>6. QED
  BY <1>2, <1>3, <1>4, <1>5, KeptUser, KeptResolve, KeptAround DEF Step

\* However the acceptance of a change fails (resolvePeer throws at any of its awaits)
\* and whoever else writes the pin meanwhile, the contact is pinned again: while the
\* alert is up, no pin is missing that acceptIdentityChange does not still hold.
THEOREM AcceptanceLosesNothing == Spec => []PinIsNotLost
<1>1. Init => Kept
  BY IdleHeld, IdleTyped DEF Init, Kept, PinIsNotLost
<1>2. Kept => PinIsNotLost
  BY DEF Kept
<1>3. [Next]_vars => [Step]_vars
  BY DEF Next
<1>4. QED
  BY <1>1, <1>2, <1>3, TypeAtStart, TypeStays, KeptStays, PTL DEF Spec

-----------------------------------------------------------------------------
(* A contact who keeps their identity.                                      *)

\* What an operation has read is of an identity the contact has had by now.
Dated(st) ==
    /\ st.phase \in {"check", "reread", "put"} => st.list.gen <= gen
    /\ st.op = "gossip" => st.head.gen <= gen
    /\ st.op = "scan" => st.code \in Gens /\ st.code <= gen
    /\ st.old # None => st.old.gen <= gen

Faithful ==
    /\ pin # None => pin.gen <= gen
    /\ \A t \in Tasks : Dated(task[t])
    /\ KeptIdentityIsTrusted

LEMMA IdleDated == Dated(Idle)
BY DEF Dated, Idle

\* One operation takes a step that raises no such alert but where identities differ.
LEMMA FaithfulMoves ==
  ASSUME TypeInv, Faithful, NEW t \in Tasks, NEW state, Dated(state),
         task' = [task EXCEPT ![t] = state], gen' = gen,
         pin' = pin \/ (pin' # None => pin'.gen <= gen),
         gen <= 1 => alerts' \cap {"identity-changed", "log-fork"} \subseteq alerts
  PROVE  Faithful'
<1>1. task \in [Tasks -> States]
  BY DEF TypeInv, Stored
<1>2. \A u \in Tasks : task'[u] = IF u = t THEN state ELSE task[u]
  BY <1>1
<1>3. \A u \in Tasks : Dated(task[u])'
  BY <1>2 DEF Faithful, Dated
<1>4. QED
  BY <1>3 DEF Faithful, KeptIdentityIsTrusted

LEMMA FaithfulReads ==
  ASSUME TypeInv, Faithful, NEW t \in Tasks, NEW state, Dated(state), Becomes(t, state)
  PROVE  Faithful'
BY FaithfulMoves DEF Becomes, server

LEMMA ThrownDated ==
  ASSUME TypeInv, Faithful, NEW t \in Tasks
  PROVE  Dated(Thrown(t))
<1>0. task \in [Tasks -> States] /\ Dated(task[t])
  BY DEF TypeInv, Stored, Faithful
<1>1. CASE Thrown(t) = Idle
  BY <1>1, IdleDated
<1>2. CASE Thrown(t) = Goto(t, "restore")
  <2>1. /\ Goto(t, "restore").phase = "restore" /\ Goto(t, "restore").op = task[t].op
        /\ Goto(t, "restore").old = task[t].old /\ Goto(t, "restore").head = task[t].head
        /\ Goto(t, "restore").code = task[t].code
    BY <1>0, GotoTyped DEF Phases
  <2>2. QED
    BY <1>0, <1>2, <2>1 DEF Dated
<1>3. QED
  BY <1>1, <1>2, ThrownTyped

\* As long as there is one identity only, what two reads name is the same.
LEMMA OneIdentity ==
  ASSUME NEW a \in Gens, NEW b \in Gens, NEW g, g <= 1, a <= g, b <= g, g \in Nat
  PROVE  a = b
BY DEF Gens

LEMMA FaithfulUser ==
  ASSUME TypeInv, Faithful, NEW t \in Tasks, User(t)
  PROVE  Faithful'
<1>0. /\ task \in [Tasks -> States] /\ task[t] \in States /\ Dated(task[t])
      /\ pin \in Pins \union {None} /\ gen \in Nat
  BY DEF TypeInv, Stored, Faithful, Log, Logs
<1>1. CASE Open(t) \/ Accept(t) \/ Unverify(t)
  <2>1. \E op \in {"open", "accept", "unverify"}, phase \in {"devices", "old", "mark"} :
           Becomes(t, [Idle EXCEPT !.op = op, !.phase = phase])
    BY <1>1 DEF Open, Accept, Unverify
  <2>2. \A op \in {"open", "accept", "unverify"}, phase \in {"devices", "old", "mark"} :
           Dated([Idle EXCEPT !.op = op, !.phase = phase])
    BY DEF Dated, Idle
  <2>3. QED
    BY <2>1, <2>2, FaithfulReads
<1>2. ASSUME NEW head \in heads, Gossip(t, head)
      PROVE  Faithful'
  <2>1. head.gen <= gen
    BY DEF TypeInv, Served
  <2>2. Dated([Idle EXCEPT !.op = "gossip", !.phase = "look", !.head = head])
    BY <2>1 DEF Dated, Idle
  <2>3. QED
    BY <1>2, <2>2, FaithfulReads DEF Gossip
<1>3. CASE Scan(t)
  <2> DEFINE st == [Idle EXCEPT !.op = "scan", !.phase = "devices", !.code = gen]
  <2>1. gen \in Gens /\ gen <= gen
    BY <1>3 DEF TypeInv, Stored, Served, Scan, Log, Logs, Gens
  <2>2. Dated(st)
    BY <2>1 DEF Dated, Idle
  <2>3. task' = [task EXCEPT ![t] = st] /\ gen' = gen /\ pin' = pin /\ alerts' = alerts
    BY <1>3 DEF Scan, server
  <2>4. QED
    BY <2>2, <2>3, FaithfulMoves
<1>4. CASE Shows(t)
  <2>1. Dated([Idle EXCEPT !.op = "compare", !.phase = "shown", !.code = pin.gen])
    BY DEF Dated, Idle
  <2>2. QED
    BY <1>4, <2>1, FaithfulReads DEF Shows
<1>5. CASE Compare(t)
  <2>1. /\ task' = [task EXCEPT ![t] = Goto(t, "mark")] /\ gen' = gen /\ pin' = pin
        /\ alerts' = alerts /\ task[t].phase = "shown"
    BY <1>0, <1>5 DEF Compare, Goto, server, In
  <2>2. /\ Goto(t, "mark").phase = "mark" /\ Goto(t, "mark").op = task[t].op
        /\ Goto(t, "mark").old = task[t].old /\ Goto(t, "mark").head = task[t].head
        /\ Goto(t, "mark").code = task[t].code
    BY <1>0, GotoTyped DEF Phases
  <2>3. Dated(Goto(t, "mark"))
    BY <1>0, <2>2 DEF Dated
  <2>4. QED
    BY <2>1, <2>3, FaithfulMoves
<1>6. CASE Closes(t)
  BY <1>6, IdleDated, FaithfulReads DEF Closes
<1>7. QED
  BY <1>1, <1>2, <1>3, <1>4, <1>5, <1>6 DEF User

LEMMA FaithfulResolve ==
  ASSUME TypeInv, Faithful, NEW t \in Tasks, Resolve(t)
  PROVE  Faithful'
<1> USE DEF Reads
<1>0. /\ task \in [Tasks -> States] /\ task[t] \in States /\ Dated(task[t]) /\ Typed(task[t])
      /\ pin \in Pins \union {None} /\ gen \in Nat
      /\ pin # None => pin.gen <= gen
  BY DEF TypeInv, Stored, Faithful, Log, Logs
<1>a. ASSUME NEW phase \in Phases, phase = "again" \/ phase = "mark" \/ phase = "reread",
             phase = "reread" => task[t].phase = "check"
      PROVE  Dated(Goto(t, phase))
  <2>1. /\ Goto(t, phase).phase = phase /\ Goto(t, phase).op = task[t].op
        /\ Goto(t, phase).old = task[t].old /\ Goto(t, phase).head = task[t].head
        /\ Goto(t, phase).code = task[t].code /\ Goto(t, phase).list = task[t].list
    BY <1>0, GotoTyped
  <2>2. QED
    BY <1>0, <1>a, <2>1 DEF Dated
<1>1. CASE ReadsDevices(t)
  <2> DEFINE st == [Goto(t, "log") EXCEPT !.devices = Log]
  <2>1. /\ st.phase = "log" /\ st.op = task[t].op /\ st.old = task[t].old
        /\ st.head = task[t].head /\ st.code = task[t].code
    BY <1>0 DEF Goto, States
  <2>2. Becomes(t, st)
    BY <1>1 DEF ReadsDevices
  <2> HIDE DEF st
  <2>3. Dated(st)
    BY <1>0, <2>1 DEF Dated
  <2>4. QED
    BY <2>2, <2>3, FaithfulReads
<1>2. CASE ReadsLog(t)
  <2> DEFINE st == [Goto(t, "check") EXCEPT !.list = Log]
  <2>1. /\ st.phase = "check" /\ st.op = task[t].op /\ st.old = task[t].old
        /\ st.head = task[t].head /\ st.code = task[t].code /\ st.list = Log
    BY <1>0 DEF Goto, States
  <2>2. Becomes(t, st) \/ Becomes(t, Thrown(t))
    BY <1>2 DEF ReadsLog
  <2> HIDE DEF st
  <2>3. Dated(st)
    BY <1>0, <2>1 DEF Dated, Log
  <2>4. QED
    BY <2>2, <2>3, ThrownDated, FaithfulReads
<1>3. CASE FetchFails(t)
  BY <1>3, ThrownDated, FaithfulReads DEF FetchFails
<1>4. CASE Checks(t)
  <2>1. task[t].phase = "check"
    BY <1>4 DEF Checks, In
  <2>2. CASE Becomes(t, Goto(t, "reread"))
    BY <1>a, <2>1, <2>2, FaithfulReads DEF Phases
  <2>3. CASE pin # None /\ Alarms(t, Verdict(pin, task[t].list), Thrown(t))
    <3>1. gen <= 1 => pin.gen = task[t].list.gen
      BY <1>0, <2>1, <2>3, OneIdentity DEF Dated, Typed, Pins
    <3>2. gen <= 1 => Verdict(pin, task[t].list) \notin {"identity-changed", "log-fork"}
      BY <3>1 DEF Verdict
    <3>3. gen <= 1 => alerts' \cap {"identity-changed", "log-fork"} \subseteq alerts
      BY <2>3, <3>2 DEF Alarms
    <3>4. QED
      BY <2>3, <3>3, ThrownDated, FaithfulMoves DEF Alarms, server
  <2>4. QED
    BY <1>4, <2>2, <2>3 DEF Checks
<1>5. CASE RereadsPin(t)
  <2> DEFINE v  == IF pin = None THEN FALSE ELSE pin.verified
             st == [Goto(t, "put") EXCEPT !.verified = v]
  <2>1. /\ st.phase = "put" /\ st.op = task[t].op /\ st.old = task[t].old
        /\ st.head = task[t].head /\ st.code = task[t].code /\ st.list = task[t].list
    BY <1>0 DEF Goto, States
  <2>2. task[t].phase = "reread" /\ Becomes(t, st)
    BY <1>5 DEF RereadsPin, In
  <2> HIDE DEF st, v
  <2>3. Dated(st)
    BY <1>0, <2>1, <2>2 DEF Dated
  <2>4. QED
    BY <2>2, <2>3, FaithfulReads
<1>6. CASE PutsPin(t)
  <2>1. /\ task[t].phase = "put" /\ pin' = NewPin(t) /\ gen' = gen
        /\ NewPin(t).gen = task[t].list.gen
    BY <1>6 DEF PutsPin, In, NewPin, server
  <2>2. NewPin(t).gen <= gen
    BY <1>0, <2>1 DEF Dated
  <2>3. \/ task' = [task EXCEPT ![t] = Idle]
        \/ \E phase \in {"again", "mark"} : task' = [task EXCEPT ![t] = Goto(t, phase)]
    BY <1>0, <1>6 DEF PutsPin, Goto
  <2>4. gen <= 1 => (task[t].op = "scan" => task[t].code = task[t].list.gen)
    BY <1>0, <2>1, OneIdentity DEF Dated, Typed
  <2>5. gen <= 1 => alerts' \cap {"identity-changed", "log-fork"} \subseteq alerts
    BY <1>6, <2>4 DEF PutsPin
  <2>6. \A phase \in {"again", "mark"} : Dated(Goto(t, phase))
    BY <1>a DEF Phases
  <2>7. QED
    BY <2>1, <2>2, <2>3, <2>5, <2>6, IdleDated, FaithfulMoves
<1>7. QED
  BY <1>1, <1>2, <1>3, <1>4, <1>5, <1>6 DEF Resolve

LEMMA FaithfulAround ==
  ASSUME TypeInv, Faithful, NEW t \in Tasks, Around(t)
  PROVE  Faithful'
<1> USE DEF Reads
<1>0. /\ task \in [Tasks -> States] /\ task[t] \in States /\ Dated(task[t]) /\ Typed(task[t])
      /\ pin \in Pins \union {None} /\ gen \in Nat
      /\ pin # None => pin.gen <= gen
  BY DEF TypeInv, Stored, Faithful, Log, Logs
<1>a. Dated(Goto(t, "devices"))
  <2>1. /\ Goto(t, "devices").phase = "devices" /\ Goto(t, "devices").op = task[t].op
        /\ Goto(t, "devices").old = task[t].old /\ Goto(t, "devices").head = task[t].head
        /\ Goto(t, "devices").code = task[t].code
    BY <1>0, GotoTyped DEF Phases
  <2>2. QED
    BY <1>0, <2>1 DEF Dated
<1>1. CASE LooksAtPin(t) \/ LooksAgain(t)
  <2>1. /\ \/ task' = [task EXCEPT ![t] = Idle]
           \/ task' = [task EXCEPT ![t] = Goto(t, "devices")]
        /\ gen' = gen /\ pin' = pin
        /\ \/ alerts' \subseteq alerts \union {"log-omission"}
           \/ pin # None /\ GossipVerdict(task[t].head, pin) = "fork"
    BY <1>1 DEF LooksAtPin, LooksAgain, Becomes, Alarms, server
  <2>2. task[t].head \in Heads /\ task[t].head.gen <= gen
    BY <1>0, <1>1 DEF LooksAtPin, LooksAgain, In, Typed, Dated
  <2>3. gen <= 1 => (pin # None => task[t].head.gen = pin.gen)
    BY <1>0, <2>2, OneIdentity DEF Heads, Pins
  <2>4. gen <= 1 => alerts' \cap {"identity-changed", "log-fork"} \subseteq alerts
    BY <2>1, <2>3 DEF GossipVerdict
  <2>5. QED
    BY <1>a, <2>1, <2>4, IdleDated, FaithfulMoves
<1>2. CASE ReadsOldPin(t)
  <2> DEFINE st == [Goto(t, "drop") EXCEPT !.old = pin]
  <2>1. /\ st.phase = "drop" /\ st.op = task[t].op /\ st.old = pin
        /\ st.head = task[t].head /\ st.code = task[t].code
    BY <1>0 DEF Goto, States
  <2>2. Becomes(t, st)
    BY <1>2 DEF ReadsOldPin
  <2> HIDE DEF st
  <2>3. Dated(st)
    BY <1>0, <2>1 DEF Dated
  <2>4. QED
    BY <2>2, <2>3, FaithfulReads
<1>3. CASE DropsPin(t)
  BY <1>3, <1>a, FaithfulMoves DEF DropsPin, Writes, server
<1>4. CASE RestoresPin(t)
  <2>1. /\ task[t].phase = "restore" /\ pin' = task[t].old /\ alerts' = alerts /\ gen' = gen
        /\ task' = [task EXCEPT ![t] = Idle]
    BY <1>4 DEF RestoresPin, In, Writes, server
  <2>2. QED
    BY <1>0, <2>1, IdleDated, FaithfulMoves DEF Dated
<1>5. CASE ReadsMarked(t)
  <2> DEFINE st == [Goto(t, "markput") EXCEPT !.old = pin]
  <2>1. /\ st.phase = "markput" /\ st.op = task[t].op /\ st.old = pin
        /\ st.head = task[t].head /\ st.code = task[t].code
    BY <1>0 DEF Goto, States
  <2>2. Becomes(t, Idle) \/ Becomes(t, st)
    BY <1>5 DEF ReadsMarked
  <2> HIDE DEF st
  <2>3. Dated(st)
    BY <1>0, <2>1 DEF Dated
  <2>4. QED
    BY <2>2, <2>3, IdleDated, FaithfulReads
<1>6. CASE PutsMarked(t)
  <2> DEFINE p == [task[t].old EXCEPT !.verified = task[t].op # "unverify"]
  <2>1. /\ task[t].phase = "markput" /\ pin' = p /\ alerts' = alerts /\ gen' = gen
        /\ task' = [task EXCEPT ![t] = Idle]
    BY <1>6 DEF PutsMarked, In, Writes, server
  <2>2. task[t].old \in Pins
    BY <1>0, <2>1 DEF Typed
  <2>3. p.gen = task[t].old.gen /\ task[t].old # None
    BY <2>2, NoneIsNoPin DEF Pins
  <2> HIDE DEF p
  <2>4. p.gen <= gen
    BY <1>0, <2>3 DEF Dated
  <2>5. QED
    BY <2>1, <2>4, IdleDated, FaithfulMoves
<1>7. QED
  BY <1>1, <1>2, <1>3, <1>4, <1>5, <1>6 DEF Around

LEMMA FaithfulStays == TypeInv /\ Faithful /\ [Step]_vars => Faithful'
<1> SUFFICES ASSUME TypeInv, Faithful, [Step]_vars PROVE Faithful'
  OBVIOUS
<1>1. ASSUME UNCHANGED << gen, pin, task >>, alerts' \subseteq alerts
      PROVE  Faithful'
  BY <1>1 DEF Faithful, Dated, KeptIdentityIsTrusted
<1>2. CASE Account
  <2>1. UNCHANGED << pin, alerts, task >> /\ gen' \in {gen, gen + 1} /\ gen \in Nat
    BY <1>2, TypeAccount
       DEF Account, Enrols, Grows, Erases, LogBecomes, TypeInv, Stored, Log, Logs
  <2>2. /\ task \in [Tasks -> States] /\ pin \in Pins \union {None}
        /\ \A t \in Tasks : Typed(task[t]) /\ Dated(task[t])
    BY DEF TypeInv, Stored, Faithful
  <2>3. ASSUME NEW t \in Tasks
        PROVE  Dated(task[t])'
    <3>1. /\ task[t].list.gen \in Int /\ task[t].code \in Int
          /\ task[t].op = "gossip" => task[t].head.gen \in Int
          /\ task[t].old # None => task[t].old.gen \in Int
      BY <2>2 DEF States, Logs, Typed, Heads, Gens, Pins
    <3>2. QED
      BY <2>1, <2>2, <3>1 DEF Dated
  <2>4. pin # None => pin.gen \in Int
    BY <2>2 DEF Pins, Gens
  <2>5. QED
    BY <2>1, <2>3, <2>4 DEF Faithful, KeptIdentityIsTrusted
<1>3. ASSUME NEW kind \in Kinds, Dismiss(kind)
      PROVE  Faithful'
  BY <1>1, <1>3 DEF Dismiss, server
<1>4. CASE Reload
  <2>1. (\A t \in Tasks : task'[t] = Idle) /\ alerts' = {} /\ pin' = pin /\ gen' = gen
    BY <1>4 DEF Reload, server
  <2>2. \A t \in Tasks : Dated(task[t])'
    BY <2>1, IdleDated DEF Dated
  <2>3. QED
    BY <2>1, <2>2 DEF Faithful, KeptIdentityIsTrusted
<1>5. CASE UNCHANGED vars
  BY <1>1, <1>5 DEF vars, server
<1>6. QED
  BY <1>2, <1>3, <1>4, <1>5, FaithfulUser, FaithfulResolve, FaithfulAround DEF Step

\* Whichever answers come out of order, and whatever is written over what: a contact
\* who never started over is accused of no other identity and of no second history
\* (checkAgainstPin, checkGossip and acceptScannedContact of identity.ts).
THEOREM KeptIdentityNotAccused == Spec => []KeptIdentityIsTrusted
<1>1. Init => Faithful
  BY IdleDated DEF Init, Faithful, KeptIdentityIsTrusted
<1>2. Faithful => KeptIdentityIsTrusted
  BY DEF Faithful
<1>3. [Next]_vars => [Step]_vars
  BY DEF Next
<1>4. QED
  BY <1>1, <1>2, <1>3, TypeAtStart, TypeStays, FaithfulStays, PTL DEF Spec
=============================================================================
