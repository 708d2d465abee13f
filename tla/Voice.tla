------------------------------- MODULE Voice -------------------------------
(***************************************************************************)
(* Who is in which voice channel: the hashes voice:state (users of a        *)
(* channel) and voice:devices (sockets of a user) in Redis, the rooms of the *)
(* socket server, and the handlers that keep the three together, one await  *)
(* at a time.  The flags of a participant (muted and so on) are left out.   *)
(***************************************************************************)
EXTENDS Integers, FiniteSets

CONSTANTS User, Channel, Socket,
          Owner,    \* [Socket -> User]
          Limit,    \* [Channel -> Nat], userLimit; 0 is no limit
          Exempt,   \* users with MANAGE_CHANNELS
          Task,     \* handlers running at the same time
          None      \* no channel

ASSUME VoiceAssumption ==
    /\ IsFiniteSet(User) /\ IsFiniteSet(Task)
    /\ Owner \in [Socket -> User]
    /\ Limit \in [Channel -> Nat]
    /\ Exempt \subseteq User
    /\ None \notin Channel

VARIABLES
    state,      \* voice:state of a channel: the users listed
    device,     \* voice:devices: the channel a socket is in
    rooms,      \* the voice rooms a socket has joined
    conn,       \* whether a socket is connected
    want,       \* the channel the page of a socket believes to be in
    run,        \* the handlers
    crossed,    \* users of whom two handlers ran at once, or a restart interrupted
    raced       \* channels a user was let into while another was on the way

vars == <<state, device, rooms, conn, want, run, crossed, raced>>

Idle == [pc |-> "idle", sock |-> {}, chan |-> None, todo |-> {}]

TypeOK ==
    /\ state \in [Channel -> SUBSET User]
    /\ device \in [Socket -> Channel \union {None}]
    /\ rooms \in [Socket -> SUBSET Channel]
    /\ conn \in [Socket -> {"new", "open", "closed"}]
    /\ want \in [Socket -> Channel \union {None}]
    /\ run \in [Task -> [pc : {"idle", "check", "set", "room", "device", "undevice", "unroom",
                               "rooms", "next", "other", "clear", "exists", "patch", "kill"},
                         sock : SUBSET Socket, chan : Channel \union {None},
                         todo : SUBSET Channel]]
    /\ crossed \subseteq User
    /\ raced \subseteq Channel

Init ==
    /\ state = [c \in Channel |-> {}]
    /\ device = [s \in Socket |-> None]
    /\ rooms = [s \in Socket |-> {}]
    /\ conn = [s \in Socket |-> "new"]
    /\ want = [s \in Socket |-> None]
    /\ run = [p \in Task |-> Idle]
    /\ crossed = {} /\ raced = {}

-----------------------------------------------------------------------------
Users(p) == {Owner[s] : s \in run[p].sock}

\* A handler of socket s starts.
Starts(p, s, step, c) ==
    /\ run[p].pc = "idle"
    /\ run' = [run EXCEPT ![p] = [Idle EXCEPT !.pc = step, !.sock = {s}, !.chan = c]]
    /\ crossed' = IF \E q \in Task : Owner[s] \in Users(q) THEN crossed \union {Owner[s]}
                  ELSE crossed

\* The users about to be written into the list of a channel.
Pending(c) ==
    UNION {Users(p) : p \in {q \in Task : run[q].pc \in {"set", "patch"} /\ run[q].chan = c}}

Goes(p, step) == run' = [run EXCEPT ![p].pc = step]
Ends(p) == run' = [run EXCEPT ![p] = Idle]

At(p, step, s, c) == run[p].pc = step /\ run[p].sock = {s} /\ run[p].chan = c

Connect(s) ==
    /\ conn[s] = "new"
    /\ conn' = [conn EXCEPT ![s] = "open"]
    /\ UNCHANGED <<state, device, rooms, want, run, crossed, raced>>

-----------------------------------------------------------------------------
(* voice:join.  The page leaves one channel before it joins another, but does *)
(* not wait for the answer.                                                 *)

Join(p, s, c) ==
    /\ conn[s] = "open" /\ want[s] = None
    /\ want' = [want EXCEPT ![s] = c]
    /\ Starts(p, s, "check", c)
    /\ UNCHANGED <<state, device, rooms, conn, raced>>

\* A mutant: a channel is full when the limit is exceeded.
HasRoomForOneMore(c, u) ==
    \/ Limit[c] = 0
    \/ u \in Exempt
    \/ u \in state[c]
    \/ Cardinality(state[c]) <= Limit[c]

\* assert_capacity.
HasRoom(c, u) ==
    \/ Limit[c] = 0
    \/ u \in Exempt
    \/ u \in state[c]
    \/ Cardinality(state[c]) < Limit[c]

JoinChecks(p, s, c) ==
    /\ At(p, "check", s, c)
    /\ IF HasRoom(c, Owner[s])
       THEN /\ Goes(p, "set")
            /\ raced' = IF Pending(c) \subseteq state[c] \union {Owner[s]} THEN raced
                        ELSE raced \union {c}
       ELSE Ends(p) /\ UNCHANGED raced
    /\ UNCHANGED <<state, device, rooms, conn, want, crossed>>

\* set_voice_state.
JoinSets(p, s, c) ==
    /\ At(p, "set", s, c)
    /\ state' = [state EXCEPT ![c] = @ \union {Owner[s]}]
    /\ Goes(p, "room")
    /\ UNCHANGED <<device, rooms, conn, want, crossed, raced>>

JoinRoom(p, s, c) ==
    /\ At(p, "room", s, c)
    /\ rooms' = [rooms EXCEPT ![s] = @ \union {c}]
    /\ Goes(p, "device")
    /\ UNCHANGED <<state, device, conn, want, crossed, raced>>

\* add_device.
JoinAddsDevice(p, s, c) ==
    /\ At(p, "device", s, c)
    /\ device' = [device EXCEPT ![s] = c]
    /\ Ends(p)
    /\ UNCHANGED <<state, rooms, conn, want, crossed, raced>>

-----------------------------------------------------------------------------
(* voice:leave and the disconnect handler.                                  *)

Leave(p, s) ==
    /\ conn[s] = "open" /\ want[s] # None
    /\ want' = [want EXCEPT ![s] = None]
    /\ Starts(p, s, "undevice", want[s])
    /\ UNCHANGED <<state, device, rooms, conn, raced>>

Disconnect(p, s) ==
    /\ conn[s] = "open"
    /\ conn' = [conn EXCEPT ![s] = "closed"]
    /\ want' = [want EXCEPT ![s] = None]
    /\ Starts(p, s, "undevice", None)
    /\ UNCHANGED <<state, device, rooms, raced>>

\* remove_device.
RemovesDevice(p, s, c) ==
    /\ At(p, "undevice", s, c)
    /\ device' = [device EXCEPT ![s] = None]
    /\ Goes(p, IF c = None THEN "rooms" ELSE "unroom")
    /\ UNCHANGED <<state, rooms, conn, want, crossed, raced>>

LeavesRoom(p, s, c) ==
    /\ At(p, "unroom", s, c)
    /\ rooms' = [rooms EXCEPT ![s] = @ \ {c}]
    /\ Goes(p, "other")
    /\ UNCHANGED <<state, device, conn, want, crossed, raced>>

\* The disconnect handler goes through the rooms the socket was in.
ReadsRooms(p, s) ==
    /\ At(p, "rooms", s, None)
    /\ run' = [run EXCEPT ![p].pc = "next", ![p].todo = rooms[s]]
    /\ UNCHANGED <<state, device, rooms, conn, want, crossed, raced>>

NextRoom(p) ==
    /\ run[p].pc = "next"
    /\ IF run[p].todo = {} THEN Ends(p)
       ELSE \E c \in run[p].todo :
              run' = [run EXCEPT ![p].pc = "other", ![p].chan = c, ![p].todo = @ \ {c}]
    /\ UNCHANGED <<state, device, rooms, conn, want, crossed, raced>>

\* A mutant: the other device of anybody will do.
OtherDeviceOfAnyone(s, c) == \E t \in Socket \ {s} : device[t] = c

\* has_other_device_in.
OtherDevice(s, c) ==
    \E t \in Socket \ {s} : Owner[t] = Owner[s] /\ device[t] = c

LooksElsewhere(p, s, c) ==
    /\ At(p, "other", s, c)
    /\ IF OtherDevice(s, c) THEN Goes(p, "next") ELSE Goes(p, "clear")
    /\ UNCHANGED <<state, device, rooms, conn, want, crossed, raced>>

\* clear_voice_state.
Clears(p, s, c) ==
    /\ At(p, "clear", s, c)
    /\ state' = [state EXCEPT ![c] = @ \ {Owner[s]}]
    /\ Goes(p, "next")
    /\ UNCHANGED <<device, rooms, conn, want, crossed, raced>>

-----------------------------------------------------------------------------
(* voice:update and voice:device:disconnect.                                *)

Update(p, s) ==
    /\ conn[s] = "open" /\ want[s] # None
    /\ Starts(p, s, "exists", want[s])
    /\ UNCHANGED <<state, device, rooms, conn, want, raced>>

\* patch_voice_state reads the entry, and writes it back changed.
UpdateReads(p, s, c) ==
    /\ At(p, "exists", s, c)
    /\ IF Owner[s] \in state[c] THEN Goes(p, "patch") ELSE Ends(p)
    /\ UNCHANGED <<state, device, rooms, conn, want, crossed, raced>>

UpdateWrites(p, s, c) ==
    /\ At(p, "patch", s, c)
    /\ state' = [state EXCEPT ![c] = @ \union {Owner[s]}]
    /\ Ends(p)
    /\ UNCHANGED <<device, rooms, conn, want, crossed, raced>>

\* A device that is still connected is asked to leave; a dead one is struck off.
Dismiss(p, s, t) ==
    /\ conn[s] = "open" /\ t # s /\ Owner[t] = Owner[s] /\ device[t] # None
    /\ conn[t] # "open"
    /\ Starts(p, t, "kill", None)
    /\ UNCHANGED <<state, device, rooms, conn, want, raced>>

Strikes(p, t) ==
    /\ At(p, "kill", t, None)
    /\ device' = [device EXCEPT ![t] = None]
    /\ Ends(p)
    /\ UNCHANGED <<state, rooms, conn, want, crossed, raced>>

\* The server starts again: nothing clears the two hashes.
Restart ==
    /\ conn' = [s \in Socket |-> IF conn[s] = "open" THEN "closed" ELSE conn[s]]
    /\ want' = [s \in Socket |-> None]
    /\ rooms' = [s \in Socket |-> {}]
    /\ run' = [p \in Task |-> Idle]
    /\ crossed' = crossed \union (UNION {state[c] : c \in Channel})
                          \union (UNION {Users(p) : p \in Task})
    /\ UNCHANGED <<state, device, raced>>

-----------------------------------------------------------------------------
Handler(p) ==
    \/ NextRoom(p)
    \/ \E s \in Socket :
        \/ ReadsRooms(p, s) \/ Strikes(p, s) \/ RemovesDevice(p, s, None)
        \/ \E c \in Channel :
            \/ JoinChecks(p, s, c) \/ JoinSets(p, s, c) \/ JoinRoom(p, s, c)
            \/ JoinAddsDevice(p, s, c)
            \/ RemovesDevice(p, s, c) \/ LeavesRoom(p, s, c)
            \/ LooksElsewhere(p, s, c) \/ Clears(p, s, c)
            \/ UpdateReads(p, s, c) \/ UpdateWrites(p, s, c)

Event(p) ==
    \E s \in Socket :
        \/ Leave(p, s) \/ Disconnect(p, s) \/ Update(p, s)
        \/ \E c \in Channel : Join(p, s, c)
        \/ \E t \in Socket : Dismiss(p, s, t)

Next ==
    \/ \E p \in Task : Event(p) \/ Handler(p)
    \/ \E s \in Socket : Connect(s)
    \/ Restart

Spec == Init /\ [][Next]_vars

-----------------------------------------------------------------------------
(* Properties.                                                              *)

\* Checking the capacity of a channel and taking a place are separate steps, and
\* an update may bring back a user who left.  The limit is exceeded by no other
\* way: only where a user was let in while another one was about to be listed.
CapacityKept ==
    \A c \in Channel \ raced :
        Limit[c] > 0 => Cardinality((state[c] \union Pending(c)) \ Exempt) <= Limit[c]

Inv == TypeOK /\ CapacityKept

\* Whatever the handlers of other users do in between, a user whose own handlers
\* never overlapped is listed in exactly the channels one of their open sockets is
\* in, as soon as their handlers are done.
RosterTrue ==
    \A u \in User \ crossed :
        (\A p \in Task : u \notin Users(p))
        => \A c \in Channel :
              u \in state[c] <=> \E s \in Socket : /\ Owner[s] = u /\ conn[s] = "open"
                                                   /\ c \in rooms[s] /\ device[s] = c

=============================================================================
