------------------------------- MODULE DmCall -------------------------------
(***************************************************************************)
(* Calls in direct messages (services/call.rs, driven by the socket        *)
(* handlers of socket.rs): a caller rings the others, they accept, decline *)
(* or let it ring out, and the call is over when nobody is left.           *)
(*                                                                         *)
(* The whole state of a call is one JSON value in Redis.  Every handler    *)
(* loads it, edits its copy, and writes the copy back, one await after     *)
(* another; nothing ties the write to the value that was read.  A second   *)
(* key per user names the call the user is on or rung for, and a message   *)
(* of the conversation, the card, shows the call to those who read it.     *)
(*                                                                         *)
(* After its last read a handler is a straight list of writes, which it    *)
(* carries out one by one.  A command of Redis may fail between two of     *)
(* them, and the server may be restarted.                                  *)
(***************************************************************************)
EXTENDS Integers, FiniteSets, Sequences, SequencesExt

CONSTANTS
  Users, Channels,
  Members,     (* ChannelParticipant: the users of each channel            *)
  Processes,   (* handlers that may be running at the same time            *)
  MaxCalls,    (* bound of the model: calls ever started                   *)
  None

ASSUME UsersAssumption    == IsFiniteSet(Users)
ASSUME MembersAssumption  == Members \in [Channels -> SUBSET Users]
ASSUME MaxCallsAssumption == MaxCalls \in Nat

VARIABLES
  call,        (* call:{channel}, None when absent                         *)
  bound,       (* call:user:{user}, None when absent                       *)
  cards,       (* what the card of each call says, "none" if there is none *)
  timers,      (* ring timeouts that have not fired: channel and call      *)
  muddled,     (* history: the channels whose call two handlers rewrote at *)
               (* once, or one left half rewritten                         *)
  calls,       (* calls started so far; the number stands for started_at   *)
  proc         (* what each running handler has read and has yet to write  *)

redis == << call, bound >>
vars  == << call, bound, cards, timers, muddled, calls, proc >>

Ids == 1..MaxCalls

Idle == [ phase |-> "idle", user |-> None, channel |-> None,
          ask |-> {}, ring |-> {}, writes |-> << >> ]

Init ==
  /\ call   = [c \in Channels |-> None]
  /\ bound  = [u \in Users |-> None]
  /\ cards  = [k \in Channels \X Ids |-> "none"]
  /\ timers = {}
  /\ muddled = {}
  /\ calls  = 0
  /\ proc   = [p \in Processes |-> Idle]

(***************************************************************************)
(* The writes.                                                             *)
(***************************************************************************)
Save(c, copy)   == [ do |-> "save", channel |-> c, copy |-> copy ]
BindSelf(u, c)  == [ do |-> "bind", user |-> u, to |-> u ]  \* a mutant
Bind(u, c)      == [ do |-> "bind", user |-> u, to |-> c ]
Unbind(u)       == [ do |-> "bind", user |-> u, to |-> None ]
Card(c, n, says) == [ do |-> "card", card |-> << c, n >>, says |-> says ]
Arm(c, n)       == [ do |-> "arm", timer |-> << c, n >> ]

BindAll(S, c) == LET s == SetToSeq(S) IN [i \in 1..Len(s) |-> Bind(s[i], c)]

UnbindAll(S) == BindAll(S, None)

\* discard: the call's key, then the key of everybody in the copy.
Discard(c, copy) ==
  << Save(c, None) >> \o UnbindAll(copy.ringing) \o UnbindAll(copy.participants)

Write(p) ==
  /\ proc[p].phase = "write"
  /\ LET w    == Head(proc[p].writes)
         rest == Tail(proc[p].writes)
     IN /\ proc' = [proc EXCEPT ![p] =
                      IF rest = << >> THEN Idle ELSE [@ EXCEPT !.writes = rest]]
        /\ \/ /\ w.do = "save"
              /\ call' = [call EXCEPT ![w.channel] = w.copy]
              /\ UNCHANGED << bound, cards, timers >>
           \/ /\ w.do = "bind"
              /\ bound' = [bound EXCEPT ![w.user] = w.to]
              /\ UNCHANGED << call, cards, timers >>
           \* The card is a message; a change of it may fail to be stored.
           \/ /\ w.do = "card"
              /\ cards' \in {cards, [cards EXCEPT ![w.card] = IF @ = "none" THEN @ ELSE w.says]}
              /\ UNCHANGED << redis, timers >>
           \* The caller may not be found for the payload: no timer then.
           \/ /\ w.do = "arm"
              /\ timers' \in {timers, timers \cup {w.timer}}
              /\ UNCHANGED << redis, cards >>
        /\ UNCHANGED << calls, muddled >>

(***************************************************************************)
(* Building blocks of the handlers.                                        *)
(***************************************************************************)
\* p has read the call of c and may yet rewrite it.
Holds(p, c) == proc[p].phase \in {"poll", "write"} /\ proc[p].channel = c

\* p takes what it has read of c for its own: from here on it works on a copy.
Takes(p, c) ==
  muddled' = IF \E q \in Processes \ {p} : Holds(q, c) THEN muddled \cup {c} ELSE muddled

Becomes(p, state) ==
  /\ proc' = [proc EXCEPT ![p] = state]
  /\ UNCHANGED << redis, cards, timers >>

\* The handler of u's event, from its first write on.
Writing(u, c, writes) ==
  [Idle EXCEPT !.phase = "write", !.user = u, !.channel = c, !.writes = writes]

Rewrites(p, u, c, writes) ==
  Becomes(p, Writing(u, c, writes)) /\ Takes(p, c) /\ UNCHANGED calls

\* An event that is answered from what was read, with nothing to write, is left
\* out.  The first await of a handler that reads nothing before it is its start.
Begins(p) == proc[p].phase = "idle"

(***************************************************************************)
(* start                                                                   *)
(***************************************************************************)
StartReadsKey(p, u, c) ==
  /\ Begins(p)
  /\ u \in Members[c] /\ bound[u] \in {None, c}
  /\ Becomes(p, [Idle EXCEPT !.phase = "start", !.user = u, !.channel = c])
  /\ UNCHANGED << calls, muddled >>

\* Whoever joins is no longer rung.
Joined(copy, u) ==
  [copy EXCEPT !.participants = @ \cup {u}, !.ringing = @ \ {u}, !.joined = @ \cup {u}]

Joins(p, u, c) ==
  Rewrites(p, u, c, << Save(c, Joined(call[c], u)), Bind(u, c), Card(c, call[c].id, "live") >>)

\* There is a call already: the caller joins it, unless they are on it.
StartJoins(p) ==
  LET u == proc[p].user
      c == proc[p].channel IN
  /\ proc[p].phase = "start" /\ call[c] # None
  /\ IF u \in call[c].participants
     THEN Becomes(p, Idle) /\ UNCHANGED << calls, muddled >>
     ELSE Joins(p, u, c)

StartFindsNone(p) ==
  LET u == proc[p].user
      c == proc[p].channel IN
  /\ proc[p].phase = "start" /\ call[c] = None
  /\ Takes(p, c)
  /\ Becomes(p, [proc[p] EXCEPT !.phase = "poll", !.ask = Members[c] \ {u}])
  /\ UNCHANGED calls

\* One await per member: whoever has a key of their own is busy.
StartPolls(p, m) ==
  /\ proc[p].phase = "poll" /\ m \in proc[p].ask
  /\ Becomes(p, [proc[p] EXCEPT !.ask = @ \ {m},
                                !.ring = IF bound[m] = None THEN @ \cup {m} ELSE @])
  /\ UNCHANGED << calls, muddled >>

\* Nobody can be rung, or the bound of the model is reached.
StartRefused(p) ==
  /\ proc[p].phase = "poll" /\ proc[p].ask = {}
  /\ proc[p].ring = {} \/ calls = MaxCalls
  /\ Becomes(p, Idle)
  /\ UNCHANGED << calls, muddled >>

\* The card is sent first, and may fail to be stored.
StartCreates(p) ==
  LET u == proc[p].user
      c == proc[p].channel
      n == calls + 1
      new == [ id |-> n, ringing |-> proc[p].ring, participants |-> {u}, joined |-> {u} ] IN
  /\ proc[p].phase = "poll" /\ proc[p].ask = {} /\ proc[p].ring # {}
  /\ calls < MaxCalls /\ calls' = n
  /\ cards' \in {cards, [cards EXCEPT ![<< c, n >>] = "live"]}
  /\ proc' = [proc EXCEPT ![p] = Writing(u, c, << Save(c, new), Bind(u, c) >>
                                              \o BindAll(new.ringing, c) \o << Arm(c, n) >>)]
  /\ UNCHANGED << redis, timers, muddled >>

(***************************************************************************)
(* accept                                                                  *)
(***************************************************************************)
Accepts(p, u, c) ==
  /\ Begins(p)
  /\ call[c] # None /\ u \in call[c].ringing
  /\ Joins(p, u, c)

(***************************************************************************)
(* leave, which serves decline, cancel, end and the disconnect             *)
(***************************************************************************)
\* Mutants: the call is kept without anybody; those rung stay bound; the card
\* says the call is over before it is.
LeaveNeverEnds(c, u, new) == << Unbind(u), Save(c, new), Card(c, new.id, "live") >>

LeaveKeepsRinging(c, u, new) ==
  IF new.participants = {}
  THEN << Unbind(u), Save(c, None), Card(c, new.id, "ended") >>
  ELSE << Unbind(u), Save(c, new), Card(c, new.id, "live") >>

LeaveEndsCardFirst(c, u, new) ==
  IF new.participants = {}
  THEN << Unbind(u), Card(c, new.id, "ended") >> \o Discard(c, new)
  ELSE << Unbind(u), Save(c, new), Card(c, new.id, "live") >>

\* The call is over when its last participant goes; those still rung for it
\* are released with it.
LeaveWrites(c, u, new) ==
  IF new.participants = {}
  THEN << Unbind(u) >> \o Discard(c, new) \o << Card(c, new.id, "ended") >>
  ELSE << Unbind(u), Save(c, new), Card(c, new.id, "live") >>

Leaves(p, u, c) ==
  LET new == [call[c] EXCEPT !.ringing = @ \ {u}, !.participants = @ \ {u}] IN
  IF call[c] = None
  THEN Rewrites(p, u, c, << Unbind(u) >>)
  ELSE /\ u \in call[c].ringing \cup call[c].participants
       /\ Rewrites(p, u, c, LeaveWrites(c, u, new))

LeavesNow(p, u, c) == Begins(p) /\ Leaves(p, u, c)

\* The last socket of u is gone: their key says which call to leave.
Disconnects(p, u) ==
  /\ Begins(p)
  /\ bound[u] # None
  /\ Becomes(p, [Idle EXCEPT !.phase = "leave", !.user = u, !.channel = bound[u]])
  /\ UNCHANGED << calls, muddled >>

DisconnectLeaves(p) ==
  LET u == proc[p].user
      c == proc[p].channel IN
  /\ proc[p].phase = "leave"
  /\ \/ Leaves(p, u, c)
     \/ /\ call[c] # None
        /\ u \notin call[c].ringing \cup call[c].participants
        /\ Becomes(p, Idle) /\ UNCHANGED << calls, muddled >>

(***************************************************************************)
(* expire_ringing, 30 seconds after the call was started                   *)
(***************************************************************************)
ExpireWrites(c, old) ==
  LET new == [old EXCEPT !.ringing = {}] IN
  UnbindAll(old.ringing) \o
    IF Cardinality(new.participants) <= 1
    THEN Discard(c, new) \o << Card(c, new.id, "ended") >>
    ELSE << Save(c, new), Card(c, new.id, "live") >>

\* A mutant: whatever call the channel has by now.
AnyRings(old, n) == old # None /\ old.ringing # {}

\* The call that was started then, and somebody is still rung for it.
StillRings(old, n) == old # None /\ old.id = n /\ old.ringing # {}

RingTimesOut(p, c, n) ==
  LET old == call[c] IN
  /\ Begins(p)
  /\ << c, n >> \in timers
  /\ timers' = timers \ {<< c, n >>}
  /\ IF StillRings(old, n)
     THEN /\ proc' = [proc EXCEPT ![p] = Writing(None, c, ExpireWrites(c, old))]
          /\ Takes(p, c)
     ELSE UNCHANGED << proc, muddled >>
  /\ UNCHANGED << redis, cards, calls >>

(***************************************************************************)
(* What may go wrong.                                                      *)
(***************************************************************************)

\* A command of Redis fails: the handler returns at once.  Before its first write
\* that leaves no trace.
GivesUp(p) ==
  /\ proc[p].phase = "write"
  /\ Becomes(p, Idle)
  /\ muddled' = muddled \cup {proc[p].channel}
  /\ UNCHANGED calls

\* The server is restarted: its handlers and timers are gone, Redis stays.
Restart ==
  /\ proc' = [p \in Processes |-> Idle]
  /\ timers' = {}
  /\ muddled' = muddled \cup {proc[p].channel : p \in {q \in Processes : proc[q].phase = "write"}}
  /\ UNCHANGED << redis, cards, calls >>

Handle(p) ==
  \/ StartJoins(p)
  \/ StartFindsNone(p)
  \/ \E m \in Users : StartPolls(p, m)
  \/ StartRefused(p)
  \/ StartCreates(p)
  \/ DisconnectLeaves(p)
  \/ Write(p)
  \/ GivesUp(p)

\* What a handler is called for: an event of a socket, a lost connection, a timer.
Receive(p, u, c) == StartReadsKey(p, u, c) \/ Accepts(p, u, c) \/ LeavesNow(p, u, c)

Times(p) == \E c \in Channels, n \in Ids : RingTimesOut(p, c, n)

Next ==
  \/ \E p \in Processes :
       \/ \E u \in Users, c \in Channels : Receive(p, u, c)
       \/ \E u \in Users : Disconnects(p, u)
       \/ Handle(p)
       \/ Times(p)
  \/ Restart

Spec == Init /\ [][Next]_vars

(***************************************************************************)
(* Types.                                                                  *)
(***************************************************************************)
Calls == [ id : Ids, ringing : SUBSET Users, participants : SUBSET Users,
           joined : SUBSET Users ]

ASSUME NoneAssumption == None \notin Channels \cup Calls

TypeOK ==
  /\ call   \in [Channels -> Calls \cup {None}]
  /\ bound  \in [Users -> Channels \cup {None}]
  /\ cards  \in [Channels \X Ids -> {"none", "live", "ended"}]
  /\ timers \subseteq Channels \X Ids
  /\ muddled \subseteq Channels
  /\ calls  \in 0..MaxCalls
  /\ \A p \in Processes : proc[p].phase \in {"idle", "start", "leave", "poll", "write"}

(***************************************************************************)
(* Safety.                                                                 *)
(***************************************************************************)

\* However the copies overwrite each other and wherever a handler stops, a call
\* in Redis has somebody on it, or no leave would ever end it; rings nobody who
\* is on it; and counts everybody on it among those who joined.
SomebodyOn ==
  \A c \in Channels : call[c] # None =>
    /\ call[c].participants # {}
    /\ call[c].participants \cap call[c].ringing = {}
    /\ call[c].participants \subseteq call[c].joined

(***************************************************************************)
(* Handlers of one call that overlap undo each other, and nothing in the   *)
(* code prevents it.  The rest is about the conversations in which none    *)
(* has: whatever goes on in the others, which share users, timers that     *)
(* outlive their call, failures and restarts, theirs is in order.          *)
(***************************************************************************)
InOrder == Channels \ muddled

AtRest(c) == ~ \E p \in Processes : Holds(p, c)

\* "You are already on a call" is only said to those who are on one, or rung
\* for one: a user's key names a call they are in.
BusyMeansOnCall ==
  \A c \in InOrder : AtRest(c) =>
    \A u \in Users : bound[u] = c =>
      /\ call[c] # None
      /\ u \in call[c].ringing \cup call[c].participants

\* A card with an endedAt is of a call that is over: at no moment can it still
\* be joined.
EndedMeansOver ==
  \A c \in InOrder : call[c] # None => cards[<< c, call[c].id >>] # "ended"

\* A ring goes on until it is answered or declined by the one who is rung, or
\* the last who is on the call leaves, or the timer of this very call fires.
Rung(c) == IF call[c] = None THEN {} ELSE call[c].ringing

RingsOut ==
  [][ \A c \in InOrder, u \in Users :
        /\ u \in Rung(c) /\ u \notin Rung(c)'
        /\ << c, call[c].id >> \in timers
        => \E p \in Processes :
             /\ Holds(p, c)
             /\ proc[p].user = u \/ call[c].participants = {proc[p].user} ]_vars

(***************************************************************************)
(* What the documentation says of the card and two handlers break: joined  *)
(* is "everyone who was ever connected".                                   *)
(***************************************************************************)
JoinedOnlyGrows ==
  [][ \A c \in Channels :
        call[c] # None /\ call'[c] # None /\ call[c].id = call'[c].id
          => call[c].joined \subseteq call'[c].joined ]_vars
=============================================================================
