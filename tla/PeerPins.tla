------------------------------ MODULE PeerPins ------------------------------
(***************************************************************************)
(* What one client remembers of one contact's device log: the pin of       *)
(* features/e2ee/identity.ts, kept in IndexedDB, and the alarms it raises  *)
(* when the server shows it a log that contradicts the pin.                *)
(*                                                                         *)
(* The server is an honest one: the log grows at its end, and it starts    *)
(* over only when the contact has erased their keys and enrolled again.    *)
(* Every alarm but "identity-changed" is therefore a false one.            *)
(*                                                                         *)
(* The client is single-threaded, but each of its operations awaits the    *)
(* network and IndexedDB several times, and a page of messages is          *)
(* decrypted by one call per message, all at once (decryptMessages): with  *)
(* two tasks, what one has read the other may overwrite.                   *)
(***************************************************************************)
EXTENDS Integers, FiniteSets

CONSTANTS
  Tasks,    (* operations that may be in progress at the same time         *)
  MaxGen,   (* bound of the model: identities the contact ever founds      *)
  MaxLen,   (* bound of the model: entries of a log                        *)
  None      (* no pin                                                      *)

ASSUME BoundsAssumption == MaxGen \in Nat /\ MaxLen \in Nat \ {0}

VARIABLES
  gen, len,    (* the contact's log: which identity, how many entries      *)
  heads,       (* heads the log ever had; messages that carry them stay    *)
  pin,         (* the record of the contact in the store of pins           *)
  alerts,      (* kinds of the alerts on the screen                        *)
  confirmed,   (* identities the user compared with the contact in person  *)
  task,        (* what each operation has read, and the await it is at     *)
  loose        (* history: the pin was missing while two operations were   *)
               (* under way, and what they make of it has not settled yet  *)

server == << gen, len, heads >>
vars   == << server, pin, alerts, confirmed, task, loose >>

(***************************************************************************)
(* A log is known by its identity and its length: a hash commits to all    *)
(* that precedes it, so equal positions of one identity hold equal hashes, *)
(* and positions of two identities never do.                               *)
(***************************************************************************)
Gens  == 1..MaxGen
Logs  == [ gen : 0..MaxGen, len : 0..MaxLen ]
Heads == [ gen : Gens, seq : 0..MaxLen - 1 ]
Pins  == [ gen : Gens, len : 1..MaxLen, verified : BOOLEAN ]
Kinds == {"identity-changed", "log-rollback", "log-fork", "log-omission"}

ASSUME NoneIsNoPin == None \notin Pins

Log   == [ gen |-> gen, len |-> len ]
NoLog == [ gen |-> 0, len |-> 0 ]

Idle == [ op |-> "none", phase |-> "idle", devices |-> NoLog, list |-> NoLog,
          verified |-> FALSE, old |-> None, head |-> None, code |-> 0 ]

Init ==
  /\ gen = 0 /\ len = 0 /\ heads = {}
  /\ pin = None
  /\ alerts = {} /\ confirmed = {}
  /\ task = [t \in Tasks |-> Idle]
  /\ loose = FALSE

(***************************************************************************)
(* The contact's account, as DeviceLog and KeyErasure change it.           *)
(***************************************************************************)
LogBecomes(g, n) ==
  /\ gen' = g /\ len' = n
  /\ heads' = heads \cup (IF n = 0 THEN {} ELSE {[ gen |-> g, seq |-> n - 1 ]})
  /\ UNCHANGED << pin, alerts, confirmed, task >>

Enrols == len = 0 /\ gen < MaxGen /\ LogBecomes(gen + 1, 1)

Grows == len \in 1..MaxLen - 1 /\ LogBecomes(gen, len + 1)

Erases == len # 0 /\ LogBecomes(gen, 0)

(***************************************************************************)
(* Building blocks of the operations.                                      *)
(***************************************************************************)
In(t, phase) == task[t].phase = phase

Goto(t, phase) == [task[t] EXCEPT !.phase = phase]

Becomes(t, state) ==
  /\ task' = [task EXCEPT ![t] = state]
  /\ UNCHANGED << server, pin, alerts, confirmed >>

\* A read of the pin, or of the server, and what it decides.
Reads(t, state) == Becomes(t, state)

Writes(t, p, state) ==
  /\ pin' = p
  /\ task' = [task EXCEPT ![t] = state]
  /\ UNCHANGED << server, alerts, confirmed >>

Alarms(t, kind, state) ==
  /\ alerts' = alerts \cup {kind}
  /\ task' = [task EXCEPT ![t] = state]
  /\ UNCHANGED << server, pin, confirmed >>

\* What an operation does when resolvePeer throws: acceptIdentityChange puts
\* the pin it dropped back, the others give up.  A mutant: so does it.
ThrownForGood(t) == Idle

Thrown(t) ==
  IF task[t].op = "accept" /\ task[t].old # None THEN Goto(t, "restore") ELSE Idle

(***************************************************************************)
(* The operations begin.                                                   *)
(***************************************************************************)

\* A message of the contact is opened, or a key is wrapped for them.
Open(t) ==
  /\ In(t, "idle")
  /\ Becomes(t, [Idle EXCEPT !.op = "open", !.phase = "devices"])

\* checkGossip: a message carries a head somebody saw when they wrote it.
Gossip(t, head) ==
  /\ In(t, "idle")
  /\ Becomes(t, [Idle EXCEPT !.op = "gossip", !.phase = "look", !.head = head])

\* acceptIdentityChange: the button of the alert, disabled while it works.
Accept(t) ==
  /\ In(t, "idle") /\ "identity-changed" \in alerts
  /\ \A u \in Tasks : task[u].op # "accept"
  /\ Becomes(t, [Idle EXCEPT !.op = "accept", !.phase = "old"])

\* acceptScannedContact: the contact shows the code of their own identity.
Scan(t) ==
  /\ In(t, "idle") /\ len # 0
  /\ confirmed' = confirmed \cup {gen}
  /\ task' = [task EXCEPT ![t] =
                [Idle EXCEPT !.op = "scan", !.phase = "devices", !.code = gen]]
  /\ UNCHANGED << server, pin, alerts >>

\* VerifyDialog: a number is made of the pin, and stays on the screen.
Shows(t) ==
  /\ In(t, "idle") /\ pin # None
  /\ Becomes(t, [Idle EXCEPT !.op = "compare", !.phase = "shown", !.code = pin.gen])

\* SafetyNumberCheck: that number is the one the contact reads out, so the peer
\* is marked as verified.
Compare(t) ==
  /\ In(t, "shown") /\ len # 0 /\ task[t].code = gen
  /\ confirmed' = confirmed \cup {gen}
  /\ task' = [task EXCEPT ![t].phase = "mark"]
  /\ UNCHANGED << server, pin, alerts >>

\* The dialog is closed.
Closes(t) == In(t, "shown") /\ Becomes(t, Idle)

Unverify(t) ==
  /\ In(t, "idle")
  /\ Becomes(t, [Idle EXCEPT !.op = "unverify", !.phase = "mark"])

\* "I understand".
Dismiss(kind) ==
  /\ kind \in alerts
  /\ alerts' = alerts \ {kind}
  /\ UNCHANGED << server, pin, confirmed, task >>

(***************************************************************************)
(* resolvePeer                                                             *)
(***************************************************************************)

\* The server lists the Device rows first ...
ReadsDevices(t) ==
  /\ In(t, "devices")
  /\ Reads(t, [Goto(t, "log") EXCEPT !.devices = Log])

\* ... and the entries after that.  verifyList replays the entries over the
\* rows: an entry that adds a device the rows do not have yet makes it throw,
\* one that revokes a device does not.
ListVerifies(t) ==
  IF task[t].devices = Log THEN {len # 0}
  ELSE IF task[t].devices.gen = gen /\ len # 0 /\ task[t].devices.len # 0
       THEN BOOLEAN ELSE {FALSE}

ReadsLog(t) ==
  /\ In(t, "log")
  /\ \E ok \in ListVerifies(t) :
       Reads(t, IF ok THEN [Goto(t, "check") EXCEPT !.list = Log] ELSE Thrown(t))

FetchFails(t) ==
  /\ task[t].phase \in {"devices", "log"}
  /\ Reads(t, Thrown(t))

\* checkAgainstPin.  The comparison of the hashes one by one, that comes last,
\* finds no difference in a log of the same identity that is long enough.
\* Mutants: the identity is not compared; a log that grew counts as another one.
LengthOnly(p, list) == IF p.len > list.len THEN "log-rollback" ELSE "agrees"

ChangeIfLonger(p, list) == IF p.len # list.len THEN "identity-changed" ELSE "agrees"

Verdict(p, list) ==
  IF p.gen # list.gen THEN "identity-changed"
  ELSE IF p.len > list.len THEN "log-rollback" ELSE "agrees"

Checks(t) ==
  LET verdict == IF pin = None THEN "agrees" ELSE Verdict(pin, task[t].list) IN
  /\ In(t, "check")
  /\ IF verdict = "agrees" THEN Reads(t, Goto(t, "reread"))
     ELSE Alarms(t, verdict, Thrown(t))

\* A mutant: an accepted identity keeps the verifiedAt of the pin it replaces.
RereadsOldPin(t) ==
  LET known == IF task[t].old # None THEN task[t].old ELSE pin IN
  /\ In(t, "reread")
  /\ Reads(t, [Goto(t, "put") EXCEPT !.verified = known # None /\ (known # None => known.verified)])

\* The pin is read once more, for its verifiedAt.
RereadsPin(t) ==
  /\ In(t, "reread")
  /\ Reads(t, [Goto(t, "put") EXCEPT !.verified = IF pin = None THEN FALSE ELSE pin.verified])

\* A mutant: the seq of the head where the number of entries is meant.
SeqPinned(t) == [ gen |-> task[t].list.gen, len |-> task[t].list.len - 1,
                  verified |-> task[t].verified ]

NewPin(t) == [ gen |-> task[t].list.gen, len |-> task[t].list.len,
               verified |-> task[t].verified ]

\* The pin is written, and the operation that asked for it goes on.
PutsPin(t) ==
  /\ In(t, "put")
  /\ pin' = NewPin(t)
  /\ \/ /\ task[t].op = "open"
        /\ task' = [task EXCEPT ![t] = Idle]
        /\ UNCHANGED alerts
     \/ /\ task[t].op = "gossip"
        /\ task' = [task EXCEPT ![t].phase = "again"]
        /\ UNCHANGED alerts
     \/ /\ task[t].op = "accept"
        /\ task' = [task EXCEPT ![t] = Idle]
        /\ alerts' = alerts \ {"identity-changed"}
     \/ /\ task[t].op = "scan" /\ task[t].code = task[t].list.gen
        /\ task' = [task EXCEPT ![t].phase = "mark"]
        /\ UNCHANGED alerts
     \/ /\ task[t].op = "scan" /\ task[t].code # task[t].list.gen
        /\ task' = [task EXCEPT ![t] = Idle]
        /\ alerts' = alerts \cup {"identity-changed"}
  /\ UNCHANGED << server, confirmed >>

(***************************************************************************)
(* checkGossip, around resolvePeer                                         *)
(***************************************************************************)
GossipVerdict(head, p) ==
  IF head.seq >= p.len THEN "ahead" ELSE IF head.gen = p.gen THEN "agrees" ELSE "fork"

LooksAtPin(t) ==
  LET verdict == IF pin = None THEN "agrees" ELSE GossipVerdict(task[t].head, pin) IN
  /\ In(t, "look")
  /\ \/ verdict = "agrees" /\ Reads(t, Idle)
     \/ verdict = "ahead"  /\ Reads(t, Goto(t, "devices"))
     \/ verdict = "fork"   /\ Alarms(t, "log-fork", Idle)

LooksAgain(t) ==
  LET verdict == IF pin = None THEN "ahead" ELSE GossipVerdict(task[t].head, pin) IN
  /\ In(t, "again")
  /\ \/ verdict = "agrees" /\ Reads(t, Idle)
     \/ verdict = "ahead"  /\ Alarms(t, "log-omission", Idle)
     \/ verdict = "fork"   /\ Alarms(t, "log-fork", Idle)

(***************************************************************************)
(* acceptIdentityChange, around resolvePeer                                *)
(***************************************************************************)
ReadsOldPin(t) ==
  /\ In(t, "old")
  /\ Reads(t, [Goto(t, "drop") EXCEPT !.old = pin])

DropsPin(t) ==
  /\ In(t, "drop")
  /\ Writes(t, None, Goto(t, "devices"))

RestoresPin(t) ==
  /\ In(t, "restore")
  /\ Writes(t, task[t].old, Idle)

(***************************************************************************)
(* markVerified and clearVerified: the record is read, and written back    *)
(* with another verifiedAt.                                                *)
(***************************************************************************)
ReadsMarked(t) ==
  /\ In(t, "mark")
  /\ Reads(t, IF pin = None THEN Idle ELSE [Goto(t, "markput") EXCEPT !.old = pin])

PutsMarked(t) ==
  /\ In(t, "markput")
  /\ Writes(t, [task[t].old EXCEPT !.verified = task[t].op # "unverify"], Idle)

\* The page is closed or reloaded: only IndexedDB stays.
Reload ==
  /\ task' = [t \in Tasks |-> Idle]
  /\ alerts' = {}
  /\ UNCHANGED << server, pin, confirmed >>

Account == Enrols \/ Grows \/ Erases

User(t) ==
  \/ Open(t)
  \/ \E head \in heads : Gossip(t, head)
  \/ Accept(t)
  \/ Scan(t)
  \/ Shows(t)
  \/ Compare(t)
  \/ Closes(t)
  \/ Unverify(t)

Resolve(t) ==
  \/ ReadsDevices(t)
  \/ ReadsLog(t)
  \/ FetchFails(t)
  \/ Checks(t)
  \/ RereadsPin(t)
  \/ PutsPin(t)

Around(t) ==
  \/ LooksAtPin(t)
  \/ LooksAgain(t)
  \/ ReadsOldPin(t)
  \/ DropsPin(t)
  \/ RestoresPin(t)
  \/ ReadsMarked(t)
  \/ PutsMarked(t)

Step ==
  \/ Account
  \/ \E t \in Tasks : User(t) \/ Resolve(t) \/ Around(t)
  \/ \E kind \in Kinds : Dismiss(kind)
  \/ Reload

(***************************************************************************)
(* What the history variable records.                                      *)
(***************************************************************************)
Busy(t) == task[t].phase # "idle"

\* The contact counts as verified, with an identity nobody compared.
Unearned == pin # None /\ (pin # None => pin.verified /\ pin.gen \notin confirmed)

Unpinned == pin = None /\ \E t, u \in Tasks : t # u /\ Busy(t) /\ Busy(u)

Settled == ~ Unearned /\ \A t \in Tasks : ~ Busy(t)

Watch == loose' = (Unpinned' \/ (loose /\ ~ Settled'))

Next == Step /\ Watch

Spec == Init /\ [][Next]_vars

(***************************************************************************)
(* Types.                                                                  *)
(***************************************************************************)
Phases == {"idle", "devices", "log", "check", "reread", "put", "look", "again",
           "old", "drop", "restore", "shown", "mark", "markput"}

States == [ op       : {"none", "open", "gossip", "accept", "scan", "compare", "unverify"},
            phase    : Phases,
            devices  : Logs,
            list     : Logs,
            verified : BOOLEAN,
            old      : Pins \cup {None},
            head     : Heads \cup {None},
            code     : 0..MaxGen ]

\* Every variable holds the kind of value its table, store or local holds.
TypeOK ==
  /\ Log \in Logs /\ heads \subseteq Heads
  /\ pin \in Pins \cup {None}
  /\ alerts \subseteq Kinds /\ confirmed \subseteq Gens
  /\ task \in [Tasks -> States]
  /\ loose \in BOOLEAN

(***************************************************************************)
(* What holds of any number of operations.  The first pin of a contact is  *)
(* trust on first use: two operations that both find none may each pin     *)
(* what they were shown, and one that began before the pin was dropped may *)
(* write over the one that replaced it.  `loose' says when that can be;    *)
(* TLC refutes the first two without it.                                   *)
(***************************************************************************)

\* A pin is verified only if its very identity was compared in person: of an
\* accepted change nothing is left of the verification, whatever fails halfway,
\* and a number is not held for one of a pin it was not made of.
VerifiedIsEarned == loose \/ ~ Unearned

\* Once a commitment is pinned it gives way to another one only by being
\* dropped, however the writes of the operations on it interleave.
PinnedIdentityStays ==
  [][ ~ loose /\ pin # None /\ pin' # None => pin'.gen = pin.gen ]_vars

\* An acceptance that fails, or that is overtaken, leaves the contact pinned:
\* while the alert is up, a pin is missing only in the middle of one, that has it.
PinIsNotLost ==
  "identity-changed" \in alerts /\ pin = None =>
    \E t \in Tasks : task[t].op = "accept" /\ task[t].old # None

\* A contact who never started over is accused of no other identity and of no
\* second history, in whichever order the answers come in.
KeptIdentityIsTrusted ==
  gen <= 1 => alerts \cap {"identity-changed", "log-fork"} = {}

(***************************************************************************)
(* What the documentation says of the other alerts.                        *)
(***************************************************************************)

\* An honest server is never accused of a history that went backwards.
NoRollback == "log-rollback" \notin alerts

\* Nor of showing two histories, even when the contact did start over.
NoFork == "log-fork" \notin alerts
=============================================================================
