------------------------------ MODULE DeviceLog ------------------------------
(***************************************************************************)
(* The device log of one account: enrolment of the genesis device,         *)
(* authorization of further devices behind a transfer grant, and           *)
(* revocation (services/e2ee.rs), driven by the official client            *)
(* (features/e2ee/identity.ts).                                            *)
(*                                                                         *)
(* The server takes no lock.  A handler reads the Device rows, reads the   *)
(* head of the log, and only then opens the transaction that writes both;  *)
(* every await is a place where another handler may commit.  What makes    *)
(* this safe is the hash chain: the signed entry names its predecessor,    *)
(* the handler compares that name with the head, and the unique index      *)
(* (userId, seq) catches whatever commits after the comparison.            *)
(*                                                                         *)
(* All tables are keyed by userId, so one account is the whole story.      *)
(* Erasure of the keys, which deletes rows, is added by KeyErasure.        *)
(***************************************************************************)
EXTENDS Integers, FiniteSets

CONSTANTS
  Handlers,    (* executions of the three POST handlers                    *)
  Transfers,   (* transfer ids, each of one device waiting to be added     *)
  MaxDevices,  (* MAX_DEVICES_PER_USER                                     *)
  MaxGrants,   (* bound of the model: transfer grants ever issued          *)
  None         (* a null hash, signer or transfer                          *)

ASSUME MaxDevicesAssumption == MaxDevices \in Nat \ {0}
ASSUME MaxGrantsAssumption  == MaxGrants \in Nat
ASSUME NoneAssumption       == None \notin Handlers \cup Transfers

VARIABLES
  log,         (* DeviceLogEntry rows                                      *)
  enrolled,    (* ids of the Device rows                                   *)
  revoked,     (* ids of those whose revokedAt is set                      *)
  grant,       (* e2ee:grant:{user}:{transfer} in Redis, 0 when absent     *)
  issued,      (* grants issued so far: every token is fresh               *)
  stmt,        (* the signed statement each handler was sent               *)
  pc,          (* the await each handler is at                             *)
  seq          (* the seq each handler computed from the head it read      *)

db      == << log, enrolled, revoked >>
grants  == << grant, issued >>
vars    == << log, enrolled, revoked, grant, issued, stmt, pc, seq >>

(***************************************************************************)
(* A statement is what the client signs, with the id the server knows the  *)
(* hash of its log entry by.  The hash commits to the predecessor and to   *)
(* the payload, so two statements with one hash are the same statement.    *)
(* A handler that enrols a device gives the row a fresh id: its own name.  *)
(***************************************************************************)
Kinds      == {"genesis", "add-device", "revoke"}
NullHash   == Handlers \cup {None}
Statements == [ kind     : Kinds,
                hash     : Handlers,
                prev     : NullHash,
                signer   : NullHash,
                target   : NullHash,
                transfer : Transfers \cup {None},
                token    : 0..MaxGrants ]

Rows == [ seq    : Nat,
          kind   : Kinds,
          hash   : Handlers,
          prev   : NullHash,
          signer : Handlers,
          device : Handlers,
          token  : 0..MaxGrants ]

Unsent == [ kind |-> "genesis", hash |-> None, prev |-> None, signer |-> None,
            target |-> None, transfer |-> None, token |-> 0 ]

Active == enrolled \ revoked

(***************************************************************************)
(* The head of the log and the comparison of check_chain: an empty log     *)
(* takes an entry without predecessor, any other log takes an entry that   *)
(* names its head.                                                         *)
(***************************************************************************)
IsHead(r) == r \in log /\ \A q \in log : q.seq <= r.seq

Head == CHOOSE r \in log : IsHead(r)

HeadHash == IF log = {} THEN None ELSE Head.hash

\* A mutant: one too few.
NextSeqOfHead == IF log = {} THEN -1 ELSE Head.seq

NextSeq == IF log = {} THEN 0 ELSE Head.seq + 1

\* A mutant: the comparison with the head left out.
ChainUnchecked(prev) == TRUE

ChainAccepts(prev) == prev = HeadHash

(***************************************************************************)
(* Building blocks of the handlers.                                        *)
(***************************************************************************)
At(h, label) == pc[h] = label

Goto(h, label) == pc' = [pc EXCEPT ![h] = label]

(* An early return: the handler answers and touches nothing more.          *)
Answer(h, label) ==
  /\ Goto(h, label)
  /\ UNCHANGED << db, grants, stmt, seq >>

(* A read that only decides where the handler goes next.                   *)
ReadThen(h, ok, label) == Answer(h, IF ok THEN label ELSE "refused")

Init ==
  /\ log      = {}
  /\ enrolled = {}
  /\ revoked  = {}
  /\ grant    = [t \in Transfers |-> 0]
  /\ issued   = 0
  /\ stmt     = [h \in Handlers |-> Unsent]
  /\ pc       = [h \in Handlers |-> "unsent"]
  /\ seq      = [h \in Handlers |-> 0]

(***************************************************************************)
(* Transfer grants.                                                        *)
(***************************************************************************)

\* The second factor was given: a fresh token under the transfer's key,
\* replacing the one there was.
IssueGrant(t) ==
  /\ issued < MaxGrants
  /\ issued' = issued + 1
  /\ grant'  = [grant EXCEPT ![t] = issued + 1]
  /\ UNCHANGED << db, stmt, pc, seq >>

\* The 60 seconds of GRANT_TTL_SECONDS are over.
GrantExpires(t) ==
  /\ grant[t] # 0
  /\ grant' = [grant EXCEPT ![t] = 0]
  /\ UNCHANGED << db, issued, stmt, pc, seq >>

(***************************************************************************)
(* The client: it fetches the device list, verifies it, and signs an entry *)
(* on top of the head the list came with.                                  *)
(***************************************************************************)
Post(h, s) ==
  /\ At(h, "unsent")
  /\ stmt' = [stmt EXCEPT ![h] = s]
  /\ Goto(h, "posted")
  /\ UNCHANGED << db, grants, seq >>

\* enrol(): only when the list shows no active device; prevHash is always
\* null, whatever the log holds.
PostGenesis(h) ==
  /\ Active = {}
  /\ Post(h, [ kind |-> "genesis", hash |-> h, prev |-> None, signer |-> None,
               target |-> None, transfer |-> None, token |-> 0 ])

\* authorizeNewDevice(): signed by a device that was enrolled, which need not
\* have noticed its own revocation.
PostAddDevice(h, signer, t, token) ==
  /\ Post(h, [ kind |-> "add-device", hash |-> h, prev |-> HeadHash,
               signer |-> signer, target |-> None,
               transfer |-> t, token |-> token ])

\* revoke(): the settings page offers every device but this one, from a list
\* that may be out of date.
PostRevoke(h, signer, target) ==
  /\ signer # target
  /\ Post(h, [ kind |-> "revoke", hash |-> h, prev |-> HeadHash,
               signer |-> signer, target |-> target,
               transfer |-> None, token |-> 0 ])

\* The api wrapper answers a 401 by refreshing the session and sending the
\* same body once more; an expired or used grant is a 401.
Resend(h, again) ==
  /\ At(h, "unauthorized")
  /\ Post(again, stmt[h])

(***************************************************************************)
(* enroll_genesis                                                          *)
(***************************************************************************)
GenesisReadsDevices(h) ==
  /\ At(h, "posted") /\ stmt[h].kind = "genesis"
  /\ ReadThen(h, Active = {}, "head")

(***************************************************************************)
(* add_device                                                              *)
(***************************************************************************)
\* Mutants: a revoked device may sign; one device more than the limit.
AddUnchecked(s) == stmt[s].signer \in enrolled /\ Cardinality(Active) < MaxDevices

AddOneTooMany(s) == stmt[s].signer \in Active /\ Cardinality(Active) <= MaxDevices

AddAllowed(h) == stmt[h].signer \in Active /\ Cardinality(Active) < MaxDevices

AddReadsDevices(h) ==
  /\ At(h, "posted") /\ stmt[h].kind = "add-device"
  /\ ReadThen(h, AddAllowed(h), "grant")

\* consume_transfer_grant, first await: the record is there and it matches.
AddReadsGrant(h) ==
  /\ At(h, "grant")
  /\ Answer(h, IF grant[stmt[h].transfer] = stmt[h].token /\ stmt[h].token # 0
               THEN "take" ELSE "unauthorized")

\* A mutant: GET where GETDEL is meant.
AddKeepsGrant(h) ==
  /\ At(h, "take")
  /\ Answer(h, IF grant[stmt[h].transfer] = stmt[h].token THEN "head" ELSE "unauthorized")

\* consume_transfer_grant, second await: GETDEL removes whatever is there now
\* and succeeds only if that is still what the first await returned.
AddTakesGrant(h) ==
  LET t == stmt[h].transfer IN
  /\ At(h, "take")
  /\ Goto(h, IF grant[t] = stmt[h].token THEN "head" ELSE "unauthorized")
  /\ grant' = [grant EXCEPT ![t] = 0]
  /\ UNCHANGED << db, issued, stmt, seq >>

(***************************************************************************)
(* revoke_device                                                           *)
(***************************************************************************)
RevokeReadsTarget(h) ==
  /\ At(h, "posted") /\ stmt[h].kind = "revoke"
  /\ ReadThen(h, stmt[h].target \in Active, "signer")

RevokeReadsSigner(h) ==
  /\ At(h, "signer")
  /\ ReadThen(h, stmt[h].signer \in Active, "head")

(***************************************************************************)
(* The end of all three: compare with the head, then insert both rows in   *)
(* one transaction.                                                        *)
(***************************************************************************)
ReadsHead(h) ==
  /\ At(h, "head")
  /\ Goto(h, IF ChainAccepts(stmt[h].prev) THEN "insert" ELSE "refused")
  /\ seq' = [seq EXCEPT ![h] = NextSeq]
  /\ UNCHANGED << db, grants, stmt >>

SeqTaken(s) == \E r \in log : r.seq = s

Row(h, signer, device) ==
  [ seq |-> seq[h], kind |-> stmt[h].kind, hash |-> stmt[h].hash,
    prev |-> stmt[h].prev, signer |-> signer, device |-> device,
    token |-> stmt[h].token ]

\* The unique index (userId, seq) refuses the second entry of a seq, and the
\* transaction rolls back with it.
SeqConflict(h) ==
  /\ At(h, "insert")
  /\ SeqTaken(seq[h])
  /\ Answer(h, "refused")

InsertDevice(h) ==
  /\ At(h, "insert") /\ stmt[h].kind # "revoke"
  /\ ~ SeqTaken(seq[h])
  /\ log' = log \cup {Row(h, IF stmt[h].kind = "genesis" THEN h ELSE stmt[h].signer, h)}
  /\ enrolled' = enrolled \cup {h}
  /\ Goto(h, "done")
  /\ UNCHANGED << revoked, grants, stmt, seq >>

\* A mutant: the row of the signer is updated.
RevokesSigner(h) ==
  /\ At(h, "insert") /\ stmt[h].kind = "revoke"
  /\ ~ SeqTaken(seq[h])
  /\ log' = log \cup {Row(h, stmt[h].signer, stmt[h].target)}
  /\ revoked' = revoked \cup ({stmt[h].signer} \cap enrolled)
  /\ Goto(h, "done")
  /\ UNCHANGED << enrolled, grants, stmt, seq >>

\* A mutant: the entries of the revoked device go with it.
RevocationPrunes(h) ==
  /\ At(h, "insert") /\ stmt[h].kind = "revoke"
  /\ ~ SeqTaken(seq[h])
  /\ log' = {r \in log : r.device # stmt[h].target}
                \cup {Row(h, stmt[h].signer, stmt[h].target)}
  /\ revoked' = revoked \cup ({stmt[h].target} \cap enrolled)
  /\ Goto(h, "done")
  /\ UNCHANGED << enrolled, grants, stmt, seq >>

InsertRevocation(h) ==
  /\ At(h, "insert") /\ stmt[h].kind = "revoke"
  /\ ~ SeqTaken(seq[h])
  /\ log' = log \cup {Row(h, stmt[h].signer, stmt[h].target)}
  /\ revoked' = revoked \cup ({stmt[h].target} \cap enrolled)
  /\ Goto(h, "done")
  /\ UNCHANGED << enrolled, grants, stmt, seq >>

Server(h) ==
  \/ GenesisReadsDevices(h)
  \/ AddReadsDevices(h)
  \/ AddReadsGrant(h)
  \/ AddTakesGrant(h)
  \/ RevokeReadsTarget(h)
  \/ RevokeReadsSigner(h)
  \/ ReadsHead(h)
  \/ SeqConflict(h)
  \/ InsertDevice(h)
  \/ InsertRevocation(h)

Client(h) ==
  \/ PostGenesis(h)
  \/ \E signer \in enrolled, t \in Transfers, token \in 1..issued :
        PostAddDevice(h, signer, t, token)
  \/ \E signer, target \in enrolled : PostRevoke(h, signer, target)
  \/ \E again \in Handlers : Resend(h, again)

Next ==
  \/ \E h \in Handlers : Server(h) \/ Client(h)
  \/ \E t \in Transfers : IssueGrant(t) \/ GrantExpires(t)

Spec == Init /\ [][Next]_vars

(***************************************************************************)
(* Types.                                                                  *)
(***************************************************************************)
Labels == {"unsent", "posted", "grant", "take", "signer", "head", "insert",
           "done", "refused", "unauthorized"}

\* Every variable holds the kind of value its table, key or local holds.
TypeOK ==
  /\ log      \subseteq Rows
  /\ enrolled \subseteq Handlers
  /\ revoked  \subseteq enrolled
  /\ grant    \in [Transfers -> 0..MaxGrants]
  /\ issued   \in 0..MaxGrants
  /\ stmt     \in [Handlers -> Statements \cup {Unsent}]
  /\ pc       \in [Handlers -> Labels]
  /\ seq      \in [Handlers -> Nat]

(***************************************************************************)
(* Safety.                                                                 *)
(***************************************************************************)

\* docs/E2EE.md calls seq "per-user, gapless, append-only" and prevHash "null
\* only at seq 0": however many handlers race, the entries form one unbroken
\* chain from the genesis entry.
OneChain ==
  /\ \A r, q \in log : r.seq = q.seq => r = q
  /\ \A r \in log :
       IF r.seq = 0
       THEN r.prev = None
       ELSE \E q \in log : q.seq = r.seq - 1 /\ q.hash = r.prev

\* d had been enrolled, and not revoked, when the log was s entries long.
AuthorizedAt(d, s) ==
  /\ \E q \in log : q.seq < s /\ q.kind # "revoke" /\ q.device = d
  /\ \A q \in log : q.seq < s => ~ (q.kind = "revoke" /\ q.device = d)

\* Every entry after the first is signed by a device that was authorized at
\* that point of the log.  The handler saw the signer active long before it
\* inserted the row; a revocation committed in between must have stopped it.
SignedByAuthorized ==
  \A r \in log : r.kind # "genesis" => AuthorizedAt(r.signer, r.seq)

\* Two devices that revoke each other at the same moment, or a revocation
\* racing the last other one, never leave the account without a device that
\* can sign: nothing could ever be appended to its log again.
SomeDeviceLeft == log # {} => Active # {}

\* The limit on active devices survives any number of concurrent additions.
DeviceLimit == Cardinality(Active) <= MaxDevices

\* One second-factor code adds at most one device, though the grant is read
\* and deleted in two steps and the client sends a refused request again.
OneDevicePerGrant ==
  \A r, q \in log :
    r.kind = "add-device" /\ q.kind = "add-device" /\ r.token = q.token => r = q

\* The Device rows say what replaying the log says, which is how a client
\* checks them (verifyIdentity): no device without its entry, no revocation
\* without its entry, and the other way around.
RowsMatchLog ==
  /\ enrolled = {r.device : r \in {q \in log : q.kind # "revoke"}}
  /\ revoked  = {r.device : r \in {q \in log : q.kind = "revoke"}}

\* A signed entry is accepted at most once, whatever is sent again.
AcceptedOnce == \A r, q \in log : r.hash = q.hash => r = q

\* The log only grows, at its end: no step removes or rewrites an entry, and
\* a new one comes after all that clients may have pinned.
AppendOnly ==
  [][ /\ log \subseteq log'
      /\ \A r \in log' \ log : \A q \in log : q.seq < r.seq ]_vars

(***************************************************************************)
(* Refinement: though the handlers interleave, the devices change as if    *)
(* every request were decided and carried out in one step, its insertion.  *)
(***************************************************************************)
Registry == INSTANCE DeviceRegistry WITH Devices <- Handlers

ImplementsRegistry == Registry!Spec

(***************************************************************************)
(* The inductive invariant.  The properties above are not inductive: they  *)
(* depend on what the statements in flight were signed on, and on what the *)
(* handlers have read of tables that have moved on since.                  *)
(***************************************************************************)

\* The entries are numbered from 0 without a gap, up to a last one.
Dense ==
  /\ log # {} => \E r \in log : IsHead(r)
  /\ \A r \in log : \A s \in 0..r.seq : SeqTaken(s)

\* A hash names one statement; a resent one keeps the hash it was signed with.
OneStatementPerHash ==
  \A h \in Handlers :
    /\ stmt[h].hash = None <=> pc[h] = "unsent"
    /\ stmt[h].hash # None => stmt[stmt[h].hash] = stmt[h]

\* A statement names a predecessor that is in the log, or starts one.
SignedOnTheLog ==
  \A h \in Handlers : pc[h] # "unsent" =>
    IF stmt[h].kind = "genesis"
    THEN stmt[h].prev = None
    ELSE \E q \in log : q.hash = stmt[h].prev

\* A row carries the statement of the request it came from.
RowsCarryStatements ==
  \A r \in log :
    /\ r.hash \in Handlers
    /\ stmt[r.hash].hash = r.hash
    /\ stmt[r.hash].prev = r.prev
    /\ r.kind # "revoke" => /\ pc[r.device] = "done"
                            /\ stmt[r.device].kind = r.kind
                            /\ stmt[r.device].hash = r.hash
                            /\ stmt[r.device].token = r.token

\* The label of a handler tells which of the three it runs.
LabelsMatchKinds ==
  \A h \in Handlers :
    /\ pc[h] \in {"grant", "take"} => stmt[h].kind = "add-device"
    /\ pc[h] = "signer" => stmt[h].kind = "revoke"
    /\ pc[h] # "unsent" /\ stmt[h].kind # "genesis" => stmt[h].signer \in Handlers
    /\ pc[h] # "unsent" /\ stmt[h].kind = "revoke" =>
          stmt[h].target \in Handlers \ {stmt[h].signer}
    /\ stmt[h].kind = "add-device" => stmt[h].transfer \in Transfers

\* What a handler read of the devices still holds for as long as its statement
\* names the head: that is what makes the late comparison with the head enough.
ReadsStillHold ==
  \A h \in Handlers : ChainAccepts(stmt[h].prev) =>
    /\ stmt[h].kind = "add-device" /\ pc[h] \in {"grant", "take", "head", "insert"}
         => AddAllowed(h)
    /\ stmt[h].kind = "revoke" /\ pc[h] \in {"signer", "head", "insert"}
         => stmt[h].target \in Active
    /\ stmt[h].kind = "revoke" /\ pc[h] \in {"head", "insert"}
         => stmt[h].signer \in Active

\* A handler about to insert compared with the entry before the seq it holds.
InsertsAfterPrev ==
  \A h \in Handlers : pc[h] = "insert" =>
    \/ seq[h] = 0 /\ stmt[h].prev = None
    \/ \E q \in log : q.seq = seq[h] - 1 /\ q.hash = stmt[h].prev

\* h took its grant out of Redis.
HoldsGrant(h) == stmt[h].kind = "add-device" /\ pc[h] \in {"head", "insert", "done"}

\* A token is in Redis under one transfer, or taken by one handler, never both.
GrantsTakenOnce ==
  /\ \A t \in Transfers : grant[t] <= issued
  /\ \A t, u \in Transfers : grant[t] = grant[u] /\ grant[t] # 0 => t = u
  /\ \A h \in Handlers : stmt[h].token <= issued
  /\ \A h \in Handlers : pc[h] = "take" => stmt[h].token # 0
  /\ \A h \in Handlers : HoldsGrant(h) =>
       /\ stmt[h].token # 0
       /\ \A t \in Transfers : grant[t] # stmt[h].token
       /\ \A g \in Handlers : HoldsGrant(g) /\ stmt[g].token = stmt[h].token => g = h

ChainInv == /\ TypeOK /\ OneChain /\ Dense /\ AcceptedOnce
            /\ OneStatementPerHash /\ SignedOnTheLog /\ RowsCarryStatements
            /\ InsertsAfterPrev

DeviceInv == /\ RowsMatchLog /\ SignedByAuthorized /\ SomeDeviceLeft
             /\ IsFiniteSet(enrolled) /\ DeviceLimit
             /\ LabelsMatchKinds /\ ReadsStillHold

GrantInv == GrantsTakenOnce /\ OneDevicePerGrant

IInv == ChainInv /\ DeviceInv /\ GrantInv
=============================================================================
