----------------------------- MODULE KeyErasure -----------------------------
(***************************************************************************)
(* Erasure of an account's keys (services/key_deletion.rs) on top of the   *)
(* device log: the request that waits for a delay and is called off by any *)
(* device that checks in, the sweep that carries it out, and the immediate *)
(* erasure a device may sign for.                                          *)
(*                                                                         *)
(* An erasure is one transaction of two DELETE statements.  At READ        *)
(* COMMITTED each statement sees what was committed when it began, so a    *)
(* handler of DeviceLog may commit before the first, between the two, or   *)
(* after both.                                                             *)
(***************************************************************************)
EXTENDS DeviceLog

CONSTANTS
  Requests,   (* KeyDeletionRequest ids, each filed by one POST            *)
  Erasers,    (* executions of POST /e2ee/keys/deletion/now                *)
  Sweeper,    (* the loop of main.rs that runs sweep every 300 seconds     *)
  MaxFaults   (* bound of the model: failed transactions and restarts      *)

ASSUME MaxFaultsAssumption == MaxFaults \in Nat
ASSUME ErasersAssumption   == Sweeper \notin Erasers /\ None \notin Requests

VARIABLES
  request,    (* KeyDeletionRequest rows                                   *)
  rpc,        (* the await each filing of a request is at                  *)
  checkin,    (* devices whose touch has yet to reach its second await     *)
  epc,        (* the await each erasing process is at                      *)
  target,     (* the row the sweep is working on                           *)
  doomed,     (* the entries an erasure in progress has deleted            *)
  locked,     (* lockdownAt of the user is set                             *)
  faults

filing  == << request, rpc >>
erasing == << epc, target, doomed >>
kvars   == << vars, filing, checkin, erasing, locked, faults >>

Processes == Erasers \cup {Sweeper}

(***************************************************************************)
(* A row holds whether executeAfter has passed, the three timestamps as    *)
(* flags, and the devices whose lastSeenAt is later than its requestedAt.  *)
(***************************************************************************)
Absent == [ made |-> FALSE, due |-> FALSE, cancelled |-> FALSE,
            aborted |-> FALSE, executed |-> FALSE, seen |-> {} ]

Pending(q) == /\ request[q].made
              /\ ~ request[q].cancelled /\ ~ request[q].aborted /\ ~ request[q].executed

\* The devices in D are seen now, which is after every row there is.
SeenBy(D) == [q \in Requests |->
                IF request[q].made THEN [request[q] EXCEPT !.seen = @ \cup D] ELSE Absent]

\* Every pending row gets its abortedAt.
AbortPending == [q \in Requests |->
                   IF Pending(q) THEN [request[q] EXCEPT !.aborted = TRUE] ELSE request[q]]

KInit ==
  /\ Init
  /\ request = [q \in Requests |-> Absent]
  /\ rpc     = [q \in Requests |-> "idle"]
  /\ checkin = {}
  /\ epc     = [p \in Processes |-> "idle"]
  /\ target  = None
  /\ doomed  = [p \in Processes |-> {}]
  /\ locked  = FALSE
  /\ faults  = 0

(***************************************************************************)
(* The handlers of DeviceLog.  A new row of Device has lastSeenAt now().   *)
(* An insertion that needs the seq of an entry an open transaction has     *)
(* deleted waits in the unique index for that transaction to end.          *)
(***************************************************************************)
WaitsForErasure(h) ==
  /\ At(h, "insert")
  /\ \E p \in Processes : \E r \in doomed[p] \cap log : r.seq = seq[h]

DeviceStep ==
  /\ \/ \E h \in Handlers : (~ WaitsForErasure(h) /\ Server(h)) \/ Client(h)
     \/ \E t \in Transfers : IssueGrant(t) \/ GrantExpires(t)
  /\ request' = SeenBy(enrolled' \ enrolled)
  /\ UNCHANGED << rpc, checkin, erasing, locked, faults >>

(***************************************************************************)
(* Filing a request: request_deletion of http/e2ee.rs, then request.       *)
(***************************************************************************)
Files(q, from, to) ==
  /\ rpc[q] = from
  /\ rpc' = [rpc EXCEPT ![q] = to]
  /\ UNCHANGED << vars, checkin, erasing, locked, faults >>

RequestReadsUser(q) ==
  /\ Files(q, "idle", IF locked THEN "refused" ELSE "devices")
  /\ UNCHANGED request

RequestReadsDevices(q) ==
  /\ Files(q, "devices", IF Active = {} THEN "refused" ELSE "pending")
  /\ UNCHANGED request

RequestReadsPending(q) ==
  /\ Files(q, "pending", IF \E p \in Requests : Pending(p) THEN "refused" ELSE "insert")
  /\ UNCHANGED request

\* The partial unique index lets one pending row of a user in.
\* A mutant: no index.
IndexUnchecked == TRUE

IndexAccepts == \A p \in Requests : ~ Pending(p)

RequestInserts(q) ==
  \/ /\ IndexAccepts
     /\ Files(q, "insert", "mail")
     /\ request' = [request EXCEPT ![q] = [Absent EXCEPT !.made = TRUE]]
  \/ /\ ~ IndexAccepts
     /\ Files(q, "insert", "refused")
     /\ UNCHANGED request

\* Nobody can be warned: the row is deleted again, whatever became of it.
RequestMails(q) ==
  \/ Files(q, "mail", "done") /\ UNCHANGED request
  \/ /\ Files(q, "mail", "refused")
     /\ request' = [request EXCEPT ![q] = Absent]

\* The delay is over.  It is hours long, so the mail has been sent, or not.
Elapses(q) ==
  /\ request[q].made /\ ~ request[q].due /\ rpc[q] # "mail"
  /\ request' = [request EXCEPT ![q].due = TRUE]
  /\ UNCHANGED << vars, rpc, checkin, erasing, locked, faults >>

\* cancel_by_token and cancel_for_user: one UPDATE of the pending row.
Cancel(q) ==
  /\ Pending(q)
  /\ request' = [request EXCEPT ![q].cancelled = TRUE]
  /\ UNCHANGED << vars, rpc, checkin, erasing, locked, faults >>

SetLockdown ==
  /\ locked' = ~ locked
  /\ UNCHANGED << vars, filing, checkin, erasing, faults >>

(***************************************************************************)
(* touch: a device checks in, and only then is the request called off.     *)
(***************************************************************************)
CheckIn(d) ==
  /\ d \in Active
  /\ request' = SeenBy({d})
  /\ checkin' = checkin \cup {d}
  /\ UNCHANGED << vars, rpc, erasing, locked, faults >>

AbortOnDeviceSeen(d) ==
  /\ d \in checkin
  /\ request' = AbortPending
  /\ checkin' = checkin \ {d}
  /\ UNCHANGED << vars, rpc, erasing, locked, faults >>

(***************************************************************************)
(* erase                                                                   *)
(***************************************************************************)
Moves(p, from, to) ==
  /\ epc[p] = from
  /\ epc' = [epc EXCEPT ![p] = to]
  /\ UNCHANGED << grants, stmt, pc, seq, rpc, checkin, locked >>

\* The first DELETE takes the entries committed so far, and waits for an
\* erasure that has locked some of them.
EraseDeletesLog(p) ==
  /\ \A o \in Processes : doomed[o] \cap log = {}
  /\ Moves(p, "erase", "erasing")
  /\ doomed' = [doomed EXCEPT ![p] = log]
  /\ UNCHANGED << db, request, target, faults >>

\* A mutant: the rows of Device go first, those of the log after them.
EraseDevicesFirst(p) ==
  /\ Moves(p, "erasing", "mark")
  /\ log' = {}
  /\ enrolled' = enrolled \ {r.device : r \in doomed[p]}
  /\ revoked' = revoked \cap enrolled'
  /\ doomed' = [doomed EXCEPT ![p] = {}]
  /\ UNCHANGED << request, target, faults >>

\* The second DELETE takes every device there is by then; then both commit.
EraseCommits(p) ==
  /\ Moves(p, "erasing", "mark")
  /\ log' = log \ doomed[p]
  /\ enrolled' = {} /\ revoked' = {}
  /\ doomed' = [doomed EXCEPT ![p] = {}]
  /\ UNCHANGED << request, target, faults >>

\* A mutant: the error of erase is dropped.
EraseFailsUnnoticed(p) ==
  /\ faults < MaxFaults
  /\ faults' = faults + 1
  /\ Moves(p, "erasing", "mark")
  /\ doomed' = [doomed EXCEPT ![p] = {}]
  /\ UNCHANGED << db, request, target >>

\* The database fails the transaction: it rolls back, and the sweep returns.
EraseFails(p) ==
  /\ faults < MaxFaults
  /\ faults' = faults + 1
  /\ Moves(p, "erasing", IF p = Sweeper THEN "idle" ELSE "done")
  /\ doomed' = [doomed EXCEPT ![p] = {}]
  /\ target' = IF p = Sweeper THEN None ELSE target
  /\ UNCHANGED << db, request >>

(***************************************************************************)
(* sweep.  The index leaves it one row per account to work on.             *)
(***************************************************************************)
SweepSelects(q) ==
  /\ Pending(q) /\ request[q].due
  /\ Moves(Sweeper, "idle", "alive")
  /\ target' = q
  /\ UNCHANGED << db, request, doomed, faults >>

SweepCountsAlive ==
  /\ Moves(Sweeper, "alive", IF Active \cap request[target].seen # {} THEN "abort" ELSE "erase")
  /\ UNCHANGED << db, request, target, doomed, faults >>

\* Both updates name the row by its id and ask nothing else of it.
SweepEnds(label, row) ==
  /\ Moves(Sweeper, label, "idle")
  /\ request' = [request EXCEPT ![target] = row]
  /\ target' = None
  /\ UNCHANGED << db, doomed, faults >>

\* A mutant: the sweep passes over the row without an UPDATE.
SweepSkips == SweepEnds("abort", request[target])

SweepAborts == SweepEnds("abort", [request[target] EXCEPT !.aborted = TRUE])

SweepMarksExecuted == SweepEnds("mark", [request[target] EXCEPT !.executed = TRUE])

(***************************************************************************)
(* erase_keys_now, then erase_now                                          *)
(***************************************************************************)
EraseNowReadsUser(e) ==
  /\ Moves(e, "idle", IF locked THEN "done" ELSE "device")
  /\ UNCHANGED << db, request, target, doomed, faults >>

EraseNowReadsDevice(e) ==
  /\ Moves(e, "device", IF Active = {} THEN "done" ELSE "erase")
  /\ UNCHANGED << db, request, target, doomed, faults >>

MarkPending == [q \in Requests |->
   IF Pending(q) THEN [request[q] EXCEPT !.executed = TRUE] ELSE request[q]]

EraseNowMarks(e) ==
  /\ Moves(e, "mark", "done")
  /\ request' = MarkPending
  /\ UNCHANGED << db, target, doomed, faults >>

(***************************************************************************)
(* The server restarts: whatever was running is gone, and a transaction    *)
(* that was open is rolled back.                                           *)
(***************************************************************************)
Restart ==
  /\ faults < MaxFaults
  /\ faults' = faults + 1
  /\ pc'  = [h \in Handlers |->
               IF pc[h] \in {"unsent", "unauthorized", "done"} THEN pc[h] ELSE "refused"]
  /\ rpc' = [q \in Requests |-> IF rpc[q] \in {"idle", "done"} THEN rpc[q] ELSE "refused"]
  /\ epc' = [p \in Processes |-> IF p = Sweeper \/ epc[p] = "idle" THEN "idle" ELSE "done"]
  /\ checkin' = {}
  /\ target' = None
  /\ doomed' = [p \in Processes |-> {}]
  /\ UNCHANGED << db, grants, stmt, seq, request, locked >>

Filing(q) ==
  \/ RequestReadsUser(q)
  \/ RequestReadsDevices(q)
  \/ RequestReadsPending(q)
  \/ RequestInserts(q)
  \/ RequestMails(q)

Erase(p) ==
  \/ EraseDeletesLog(p)
  \/ EraseCommits(p)
  \/ EraseFails(p)

Sweep ==
  \/ \E q \in Requests : SweepSelects(q)
  \/ SweepCountsAlive
  \/ SweepAborts
  \/ Erase(Sweeper)
  \/ SweepMarksExecuted

EraseNow(e) ==
  \/ EraseNowReadsUser(e)
  \/ EraseNowReadsDevice(e)
  \/ Erase(e)
  \/ EraseNowMarks(e)

KNext ==
  \/ DeviceStep
  \/ \E q \in Requests : Filing(q) \/ Elapses(q) \/ Cancel(q)
  \/ \E d \in Handlers : CheckIn(d) \/ AbortOnDeviceSeen(d)
  \/ \E e \in Erasers : EraseNow(e)
  \/ Sweep
  \/ SetLockdown
  \/ Restart

KSpec == KInit /\ [][KNext]_kvars

(***************************************************************************)
(* The ticker of main.rs keeps starting sweeps, a sweep that runs goes on, *)
(* a transaction ends, which the sweep's own may be waiting for, the mail  *)
(* service answers, and delays end.  Nothing else is assumed.              *)
(***************************************************************************)
KFairSpec ==
  /\ KSpec
  /\ WF_kvars(Sweep)
  /\ \A e \in Erasers : WF_kvars(Erase(e))
  /\ \A q \in Requests : WF_kvars(Elapses(q)) /\ WF_kvars(RequestMails(q))

FilingTypeOK ==
  /\ request \in [Requests ->
       [ made : BOOLEAN, due : BOOLEAN, cancelled : BOOLEAN,
         aborted : BOOLEAN, executed : BOOLEAN, seen : SUBSET Handlers ]]
  /\ rpc     \in [Requests ->
       {"idle", "devices", "pending", "insert", "mail", "done", "refused"}]

KTypeOK ==
  /\ TypeOK
  /\ FilingTypeOK
  /\ checkin \subseteq Handlers
  /\ epc     \in [Processes ->
       {"idle", "alive", "device", "abort", "erase", "erasing", "mark", "done"}]
  /\ target  \in Requests \cup {None}
  /\ doomed  \in [Processes -> SUBSET Rows]
  /\ locked  \in BOOLEAN
  /\ faults  \in 0..MaxFaults

(***************************************************************************)
(* What holds.                                                             *)
(***************************************************************************)

\* Two requests filed at the same moment both pass the check for a pending
\* one; still only one of them waits.
OnePending == \A q, p \in Requests : Pending(q) /\ Pending(p) => q = p

\* When the sweep is about to report an erasure done it was done: whoever else
\* erases, enrols or checks in meanwhile and whatever failed, no device is left
\* that was there before the request and was not heard of since.
SweepErased == epc[Sweeper] = "mark" => enrolled \subseteq request[target].seen

\* A device that comes while an erasure runs is gone with it, or its entry is
\* still there: the order of the two DELETEs never leaves a device that no entry
\* of the log vouches for.
EnrolledAreLogged ==
  \A d \in enrolled : \E r \in log : r.kind # "revoke" /\ r.device = d

\* A request does not wait forever: whatever fails, in the end it is carried
\* out or called off.
RequestsResolved == \A q \in Requests : Pending(q) ~> ~ Pending(q)

(***************************************************************************)
(* The inductive invariant behind OnePending: where the                    *)
(* filing of a request is tells what its row can be.                       *)
(***************************************************************************)
FilingInv ==
  /\ FilingTypeOK
  /\ enrolled \subseteq Handlers
  /\ OnePending
  /\ \A q \in Requests :
       /\ request[q].made => rpc[q] \in {"mail", "done", "refused"}
       /\ ~ request[q].made => request[q] = Absent
       /\ request[q].due => request[q].made /\ rpc[q] # "mail"
  /\ target # None => /\ target \in Requests
                      /\ request[target].made
                      /\ rpc[target] \in {"done", "refused"}

(***************************************************************************)
(* What the documentation says and the code does not do.                   *)
(***************************************************************************)

\* An account without devices has no log left, so that it can start over with
\* an entry at seq 0.  An insertion that races the erasure leaves one behind.
WayOut == enrolled = {} => log = {}

\* A request a device or the owner called off wipes nothing.  The sweep looks
\* for devices once, and asks nothing of the row when it erases.
CalledOffIsKept ==
  \A q \in Requests :
    request[q].executed => ~ request[q].aborted /\ ~ request[q].cancelled

\* The keys of an account in lockdown cannot be erased.  Only the filing of a
\* request and the immediate erasure look at the lockdown.
LockdownFreezes == [][ locked /\ locked' => enrolled \subseteq enrolled' ]_kvars
=============================================================================
