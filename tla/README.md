# OrangChat in TLA+

Specifications of the parts of OrangChat where order matters, the TLC
configurations that check them on small instances, and proofs that TLAPS
checks for every size. Everything is translated from the code in
`src/`; line numbers are in `PROJECT.json` ("map").

    tlc -config MCDeviceLog.cfg MCDeviceLog       # and so on for every .cfg
    tlapm KeyErasureProofs.tla                    # and every other ...Proofs.tla

## 1. The system

OrangChat is a chat service: a Rust server (`packages/server-rs`: axum handlers,
Socket.IO events, Postgres through sqlx, Redis), a React client
(`packages/client`), a shared TypeScript library (`packages/shared`), an Electron
shell, an Android client, and libraries for bots. Server and clients interact in
three ways: HTTP requests, socket events, and rooms (`user:`, `channel:`,
`server:`, `voice:`) the server emits to. The server keeps no state of its own
beyond timers: all of it is in Postgres rows and Redis keys, read and written one
`await` at a time, without row locks and mostly without transactions. That is
where the hard behaviours are.

| Component | State | Operations | What is hard | What makes it correct |
|---|---|---|---|---|
| Device log (`services/e2ee.rs`, `http/e2ee.rs`, client `identity.ts`) | `Device`, `DeviceLogEntry` rows; transfer grants in Redis | enrol, add, revoke, issue and consume a grant, check in | handlers read devices and head, then insert; resends after a 401 | one chain, signed by authorized devices, never without an active one |
| Key erasure (`key_deletion.rs`) | `KeyDeletionRequest` rows | request, cancel, abort on check-in, sweep, erase now | a sweep that works on what it read; crash between row and mail; two DELETEs against inserts | one request at a time; what is reported erased is; no device without its log; a request is resolved |
| Calls (`call.rs`, `socket.rs`) | `call:{channel}`, `call:user:{user}` in Redis; a card message | start, accept, leave, time out, disconnect | load, edit, save of one JSON value by several handlers; failing writes; a restart; timers that outlive a call | somebody is on every call; keys name calls their users are in; an ended card is of an ended call; a ring ends for a reason |
| Key transparency (`identity.ts`, `keystore.ts`, `alerts.ts`) | pins in IndexedDB, alerts | resolve, gossip, accept a change, scan, compare | several operations in flight; log rows read in several statements; resets by honest users; an acceptance that fails halfway | trust is never inherited; a pin is not lost or overwritten; contacts who kept their keys are not accused |
| Presence (`presence.rs`, `socket.rs`, `main.rs`) | leases of sockets, devices, lifecycle, chosen status, the list of users online, in Redis | connect, heartbeat, lifecycle, choose, disconnect, sweep, restart | disconnect before connect, readers that prune, statuses read before they are sent | a user who has gone is offline and that was said; keys agree |
| Sealed channels (`mint_epoch`, `strict.ts`) | epochs, envelopes, plaintext latch | mint, wrap, rotate | membership changes while a key is minted | no removed device gets a new key |
| Device transfer | blobs, attempts, burn marks | put, take, burn | two takers, the counter | a blob is taken once |
| Sessions (`auth.rs`, `http/auth.rs`, client `session.ts`) | `refresh:{jti}` and `refresh:user:{id}` in Redis; a cookie per browser | sign in, rotate, log out, list, revoke one, others or all | rotation is four commands; dropped requests; pages that share a cookie | what is in use is listed; revoked means signed out; nobody is signed out without a reason |
| Messages, attachments (`message.rs`, `attachments.rs`) | `Message`, `PendingAttachment` rows | send, edit, pin, claim, sweep | claims that delete and then refuse | a message with files is stored once |
| Voice (`voice.rs`, `socket.rs`) | `voice:state:{channel}`, `voice:devices:{user}` in Redis; rooms | join, leave, update, dismiss a device, disconnect | several pages of a user, check and take of a place | the roster is who is in the room; no more than the limit |
| Outbox, realtime (`outbox.ts`, `realtime.ts`, `strict.ts`) | entries in memory and IndexedDB | write, hold, release, flush, retry, discard, reconcile with the echo | lost connections, reloads, an acknowledgement and an echo for one message, strict mode | no message lost, none doubled, order kept, nothing sendable left behind |
| Read state, rate limits | counters | bump, read | concurrent updates | counts agree with messages |
| Servers, roles, moderation (`role.rs`, `membership.rs`, `moderation.rs`, `server.rs`) | `Role`, `MemberRole`, `ServerMember`, `Ban` rows; the room of the server | create, edit, move, reorder, delete, assign; kick, ban, leave, join | checks and writes are apart; rooms follow rows | no escalation; ranks are respected; room, members and bans agree |

The rest (profiles, push and mail, external connections, media, bots, Android,
desktop, deployment) is listed in `PROJECT.json` with the reason it is left out.

## 2. Modules

| Module | What it is |
|---|---|
| `DeviceLog` | the three device handlers, await by await, the grants, the client that posts |
| `DeviceRegistry` | abstract specification: devices change one at a time, each change decided on the devices there are |
| `KeyErasure` | EXTENDS `DeviceLog`: requests, cancellation, check-in, sweep, immediate erasure, failures and restarts |
| `KeyErasureProofs` | proofs about `DeviceLog` (inductive invariant, theorems, refinement of `DeviceRegistry`) and `KeyErasure` (filing, sweep) |
| `DmCall`, `DmCallProofs` | calls in direct messages |
| `PeerPins`, `PeerPinsProofs` | one client's pin of one contact |
| `Outbox`, `OutboxProofs` | one user's messages in one conversation: tabs, socket, `message:send`, echo |
| `Presence`, `PresenceProofs` | whether one user is online, and what the others were told |
| `Voice`, `VoiceProofs` | who is in which voice channel |
| `Sessions`, `SessionsProofs` | the sessions of one account, with its browsers and pages |
| `Servers`, `ServersProofs` | roles, members and bans of one server |
| `MC...` | instances for TLC |

Some modules hold definitions marked "a mutant" next to the definition they
vary: each is a plausible bug, and with it in place of the original TLC refutes
the property `PROJECT.json` names. They are used nowhere else.

### DeviceLog

All tables are keyed by `userId`, so the module is about one account. `log`,
`enrolled` and `revoked` are the rows, `grant` the Redis keys. A handler `h` is
one execution of a POST; `stmt[h]` is its body, `pc[h]` the await it is at,
`seq[h]` the local it computed from the head. A hash is the name of the statement
that has it, so hashes and signatures are ideal. `Post...` are the client: it
signs on top of the head it fetched, and `Resend` is `api.ts`, which posts the
same body again after a 401. The rows are inserted in one transaction guarded by
the unique index on `(userId, seq)`: `InsertDevice`, `InsertRevocation`,
`SeqConflict`. A handler whose client disconnects stops at an await, which is a
handler that takes no more steps. An entry that is refused as malformed, or by
the rate limit, changes nothing and is left out.

### KeyErasure

A row of `request` has `due` for `executeAfter <= now()`, a flag for each of the
three timestamps, and `seen`, the devices whose `lastSeenAt` is later than its
`requestedAt`. `checkin` holds the devices between the two awaits of `touch`. The
processes of `epc` are the sweep loop and the executions of `keys/deletion/now`.
`erase` is one transaction of two statements: under READ COMMITTED each sees what
was committed when it began, so the deletion of the entries (`EraseDeletesLog`)
and that of the devices with the commit (`EraseCommits`) are two steps, and an
insertion that collides with a deleted, uncommitted entry waits
(`WaitsForErasure`). `EraseFails` and `Restart` are bounded by `MaxFaults`.
`Elapses` waits for the mail: the delay is hours long, a mail is not.
An error that `abort_on_device_seen` swallows has the effect of a restart between
the two steps of a check-in.

### DmCall

`call` and `bound` are the Redis keys, `cards` what the message of each call says.
`proc[p]` is a running handler: which event, what it has read, and the list of
writes it still has to carry out, one step each. `calls` numbers the calls and
stands for `started_at`. `accept`, `leave`, `start` and `expire_ringing` follow the
code line by line; decline, cancel, end and disconnect all come down to `leave`.

What may go wrong is part of `Write`, `GivesUp` and `Restart`. A card may fail to be
stored (`open_call` returns `None`), and so may a change of it (`update_call` drops
the error). The timer may not be armed (`call::payload` fails first). A command
of Redis may fail, and the handler returns with the rest unwritten. The server may be
restarted, which ends every handler and every timer. `muddled` is the one thing the
code does not have: the conversations whose call two handlers had read at once,
one of them to rewrite it, or whose rewriting was cut short. `Users` is
finite, as every conversation is, and `None`, the absent call, is no call. Left out:
the six-hour TTLs, a failing read of Redis (the handler ends before it wrote
anything), and the check of channel membership beyond that of the caller.

### PeerPins

The server in this module is honest: the log grows, and starts over only when the
contact erased their keys. `task[t]` is one operation between two awaits. A log is
its identity and its length, since a hash commits to all before it. The list
comes from two reads of the server (`ReadsDevices`, `ReadsLog`); when they
disagree the client may reject it (`ListVerifies`). `confirmed` records what the
user compared in person and is the one variable the code does not have. An
alert's button and "I understand" are `Accept` and `Dismiss`; `Reload` closes the
page. Each transaction of IndexedDB is a step, so that whatever one operation read,
another may write over before the first goes on: `decryptMessages` resolves the sender
of every message at once. The dialog with the safety number is three steps: `Shows`
makes the number of the pin of that moment, `Compare` is the user comparing it with
the contact's, and `ReadsMarked`, `PutsMarked` mark whatever pin is there by then.
`loose` is a history variable: there was no pin while two operations ran, and what they
make of it has not settled.

### Outbox

A tab has its `queue` with the marks `awaiting`, `failed` and `holding`, and its
`flush`: where `flushOutbox` is, which is never twice, `blocked` for its set of
blocked channels (there is one channel), and `own`, whether the object it holds is
still the one in the store (`retryBlockedMessages` replaces them all, so that the
ciphertext is noted on an object nobody looks at any more). `saved` is IndexedDB,
shared by the tabs. Each time an entry is handed to the server is an element of
`sends`, which walks through `message:send`: refusal, the claim of the uploads, the
row, the delivery. The echo reaches the sockets in the room, except the sender's,
and is matched with an entry by its text or, if sealed, by its ciphertext
(`Matches`). `own`, `cipher` and the two steps `Hears` and `Resolves` are there
because the decryption of the echo is an `await`. A page that was loaded
reads the records on disk (`Load`) and has restored them later (`Restore`): in between
entries are written, sent and removed, and a record that was read and then removed comes
back. `Reload` and `Disconnect` are
bounded by `MaxDrops`; manual retries are bounded by `MaxRetries`; refusals, failures of the database, uploads that fail and
uploads swept are bounded by `MaxRefusals`. `Oldest` is the `find` over the queue,
and `RemoveEntry` takes out the first occurrence where the code filters by the id;
`EntriesAreOnce` proves that there is no second one. An account switch in a tab is left out,
and so is the reply a message may be. So is the branch of `releaseHold` for an entry without
text and files: `Composer.tsx:548` throws before it releases one.

### Presence

One user, since every key is per user. A step is one Redis command or one Lua
script: `Upserted`, `Removed`, `Pruned` are the three scripts. `get_status` is a
prune and a read, `broadcast_presence` a prune and, later, an emission of what was
read before (the status and the lifecycles are read by two commands, which are one step here:
whether the user is offline does not depend on their order). Time is the step `Lapse`, which ends any lease, also that of a page
that sleeps. `missed` is the one thing the code does not have: a reader's prune took
the user off the list without a word, or a broadcast said what was no longer true.

### Voice

`state` and `device` are the hashes, `rooms` the rooms of the socket server, and
`want` the channel a page believes to be in, which decides what it sends. Leaving and
disconnecting share the steps `LooksElsewhere` and `Clears`. A restart of the server
clears neither hash. `crossed` collects the users of whom two handlers overlapped (or
a restart interrupted one), `raced` the channels somebody was let into between the
check and the entry of somebody else: the properties except exactly these.

### Sessions

A request `run[p]` takes one Redis command per step. Rotation is `Validates`,
`Deletes`, `Removes`, the two steps of `Registers`, and `Answers`, in which the
browser gets the cookie and the page the access token. `Drops` ends a request
wherever it is: the connection is lost and axum drops the handler. The pages of a
browser share its cookie, so a second page may exchange the same token. `ended`
says which tokens may fail a page, `due` and `out` which browsers a revocation of
all was to sign out: not the one it keeps, and not one that asked for a token while
it ran. `Forgets` is the cookie of a browser whose key has expired: both live for the
same weeks and the cookie is set later, so a browser forgets a token only when its key
is gone and no request of the browser is under way. Signing in is one action; the
checks before it are left out.

### Servers

A request is two steps, as in the code: the check, with all its reads, and the
write; `run[p]` carries what it read across. `Removes` and `Inserts` are the
transactions that change members, `LeavesRoom` and `EntersRoom` the calls to the
socket server that follow them. `Fresh` takes a new id for a role. `there` says that
the `ServerMember` row whose id an assignment has read still exists, which the
foreign key asks. The owner, whom every check lets pass, sends no request: the
properties are about what the others can do to each other. `muddle` notes whether two
requests about membership of one person overlapped, and whether a role was created
while a reordering was under way.

## 3. Runs

| Run | Instance | Shows |
|---|---|---|
| `device_log` | 5 handlers, 2 transfers, 2 grants, limit 2; symmetric; 243,548 states | type, `OneChain`, `SignedByAuthorized`, `SomeDeviceLeft`, `DeviceLimit`, `OneDevicePerGrant`, `RowsMatchLog`, `AppendOnly`, and `DeviceLog` implements `DeviceRegistry` |
| `key_erasure` | 2 handlers, 2 requests, 1 immediate erasure, 1 fault, fair; 474,960 states | `OnePending` (the partial unique index), `SweepErased`, `EnrolledAreLogged`, `RequestsResolved`, types |
| `key_erasure_off` | 2 handlers, 1 request, no immediate erasure, no faults | refutes `CalledOffIsKept` |
| `dm_call` | 2 users, 2 conversations, 2 calls, 2 handlers; symmetric; 2,049,152 states | `SomebodyOn` in every interleaving; `BusyMeansOnCall`, `EndedMeansOver`, `RingsOut` for the conversation that is in order |
| `peer_pins` | 2 operations, 2 identities, logs of 2 entries; symmetric; 2,278,240 states | `VerifiedIsEarned`, `PinnedIdentityStays`, `PinIsNotLost`, `KeptIdentityIsTrusted` |
| `peer_pins_rollback` | 2 operations, 1 identity | refutes `NoRollback` |
| `outbox` | 1 tab, 2 messages, one with a file, plain or sealed; 1 drop, 1 refusal, 1 retry, fair; 309,544 states | `NothingLost`, the order of what nothing disturbed (`Inv`), `FilesOnce`, `Flushed` |
| `outbox_flush` | the instance of `outbox`, fair | refutes `FlushEnds` |
| `presence` | 2 sockets, 2 handlers, fair; 251,859 states | the keys agree (`Inv`), `ToldTheTruth`, `GoneIsSeen` |
| `voice` | 3 sockets of 2 users, a channel for one, 2 handlers; symmetric; 1,140,510 states | the limit (`Inv`), `RosterTrue` |
| `sessions` | 2 browsers with a page each, 3 tokens, 2 requests; symmetric; 2,817,927 states | what is in use is listed (`Inv`), `SignedOut`, `LosesItFairly` |
| `servers` | 2 members, the roles everyone, top, mods and spare, positions up to 3, 2 requests; symmetric; 2,017,934 states | no escalation (`Inv`), `RanksKept`, `MembersTrue` |

Three runs end in a counterexample, each a statement the code does not keep
("findings"):

- `key_erasure_off`: the sweep has read a due request and found nobody alive; the owner
  calls it off, or a device checks in, and is told so; the sweep erases and marks by the
  id alone. `key_deletion.rs:124` and `schema.prisma:641` say that nothing is wiped.
- `peer_pins_rollback`: two messages resolve one contact at once; the list that was
  fetched earlier is checked later, and an honest server is accused of a rollback, for
  which there is "no honest story" (`identity.ts:539`).
- `outbox_flush`: with a sealed conversation that waits for a verification and two
  messages in it, every flush schedules the next for ever; `outbox.ts:261` says
  that its test exists so that this cannot happen.

Four more configurations also end in a counterexample. They are run by hand; each
refutes one sentence of the documentation or the interface and shows why the
properties above say no more than they do:

| Configuration | Counterexample | Refutes |
|---|---|---|
| `MCKeyErasureLockdown` | the account is locked down after the request was filed; the sweep erases its keys | `E2EE.md:860` |
| `MCKeyErasureWayOut` | a device handler commits between the two DELETEs; its log entry survives the devices, and a new genesis entry is refused | `E2EE.md:841` |
| `MCDmCallJoined` | two members accept at once; the second save drops the first from the call and its card | `shared/src/e2ee.ts:1206` |
| `MCPeerPinsFork` | the contact started over and the user accepted it; an old message with a head of the old log raises the fork alarm | `SecurityAlertOverlay.tsx:24` |

### What the properties leave out

Some interleavings really go wrong, in ways no document promises they do not. A property
that named them would only restate the race, so they are exempted, by a history
variable that marks exactly the executions in which the race took place, and the
property says that nothing else goes wrong. The exempted cases are not covered:

| Property | Exempts | What happens there |
|---|---|---|
| `BusyMeansOnCall`, `EndedMeansOver`, `RingsOut` | `muddled`: a conversation two handlers rewrote at once, or one left half rewritten | a participant is dropped, a ring is written back after its only timer, a key outlives its call |
| `VerifiedIsEarned`, `PinnedIdentityStays` | `loose`: no pin while two operations are under way | two operations each pin what they were shown; a dialog marks the pin that replaced the one it was made of |
| `Flushed` | the entry whose strict-mode check began before the verification and is noted after it | it waits for the next flush |
| `ToldTheTruth`, `GoneIsSeen` | `missed`: a reader pruned first, an old status was sent late | the others learn of it from the next event |
| `RosterTrue` | `crossed`: a user with two handlers at once | the list is wrong until that user moves |
| `Inv` of `Voice` | `raced`: two passed the check of the limit together | the limit is exceeded by as many |
| `SignedOut` | `due`: a browser that asked for a token during the revocation | its new session survives |
| `LosesItFairly` | `Excuse`, `ended`: an exchange cut short, a session somebody ended | the page is signed out |
| `RanksKept`, `MembersTrue` | `muddle`: a role created during a reordering; two requests about one person | a displaced role; a member while banned |

`TellsApart` of the proofs of `Outbox` is the one further assumption (section 4).

### Bounds

Bounds are CONSTANTS: `MaxGrants`, `MaxFaults` (errors and restarts), `MaxCalls`,
`MaxGen`, `MaxLen`, `MaxDrops` (lost connections and reloads), `MaxRefusals`
(refusals, errors, lost uploads), `MaxRetries`, `MaxRank`, `MaxListed` (roles in
one reordering), and the sets `Mover` (members who come and go), `Asked`
(permissions asked for), `Choices` and `Cycles` (statuses a user picks or a page
reports). `Excuse` is no bound but a parameter of `LosesItFairly`: what
else accounts for a lost session. The run has a browser for each page and
`{"cut"}`; with no excuse at all it is violated. Where two pages share a browser an
exchange that is tried twice must count too: with one browser of two pages
`{"cut"}` alone is violated, and both together hold on 10,421,196 states.

Five handlers are enough for a genesis, an addition, two revocations that cross
and a resend; with a limit of two devices two additions meet at the limit. Two
requests are the least that can compete. Two calls let a timer of the first meet
the second, and two conversations of the same two users let handlers of one meet keys
of the other. Two identities let a change be accepted and an older message name the one
before; two entries let an answer be older than the pin.
Two sockets are a tab that closes while another opens, two handlers the least
that interleave, two tokens of one browser and one of another the least in which
one revocation meets one rotation. The file, the drop, the refusal and the retry
of `outbox` are each enough to make one entry overtake, double or lose another.

The state constraints of the MC modules cut off what teaches nothing. `OneInOrder`: a
state in which both conversations are muddled has only `TypeOK` and `SomebodyOn` left to
check. `FailsOnce`: once a conversation is muddled nothing else fails. `InTurn`: the
first of two requests that are alike begins first, and the second device enrols after
the first (two at once are `device_log`). `LockdownEarly`: a lockdown is in place when
the first request is filed, or does not come. `OneAlert`: a page with an alarm other than
"identity-changed" is checked and not continued, since no operation looks at it.
`LoadsFirst`: the first page finds its empty disk before anything else; a page that
loads late is one that was reloaded.

These instances are what finishes in minutes. Larger ones were run once:
`Voice` with two channels (638,000 states) and with two sockets per user and two
channels (8.4 million), `Sessions` with three pages (18,285,468, before `Forgets` was
added), `Servers` with positions up to 4 and no `Mover` (8,924,931), `Outbox` without
`LoadsFirst` (944,835). The invariants of the proofs were checked first, `OrderInv` of
`DmCallProofs` on all states of `dm_call`, those of `OutboxProofs` on all states of
`outbox` and on 5.5 million of two tabs.

Handlers, tokens and requests are interchangeable, and so are the two browsers
with their pages (`Swap`), so the safety runs use symmetry; runs with liveness do
not. In `dm_call` the users and conversations are interchangeable too: no list of
writes names two users there, so that the order `SetToSeq` picks does not show. Deadlock is checked where something can always happen (`Presence`,
`Sessions`, `PeerPins`) and not where the system may stop: when every handler has
answered, or a bound is used up.

### Fairness

`KFairSpec`: the interval of `main.rs` starts a sweep every 300 seconds and a
started sweep goes on (`WF(Sweep)`), delays end, and the mail call returns. A
transaction of an immediate erasure ends (`WF(Erase(e))`): the sweep's own may be waiting
for its locks. No fairness is asked of users, devices or cancellations. `Outbox!FairSpec`: the flush loop of a tab goes on,
the socket reconnects (socket.io retries for ever), a page that was loaded reads and
restores its store, and a handler whose socket is still there goes on; users owe nothing.
`Presence!FairSpec`: handlers go on, the sweep of `main.rs` keeps being started, and
the lease of a socket that is closed runs out; a page that is open owes no heartbeat.

## 4. Proofs

With these modules every invariant and action property of the passing runs is also a
theorem, for all values of the constants that satisfy the named assumptions of the module. The
assumptions say what the constants are (a function from tabs to sets, a finite set
of users), and TLC evaluates them on every run. Where a theorem has a hypothesis
beyond them, it is named below with the reason.

### DeviceLog and KeyErasure (`KeyErasureProofs`)

For any number of handlers, transfers, grants and any limit: `InductiveInvariant`
(Spec => []IInv), and from it `TypeCorrect`, `ChainIsOne`, `SignersAuthorized`,
`NeverLockedOut`, `LimitHolds`, `GrantsAreSingleUse`, `TablesAgree`, `NoReplay`,
`LogAppendOnly`, and `Refinement` (every step of `DeviceLog` is a step of
`DeviceRegistry` or a stutter).

The properties are not inductive. A handler acts on reads that others have
outdated, so the invariant has to say why that is harmless. The key part is
`ReadsStillHold`: as long as the statement of a handler names the current head,
everything the handler read of the devices is still true, because any change of
the devices would have appended an entry and moved the head. `ReadsHead` compares
with the head, and `InsertsAfterPrev` with the index on `seq` carries the
comparison over to the insertion: if the seq is still free, the head has not
moved. `Dense` makes "the head" well defined, `OneStatementPerHash` and
`RowsCarryStatements` tie rows to the requests they came from, and
`GrantsTakenOnce` says a token is in Redis or with one handler, never both.
`SomeDeviceLeft` follows because a revocation is signed by another device that is
active at that point. The client part of this is `PostRevoke`: `signer # target`
is a rule of the settings page, not of the server.

For any number of requests, handlers, immediate erasures and failures:
`FilingInvariant`, `OneRequestWaits`. `OnePending` needs that an insertion finds no
pending request and that the other steps end requests and never revive one; `FilingInv`
says where the filing of a request is while its row is there.

`ErasureTypeCorrect` types the rest. `IInv` does not survive an erasure that races an
insertion, so this cannot rest on it; what does survive is `KInv`: types, a log of
bounded length (`Bounded`, from which `LastEntry` finds the last entry), and that each
handler holds a statement it was sent. `SweepMeansErased` (`HoldInv`): when the sweep
comes to mark its request, every device still enrolled has been seen since that was
filed, whatever immediate erasures ran beside it. `DevicesAreLogged`: the entries are
deleted before the devices, each statement with what it saw (`doomed`), so that a device
whose entry an erasure has deleted is one that erasure will delete.

### DmCall (`DmCallProofs`)

`TypeCorrect` and `CallsHavePeople` (`SomebodyOn`) hold for any number of handlers. A
handler carries the list of writes it has decided on, so `TypeInv` is about the
lists: no write ahead of any handler stores a call without participants or one that
rings somebody who is on it. `Listed` turns lists into sets, `DiscardSet`, `LeaveSet`
and `ExpireSet` say what each list contains.

`KeysTellTheTruth`, `EndedCardsAreOver` and `RingsOutInOrder` hold for any number of users,
conversations, calls and handlers, with failures and restarts, of every conversation
that is not `muddled`. The invariant is `OrderInv`: such a conversation has at most one
handler that has read its call to rewrite it, and what that handler has ahead
is a promise (`Promised`). There is a `last` call that will be stored when the writes are
done (`Leads`); every key that names the conversation then and is not to be deleted is of
somebody in `last` (`KeysAgree`); no card ends unless `last` is none (`CardAgrees`);
and whoever is rung now and not in `last` has left, or goes with the last participant, or
their timer has fired (`HasReason`). `PromiseKept` shows that each write keeps the
promise with one write less, `JoinPromised`, `LeavePromised`, `ExpirePromised` and
`CreatePromised` that each handler makes one, and `Elsewhere` that the handlers of other
conversations, which share the keys of the users, do not break it: they write
keys that name their own conversation or none. When nobody has anything ahead the promise says that keys
and call agree (`KeysTrue`).

### PeerPins (`PeerPinsProofs`)

All for any number of operations at the same time. `KeptIdentityNotAccused`: everything
an operation holds is of an identity the contact has had by then (`Faithful`), whatever
order answers come in, so nothing can contradict a contact who keeps theirs. `AcceptanceLosesNothing` (`Kept`): an acceptance
takes the old pin with it before it drops the one there is, and only one runs at a time, since
the button is disabled. `TrustIsEarned` and `PinGivesWayOnlyDropped` (`Tight`):
unless `loose`, an operation that is about to write holds a list that agreed
with the pin, or its own copy of the pin, and the pin's identity cannot have been
another since, because a pin only changes identity by being dropped. Both are false
without `loose`: an operation that found no pin writes over one that was stored
since. That no rollback is reported is not a theorem: with two operations it is false
(`peer_pins_rollback`).

### Presence (`PresenceProofs`)

For any number of sockets and handlers. `KeysOfUserAgree`: each script keeps `Agree`, so
no order of scripts breaks it; the handlers only need to hold lifecycles where they
will write one. `OthersAreTold`: `Owed` says that the others have been told, or a handler
is about to tell them, or the sweep will find the user, or a reader noticed first.

### Voice (`VoiceProofs`)

For any finite numbers of users and handlers, any channels, sockets and limits.
`LimitHoldsUnlessRaced` counts `Coming`, the listed and the ones past the check: a check
that finds room leaves it within the limit unless somebody else was in the same place,
which `raced` records. `ListIsTrue` is about one user at a time: `Orderly(u)` says that a
user whose handlers never overlapped has at most one (`Alone`), that without one
the hashes and the rooms agree (`Rest`), and with one (`Busy`) they differ by just what
that handler has still to do (`Fit`), channel by channel (`Roster`). Handlers of other
users only touch the parts of others.

### Sessions (`SessionsProofs`)

For any number of browsers, pages, tokens and requests, dropped anywhere. The invariant
is `Layers`: types; `Shape`, what a request holds at each step; `StruckOff`, a token is
removed from the set only when its key is gone; `Listed`; `Owners`, each token is in
one cookie or with one request that will set it; `Due`, what a revocation has read and
has not come to; `Outside`, whom it must have signed out. `SessionsAreListed` and
`OthersAreSignedOut` follow. `SessionsEndFairly` adds `Fair`: every token that has
stopped working in a cookie, or with a request, is accounted for or excused. Its
hypothesis `Excuses` asks that an exchange cut short counts as an excuse, and one tried
twice as well, unless no two pages share a browser.

### Servers (`ServersProofs`)

For any users, roles, permissions, positions and requests. `Sound` has types, what a
request carries (`Shape`), the part of its check that still holds when it writes
(`Held`, `Checked`), the order of the ranks as long as no creation met a reordering
(`Ordered`), and, per user, members, bans and room (`Placed`). `NobodyRises` needs
that a check stays good until the write: what a request gives was within what the crew
may ever hold, except for what the role has anyway (`Checked`). `HighStaysHigh` needs that
no request carries a place above a high role (`Bounded`), and that the crew wears
only roles within (`Within`); `RoomHoldsTheMembers` that one request at most is at work
on a user, and how far it has got.

### Outbox (`OutboxProofs`)

For any tabs, messages, files, drops, refusals and retries. What each step does to the
queue, the disk, the flush, the attempts, the files and the echoes is said once
(`QueueStep`, `SavedStep`, `FlushStep`, `SendStep`, `WriteStep`, `FileStep`,
`HearStep`, each a lemma about `Next`), and the proofs use these and not the actions.
`SendInv` (types, `KnownInv`, `StoredInv`: an attempt that got as far as the table is
in it, once) gives `TypeCorrect`. `NothingIsLost` adds `HeardInv`: an echo that is
waited for is of a stored attempt, and the ciphertext noted on an entry is of that
entry; so an entry only leaves the outbox when it is stored or was given up.
`FilesAreSentOnce` follows the claim: only one attempt of an entry can have got the files
(`FilesInv`). `OrderIsKept` compares, for entries nothing disturbed, the order of
writing with the order of the queue and with the rows (`OrderInv`, `RowsInOrder`).
`EntriesAreOnce` is used for nothing else: it justifies `RemoveEntry`.

Two hypotheses. `TellsApart`: in plaintext, two messages have different texts (nothing
is asked if everything is sealed). It is needed: the echo of one message retires the
first waiting entry with that text, also one the server never stored. `OwnFiles`: an
upload is staged for one message. Both hold in `MCOutbox`.

### What is only model-checked

Liveness under fairness (`RequestsResolved`, `Flushed`, `GoneIsSeen`): TLAPS
has neither rules for fairness here nor ENABLED. No recursive
definition is proved about: the queue is handled with the folds and `SelectInSeq`.

## 5. What is not modelled, and what was noticed

Left out everywhere: cryptography (ideal), rate limits, notifications, malformed
input, failing Redis calls (except the writes of `DmCall`), TTLs beyond the grant's, several server processes (the
code runs one). Left out of the modules: the gates before a sign-in (`Sessions`), the
limits of invitations, nicknames and timeouts (`Servers`), activities (`Presence`), edits,
pins, reactions and an account switch in a tab (`Outbox`), mute and deafen flags
(`Voice`), and in `PROJECT.json` the components marked `not_modelled`.

Behaviours met while modelling that no property states as wrong, but a reader of the
code should know:

- Outbox: a plaintext message that is resent after a drop may be stored twice
  (`outbox.ts:371`); an echo of an identical plaintext text retires an entry that was not
  sent; only held messages are on disk; entries restored from it come in the order of
  their keys; a retry after a failed upload sends without the files; a
  verification that arrives between the strict check and the mark that the entry
  waits for it is not noticed until the next flush.
- Sessions: a lost answer to a refresh, or a second tab, may sign a page out; "sign out
  others" may sign out the kept session if it rotates meanwhile.
- Servers: a reordering writes positions of the time of its check; an edit of a role
  writes a whole bitfield that may have changed; a ban may overtake a join; the uses of
  an invitation are checked before they are counted; a join that has committed may
  enter the room after a kick left it.
- KeyErasure: an immediate erasure may mark a request that was filed after the devices
  went.
- DmCall: two handlers of one conversation undo each other (`MCDmCallJoined`); in the worst
  case the save of one brings a ring back after its only timer has fired, and it rings
  until somebody answers, leaves, or the six hours are over. A failed card update leaves a
  live card of a call that is over, and a payload that fails before the timer is armed, or
  a restart, leaves a ring without one.
- PeerPins: the number of a dialog is compared with the contact's, and the pin of the
  moment is marked: if the pin was replaced meanwhile, with an accepted change, that one is.
- Sealed channels and transfer (read, not modelled): `saveEpochKey` starts the
  sequence over, which may meet a send that has read it.

## 6. Plan

1. Done: `DeviceLog`, `DeviceRegistry`, `KeyErasure`, `DmCall`, `PeerPins`, `Presence`,
   `Voice`, `Sessions`, `Servers`, `Outbox`; a theorem for every invariant of a run.
2. `SealedChannel`: minting an epoch against membership changes, the sequence of a
   sender, the plaintext latch; composed with `DeviceLog` through the active devices.
3. `Transfer`: blobs, attempts and burn, composed with the grants of `DeviceLog`.
4. `ReadState`, friends and direct conversations, QR login.
