------------------------------- MODULE Outbox -------------------------------
(***************************************************************************)
(* Messages one user writes in one conversation, from the outbox of a tab   *)
(* (outbox.ts) over its socket to the handler of message:send, and back: an *)
(* acknowledgement over the same socket, or the echo the other sockets of   *)
(* the user receive.  An entry of the outbox is written once, in one tab;   *)
(* every time it is handed to the server is an attempt, and the number of   *)
(* the attempt also stands for the ciphertext it was sealed into.           *)
(***************************************************************************)
EXTENDS Naturals, FiniteSets, SequencesExt

CONSTANTS Tab,          \* open pages of the user, sharing one IndexedDB
          Entry,        \* messages the user writes
          File,         \* uploads
          FilesOf,      \* [Entry -> SUBSET File]
          TextOf,       \* [Entry -> texts]
          Kinds,        \* whether the conversation may be strict and encrypted
          MaxDrops,     \* connections lost or pages reloaded
          MaxRefusals,  \* sends the server refuses or fails to store
          MaxRetries,   \* times the user tries a failed message again
          None          \* no entry, or no tab

ASSUME OutboxAssumption ==
    /\ FilesOf \in [Entry -> SUBSET File]
    /\ DOMAIN TextOf = Entry
    /\ Kinds \subseteq BOOLEAN
    /\ MaxDrops \in Nat /\ MaxRefusals \in Nat /\ MaxRetries \in Nat
    /\ None \notin Entry \union Tab

VARIABLES
    sealed,     \* the conversation is strict and end-to-end encrypted
    queue,      \* the entries of a tab's outbox, oldest first
    awaiting,   \* those marked awaitingVerification
    failed,     \* those marked failed
    holding,    \* those waiting for their uploads
    cipher,     \* the attempt whose ciphertext the stored entry knows, or 0
    flush,      \* where the flush of a tab is
    up,         \* the socket of the tab is connected
    room,       \* and the server has put it in the channel's room
    page,       \* the page has loaded its queue from disk, or begun to
    records,    \* and the records it read there, until they are restored
    saved,      \* entries in IndexedDB
    verified,   \* the contact is verified, or strict mode relaxed
    sends,      \* attempts the server has received or may receive
    rows,       \* messages stored, in order, each an attempt
    uploads,    \* files staged on the server
    payload,    \* the files an entry carries
    echo,       \* attempts whose echo is on its way to a tab
    matched,    \* entries an echo was matched with and that are to be retired
    drops, refusals, retries,   \* counters of the three bounds
    written,    \* every entry, in the order in which it was written
    origin,     \* and the tab it was written in
    abandoned,  \* entries discarded, emptied, or lost with a page
    disturbed   \* entries that failed, were held, or came back from disk

client == <<queue, awaiting, failed, holding, cipher, flush>>
net    == <<up, room, page, records, drops>>
server == <<sends, rows, uploads, refusals>>
browser == <<sealed, saved, verified, payload, retries>>
ghost  == <<written, origin, abandoned, disturbed>>
vars == <<client, net, server, ghost, browser, echo, matched>>

Idle == [pc |-> "idle", entry |-> None, attempt |-> 0, blocked |-> FALSE, own |-> TRUE]

Attempt == 1..Len(sends)
InQueue(t) == ToSet(queue[t])
Stored(e)  == \E i \in DOMAIN rows : sends[rows[i]].entry = e

TypeOK ==
    /\ sealed \in Kinds
    /\ queue \in [Tab -> Seq(Entry)]
    /\ awaiting \in [Tab -> SUBSET Entry]
    /\ failed   \in [Tab -> SUBSET Entry]
    /\ holding  \in [Tab -> SUBSET Entry]
    /\ cipher   \in [Tab -> [Entry -> 0..Len(sends)]]
    /\ flush \in [Tab -> [pc : {"idle", "find", "seal", "refused", "persist", "sealed",
                                "ack", "confirm"},
                          entry : Entry \union {None}, attempt : 0..Len(sends),
                          blocked : BOOLEAN, own : BOOLEAN]]
    /\ up \in [Tab -> BOOLEAN] /\ room \in [Tab -> BOOLEAN] 
    /\ page \in [Tab -> {"new", "opening", "loaded"}]
    /\ records \in [Tab -> SUBSET Entry]
    /\ saved \subseteq Entry
    /\ verified \in BOOLEAN
    /\ sends \in Seq([tab : Tab, entry : Entry, live : BOOLEAN,
                      pc : {"arrived", "claimed", "stored", "told", "failed", "answered"}])
    /\ rows \in Seq(Attempt)
    /\ uploads \subseteq File
    /\ payload \in [Entry -> SUBSET File]
    /\ echo \in [Tab -> SUBSET Attempt]
    /\ matched \in [Tab -> SUBSET Entry]
    /\ drops \in 0..MaxDrops /\ refusals \in 0..MaxRefusals /\ retries \in 0..MaxRetries
    /\ written \in Seq(Entry)
    /\ origin \in [Entry -> Tab \union {None}]
    /\ abandoned \subseteq Entry
    /\ disturbed \subseteq Entry

Init ==
    /\ sealed \in Kinds
    /\ queue = [t \in Tab |-> <<>>]
    /\ awaiting = [t \in Tab |-> {}]
    /\ failed   = [t \in Tab |-> {}]
    /\ holding  = [t \in Tab |-> {}]
    /\ cipher   = [t \in Tab |-> [e \in Entry |-> 0]]
    /\ flush = [t \in Tab |-> Idle]
    /\ up = [t \in Tab |-> FALSE] /\ room = [t \in Tab |-> FALSE]
    /\ page = [t \in Tab |-> "new"] /\ records = [t \in Tab |-> {}]
    /\ saved = {}
    /\ verified = FALSE
    /\ sends = <<>> /\ rows = <<>>
    /\ uploads = {}
    /\ payload = [e \in Entry |-> {}]
    /\ echo = [t \in Tab |-> {}]
    /\ matched = [t \in Tab |-> {}]
    /\ drops = 0 /\ refusals = 0 /\ retries = 0
    /\ written = <<>>
    /\ origin = [e \in Entry |-> None]
    /\ abandoned = {} /\ disturbed = {}

-----------------------------------------------------------------------------
(* Operations on the outbox of a tab.                                       *)

\* flushOutbox is called: it returns at once when a flush is running or the
\* socket is down, and starts from an empty set of blocked channels otherwise.
Kicked(f, connected) == IF f.pc = "idle" /\ connected THEN [Idle EXCEPT !.pc = "find"] ELSE f
Kick(t) == flush' = [flush EXCEPT ![t] = Kicked(@, up[t])]

\* A mutant: entries that wait for a verification are passed over.
SendableSkips(t) == InQueue(t) \ (failed[t] \union holding[t] \union awaiting[t])

\* The entries the loop would pick up.
Sendable(t) == InQueue(t) \ (failed[t] \union holding[t])

\* The first entry of the queue that is in S.
Oldest(t, S) == queue[t][SelectInSeq(queue[t], LAMBDA e : e \in S)]

\* removeEntry: out of the store, where it is only once, and out of IndexedDB.
RemoveEntry(t, e) ==
    /\ queue' = [queue EXCEPT ![t] = RemoveFirst(@, e)]
    /\ awaiting' = [awaiting EXCEPT ![t] = @ \ {e}]
    /\ failed'   = [failed EXCEPT ![t] = @ \ {e}]
    /\ holding'  = [holding EXCEPT ![t] = @ \ {e}]
    /\ cipher'   = [cipher EXCEPT ![t][e] = 0]
    /\ saved' = saved \ {e}

\* A mutant: what arrived during the flush is left for the next event.
EndedForGood(t) == Idle

\* The finally of flushOutbox: another flush follows when the loop left
\* something it would pick up, other than what waits for a verification.
Ended(t) ==
    IF up[t] /\ \E e \in InQueue(t) \ (awaiting[t] \union failed[t] \union holding[t]) : TRUE
    THEN [Idle EXCEPT !.pc = "find"]
    ELSE Idle

-----------------------------------------------------------------------------
(* The user.                                                                *)

\* queueMessage.  A message with files may be written while they are going up.
Write(t, e, hold) ==
    /\ origin[e] = None
    /\ hold => FilesOf[e] # {}
    /\ queue' = [queue EXCEPT ![t] = Append(@, e)]
    /\ holding' = [holding EXCEPT ![t] = IF hold THEN @ \union {e} ELSE @]
    /\ uploads' = IF hold THEN uploads ELSE uploads \union FilesOf[e]
    /\ payload' = [payload EXCEPT ![e] = IF hold THEN {} ELSE FilesOf[e]]
    /\ IF hold THEN UNCHANGED flush ELSE Kick(t)
    /\ written' = Append(written, e)
    /\ origin' = [origin EXCEPT ![e] = t]
    /\ disturbed' = IF hold THEN disturbed \union {e} ELSE disturbed
    /\ UNCHANGED <<awaiting, failed, cipher, net, sends, rows, refusals, abandoned, sealed,
                   saved, verified, retries, echo, matched>>

\* releaseHold: the uploads have landed.
Release(t, e) ==
    /\ e \in holding[t]
    /\ holding' = [holding EXCEPT ![t] = @ \ {e}]
    /\ uploads' = uploads \union FilesOf[e]
    /\ payload' = [payload EXCEPT ![e] = FilesOf[e]]
    /\ Kick(t)
    /\ UNCHANGED <<queue, awaiting, failed, cipher, net, sends, rows, refusals, ghost, sealed,
                   saved, verified, retries, echo, matched>>

\* failHold: an upload did not land.
FailHold(t, e) ==
    /\ e \in holding[t]
    /\ refusals < MaxRefusals
    /\ refusals' = refusals + 1
    /\ holding' = [holding EXCEPT ![t] = @ \ {e}]
    /\ failed' = [failed EXCEPT ![t] = @ \union {e}]
    /\ UNCHANGED <<queue, awaiting, cipher, flush, net, sends, rows, uploads, ghost, browser,
                   echo, matched>>

\* retryMessage.
Retry(t, e) ==
    /\ e \in failed[t]
    /\ retries < MaxRetries
    /\ retries' = retries + 1
    /\ failed' = [failed EXCEPT ![t] = @ \ {e}]
    /\ Kick(t)
    /\ UNCHANGED <<queue, awaiting, holding, cipher, net, server, ghost, sealed, saved,
                   verified, payload, echo, matched>>

\* discardMessage.
Discard(t, e) ==
    /\ e \in failed[t]
    /\ RemoveEntry(t, e)
    /\ abandoned' = abandoned \union {e}
    /\ UNCHANGED <<flush, net, server, written, origin, disturbed, sealed, verified, payload,
                   retries,
                   echo, matched>>

\* The user verifies the contact or relaxes strict mode in this tab, which
\* calls retryBlockedMessages.  That replaces every object of the store, so a
\* running flush no longer holds the one that is in the store.
Verify(t) ==
    /\ sealed /\ ~verified
    /\ page[t] # "new"
    /\ verified' = TRUE
    /\ awaiting' = [awaiting EXCEPT ![t] = {}]
    /\ IF flush[t].pc = "idle" THEN Kick(t) ELSE flush' = [flush EXCEPT ![t].own = FALSE]
    /\ UNCHANGED <<queue, failed, holding, cipher, net, server, ghost, sealed, saved, payload, retries,
                   echo, matched>>

-----------------------------------------------------------------------------
(* The page and its socket.                                                 *)

\* restoreQueuedMessages reads the records that are on disk, and is done with none ...
Load(t) ==
    /\ page[t] = "new"
    /\ page' = [page EXCEPT ![t] = IF saved = {} THEN "loaded" ELSE "opening"]
    /\ records' = [records EXCEPT ![t] = saved]
    /\ UNCHANGED <<client, up, room, drops, server, ghost, browser, echo, matched>>

\* ... and opens them one by one.  What is in the outbox by then is left out; what
\* was sent and taken off the disk meanwhile is not.
Restore(t) ==
    LET restored == records[t] \ InQueue(t) IN
    /\ page[t] = "opening"
    /\ page' = [page EXCEPT ![t] = "loaded"]
    /\ records' = [records EXCEPT ![t] = {}]
    /\ \E s \in SetToSeqs(restored) : queue' = [queue EXCEPT ![t] = s \o @]
    /\ awaiting' = [awaiting EXCEPT ![t] = @ \union restored]
    /\ Kick(t)
    /\ disturbed' = disturbed \union records[t]
    /\ UNCHANGED <<failed, holding, cipher, up, room, drops, server, written, origin, abandoned,
                   browser, echo, matched>>

\* The page is reloaded.  What it had not persisted is gone.
Reload(t) ==
    /\ page[t] # "new" /\ drops < MaxDrops
    /\ drops' = drops + 1
    /\ abandoned' = abandoned \union (InQueue(t) \ saved)
    /\ disturbed' = disturbed \union InQueue(t)
    /\ queue' = [queue EXCEPT ![t] = <<>>]
    /\ awaiting' = [awaiting EXCEPT ![t] = {}]
    /\ failed'   = [failed EXCEPT ![t] = {}]
    /\ holding'  = [holding EXCEPT ![t] = {}]
    /\ cipher' = [cipher EXCEPT ![t] = [e \in Entry |-> 0]]
    /\ flush' = [flush EXCEPT ![t] = Idle]
    /\ page' = [page EXCEPT ![t] = "new"] /\ records' = [records EXCEPT ![t] = {}]
    /\ up' = [up EXCEPT ![t] = FALSE] /\ room' = [room EXCEPT ![t] = FALSE]
    /\ echo' = [echo EXCEPT ![t] = {}] /\ matched' = [matched EXCEPT ![t] = {}]
    /\ sends' = [n \in Attempt |->
                    IF sends[n].tab = t THEN [sends[n] EXCEPT !.live = FALSE] ELSE sends[n]]
    /\ UNCHANGED <<rows, uploads, refusals, written, origin, browser>>

\* The socket connects, for the first time or again.
Connect(t) ==
    /\ ~up[t]
    /\ up' = [up EXCEPT ![t] = TRUE]
    /\ flush' = [flush EXCEPT ![t] = Kicked(@, TRUE)]
    /\ UNCHANGED <<queue, awaiting, failed, holding, cipher, room, page, records, drops, server,
                   ghost, browser, echo, matched>>

\* The server puts the new socket into the room of the channel.
Join(t) ==
    /\ up[t] /\ ~room[t]
    /\ room' = [room EXCEPT ![t] = TRUE]
    /\ UNCHANGED <<client, up, page, records, drops, server, ghost, browser, echo, matched>>

\* The socket is lost, and a flush that waits for an acknowledgement ends.
Disconnect(t) ==
    /\ up[t] /\ drops < MaxDrops
    /\ drops' = drops + 1
    /\ up' = [up EXCEPT ![t] = FALSE] /\ room' = [room EXCEPT ![t] = FALSE]
    /\ echo' = [echo EXCEPT ![t] = {}]
    /\ flush' = [flush EXCEPT ![t] = IF @.pc = "ack" THEN Idle ELSE @]
    /\ sends' = [n \in Attempt |->
                    IF sends[n].tab = t THEN [sends[n] EXCEPT !.live = FALSE] ELSE sends[n]]
    /\ UNCHANGED <<queue, awaiting, failed, holding, cipher, page, records, rows, uploads,
                   refusals, ghost, browser, matched>>

-----------------------------------------------------------------------------
(* The loop of flushOutbox.                                                 *)

\* The entry goes out over the socket.
Emits(t, e) ==
    /\ sends' = Append(sends, [tab |-> t, entry |-> e, live |-> TRUE, pc |-> "arrived"])
    /\ flush' = [flush EXCEPT ![t].pc = "ack", ![t].entry = e, ![t].attempt = Len(sends) + 1]

\* The loop has nothing to pick up, or no socket.
Ends(t) ==
    /\ flush[t].pc = "find"
    /\ ~up[t] \/ flush[t].blocked \/ Sendable(t) = {}
    /\ flush' = [flush EXCEPT ![t] = Ended(t)]
    /\ UNCHANGED <<queue, awaiting, failed, holding, cipher, net, server, ghost, browser, echo,
                   matched>>

\* It picks up the oldest entry.  A plain one is emitted before anything else
\* can happen; a sealed one first has its contact looked up.
Picks(t) ==
    /\ flush[t].pc = "find" /\ up[t] /\ ~flush[t].blocked
    /\ Sendable(t) # {}
    /\ IF sealed
       THEN /\ flush' = [flush EXCEPT ![t].pc = "seal", ![t].entry = Oldest(t, Sendable(t)),
                                      ![t].own = TRUE]
            /\ UNCHANGED sends
       ELSE Emits(t, Oldest(t, Sendable(t)))
    /\ UNCHANGED <<queue, awaiting, failed, holding, cipher, net, rows, uploads, refusals, ghost,
                   browser, echo, matched>>

\* assertMayEncryptTo.
Checks(t) ==
    /\ flush[t].pc = "seal"
    /\ flush' = [flush EXCEPT ![t].pc = IF verified THEN "sealed" ELSE "refused"]
    /\ UNCHANGED <<queue, awaiting, failed, holding, cipher, net, server, ghost, browser, echo,
                   matched>>

\* Its StrictModeError is caught: the channel is blocked for this flush.
Blocks(t) ==
    /\ flush[t].pc = "refused"
    /\ flush' = [flush EXCEPT ![t].pc = "persist", ![t].blocked = TRUE]
    /\ awaiting' = [awaiting EXCEPT ![t] = @ \union ({flush[t].entry} \cap InQueue(t))]
    /\ UNCHANGED <<queue, failed, holding, cipher, net, server, ghost, browser, echo, matched>>

\* persistQueued.
Persists(t) ==
    /\ flush[t].pc = "persist"
    /\ flush' = [flush EXCEPT ![t].pc = "find"]
    /\ saved' = saved \union {flush[t].entry}
    /\ UNCHANGED <<queue, awaiting, failed, holding, cipher, net, server, ghost, sealed,
                   verified, payload, retries, echo, matched>>

\* The sealed message is emitted, or waits in the socket's buffer until there
\* is a connection.
EmitsSealed(t) ==
    /\ flush[t].pc = "sealed" /\ up[t]
    /\ Emits(t, flush[t].entry)
    /\ cipher' = IF flush[t].own /\ flush[t].entry \in InQueue(t)
                 THEN [cipher EXCEPT ![t][flush[t].entry] = Len(sends) + 1] ELSE cipher
    /\ UNCHANGED <<queue, awaiting, failed, holding, net, rows, uploads, refusals, ghost,
                   browser, echo, matched>>

\* The acknowledgement.
AckOk(t) ==
    /\ flush[t].pc = "ack" /\ sends[flush[t].attempt].pc = "told"
    /\ sends' = [sends EXCEPT ![flush[t].attempt].pc = "answered"]
    /\ flush' = [flush EXCEPT ![t].pc = "confirm"]
    /\ UNCHANGED <<queue, awaiting, failed, holding, cipher, net, rows, uploads, refusals, ghost,
                   browser, echo, matched>>

AckError(t) ==
    /\ flush[t].pc = "ack" /\ sends[flush[t].attempt].pc = "failed"
    /\ sends' = [sends EXCEPT ![flush[t].attempt].pc = "answered"]
    /\ flush' = [flush EXCEPT ![t].pc = "find"]
    /\ failed' = [failed EXCEPT ![t] = @ \union ({flush[t].entry} \cap InQueue(t))]
    /\ disturbed' = disturbed \union {flush[t].entry}
    /\ UNCHANGED <<queue, awaiting, holding, cipher, net, rows, uploads, refusals, written,
                   origin, abandoned, browser, echo, matched>>

\* confirmEntry.
Confirms(t) ==
    /\ flush[t].pc = "confirm"
    /\ flush' = [flush EXCEPT ![t].pc = "find"]
    /\ RemoveEntry(t, flush[t].entry)
    /\ UNCHANGED <<net, server, ghost, sealed, verified, payload, retries, echo, matched>>

-----------------------------------------------------------------------------
(* The server.                                                              *)

Becomes(n, step) == sends' = [sends EXCEPT ![n].pc = step]

\* Rate limit, access, slow mode, time-out or encryption say no.
Refuses(n) ==
    /\ sends[n].pc = "arrived" /\ refusals < MaxRefusals
    /\ refusals' = refusals + 1
    /\ Becomes(n, "failed")
    /\ UNCHANGED <<client, net, rows, uploads, ghost, browser, echo, matched>>

\* A mutant: the uploads are looked up and not deleted.
ClaimsKeeping(n) ==
    /\ sends[n].pc = "arrived"
    /\ Becomes(n, IF payload[sends[n].entry] \subseteq uploads THEN "claimed" ELSE "failed")
    /\ UNCHANGED <<client, net, rows, uploads, refusals, ghost, browser, echo, matched>>

\* claim_attachments: the uploads are deleted, and then it is seen whether
\* they were all there.
Claims(n) ==
    /\ sends[n].pc = "arrived"
    /\ uploads' = uploads \ payload[sends[n].entry]
    /\ Becomes(n, IF payload[sends[n].entry] \subseteq uploads THEN "claimed" ELSE "failed")
    /\ UNCHANGED <<client, net, rows, refusals, ghost, browser, echo, matched>>

\* INSERT INTO "Message".
Stores(n) ==
    /\ sends[n].pc = "claimed"
    /\ rows' = Append(rows, n)
    /\ Becomes(n, "stored")
    /\ UNCHANGED <<client, net, uploads, refusals, ghost, browser, echo, matched>>

\* A statement fails before or after the insertion.
Fails(n) ==
    /\ sends[n].pc \in {"claimed", "stored"} /\ refusals < MaxRefusals
    /\ refusals' = refusals + 1
    /\ Becomes(n, "failed")
    /\ UNCHANGED <<client, net, rows, uploads, ghost, browser, echo, matched>>

\* deliver_message: the channel's room hears of it, the sender's socket does not.
Tells(n) ==
    /\ sends[n].pc = "stored"
    /\ echo' = [t \in Tab |-> IF room[t] /\ ~(t = sends[n].tab /\ sends[n].live)
                              THEN echo[t] \union {n} ELSE echo[t]]
    /\ Becomes(n, "told")
    /\ UNCHANGED <<client, net, rows, uploads, refusals, ghost, browser, matched>>

\* sweep_pending: an upload nobody sent for a day.
Sweeps(f) ==
    /\ f \in uploads /\ refusals < MaxRefusals
    /\ refusals' = refusals + 1
    /\ uploads' = uploads \ {f}
    /\ UNCHANGED <<client, net, sends, rows, ghost, browser, echo, matched>>

-----------------------------------------------------------------------------
(* The echo.                                                                *)

\* A mutant: the content of a sealed message cannot be compared, so any will do.
MatchesAny(t, e, n) == sealed \/ TextOf[e] = TextOf[sends[n].entry]

\* matchPendingLocalId: does attempt n look like entry e of this tab?
Matches(t, e, n) ==
    IF sealed THEN cipher[t][e] = n ELSE TextOf[e] = TextOf[sends[n].entry]

\* message:new arrives; the oldest entry that matches is to be retired.
Hears(t, n) ==
    /\ n \in echo[t]
    /\ echo' = [echo EXCEPT ![t] = @ \ {n}]
    /\ LET alike == {e \in Sendable(t) : Matches(t, e, n)}
       IN  matched' = [matched EXCEPT ![t] =
                           IF alike = {} THEN @ ELSE @ \union {Oldest(t, alike)}]
    /\ UNCHANGED <<client, net, server, ghost, browser>>

\* resolvePending, once the message is decrypted and in the list.
Resolves(t, e) ==
    /\ e \in matched[t]
    /\ matched' = [matched EXCEPT ![t] = @ \ {e}]
    /\ RemoveEntry(t, e)
    /\ UNCHANGED <<flush, net, server, ghost, sealed, verified, payload, retries, echo>>

-----------------------------------------------------------------------------
Loop(t) ==
    \/ Ends(t) \/ Picks(t) \/ Checks(t) \/ Blocks(t) \/ Persists(t) \/ EmitsSealed(t)
    \/ AckOk(t) \/ AckError(t) \/ Confirms(t)

User(t) ==
    \/ Verify(t)
    \/ \E e \in Entry :
        \/ \E hold \in BOOLEAN : Write(t, e, hold)
        \/ Release(t, e) \/ FailHold(t, e) \/ Retry(t, e) \/ Discard(t, e)

Page(t) == Load(t) \/ Restore(t) \/ Reload(t) \/ Connect(t) \/ Join(t) \/ Disconnect(t)

Hearing(t) == (\E n \in echo[t] : Hears(t, n)) \/ (\E e \in Entry : Resolves(t, e))

Handles(n) == Claims(n) \/ Stores(n) \/ Tells(n)

Next ==
    \/ \E t \in Tab : User(t) \/ Page(t) \/ Loop(t) \/ Hearing(t)
    \/ \E n \in Attempt : Handles(n) \/ Refuses(n) \/ Fails(n)
    \/ \E f \in File : Sweeps(f)

\* The page runs its own steps, a lost socket reconnects (reconnectionAttempts is
\* Infinity), and the server answers what came over a socket that is still there.
\* The user and the faults owe nothing.
Fairness ==
    /\ \A t \in Tab : WF_vars(Loop(t)) /\ WF_vars(Connect(t)) /\ WF_vars(Load(t) \/ Restore(t))
    /\ WF_vars(\E n \in Attempt : sends[n].live /\ Handles(n))

Spec == Init /\ [][Next]_vars

FairSpec == Spec /\ Fairness

-----------------------------------------------------------------------------
(* Properties.                                                              *)

\* A message that was written is in an outbox, on disk, or on the server, until
\* the user discards it or closes the page it waits in.
NothingLost ==
    \A e \in ToSet(written) \ abandoned :
        e \in saved \/ Stored(e) \/ \E t \in Tab : e \in InQueue(t)

\* Messages of one tab that nothing held up are stored in the order in which
\* they were written.
InOrder ==
    \A i, j \in DOMAIN written : \A k \in DOMAIN rows :
        (/\ i < j
         /\ origin[written[i]] = origin[written[j]]
         /\ {written[i], written[j]} \cap (disturbed \union abandoned) = {}
         /\ sends[rows[k]].entry = written[j])
        => \E l \in 1..k : sends[rows[l]].entry = written[i]

Inv == TypeOK /\ InOrder

\* A message that carries files is never stored twice: the claim of its files
\* succeeds once, whatever is sent again.
FilesOnce ==
    \A i, j \in DOMAIN rows :
        (/\ sends[rows[i]].entry = sends[rows[j]].entry
         /\ payload[sends[rows[i]].entry] # {}) => i = j

\* Once the contact is verified, an entry that waits for nothing else is sent,
\* refused or discarded: a release, a retry or a new message that meets a running
\* flush is seen.  Not said of the one entry whose check began before the
\* verification and ends after it (Checks, Verify, Blocks): it is marked as waiting
\* once more, and nothing releases it until the next flush.
Flushable(t) == InQueue(t) \ (awaiting[t] \union failed[t] \union holding[t])

Flushed ==
    \A t \in Tab, e \in Entry :
        (/\ verified \/ ~sealed
         /\ e \in Flushable(t)
         /\ ~(flush[t].pc = "refused" /\ flush[t].entry = e))
        ~> (e \notin InQueue(t) \/ e \in failed[t])

\* A flush comes to an end: what the loop cannot send does not make it start over.
FlushEnds == \A t \in Tab : flush[t].pc # "idle" ~> flush[t].pc = "idle"
=============================================================================
