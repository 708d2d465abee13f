------------------------------ MODULE Presence ------------------------------
(***************************************************************************)
(* Whether one user is online: the leases of their sockets in Redis, the    *)
(* socket handlers that keep them, the sweep, and what the others were last *)
(* told.  Each Lua script of presence.rs is one step, and so is every other *)
(* command a handler awaits.  A socket identifier is used once.             *)
(***************************************************************************)
EXTENDS FiniteSets

CONSTANTS Socket,       \* connections of the user, one after the other or at once
          Task,         \* handlers and sweeps running at the same time
          Choices,      \* statuses the user may pick
          Cycles        \* lifecycles a page may report

ASSUME PresenceAssumption ==
    /\ Choices \subseteq {"online", "idle", "dnd", "offline"}
    /\ Cycles \subseteq {"online", "idle"}

VARIABLES
    conn,       \* where the connection of a socket is
    db,         \* the keys of the user in Redis
    run,        \* the handlers
    told,       \* the status of the last broadcast
    missed      \* somebody else noticed that the user went, or the broadcast was late

vars == <<conn, db, run, told, missed>>

Lifecycle == {"online", "idle"}
Statuses  == {"online", "idle", "dnd", "offline"}

\* presence:leases, devices, lifecycle and status of the user, and whether
\* presence:users lists them.
Gone == [lease |-> [s \in Socket |-> "none"], devices |-> {},
         cycle |-> [s \in Socket |-> "none"], status |-> "none", listed |-> FALSE]

Idle == [pc |-> "idle", sock |-> {}, want |-> "online", first |-> FALSE, say |-> "online",
         sweep |-> FALSE]

TypeOK ==
    /\ conn \in [Socket -> {"new", "open", "closed"}]
    /\ db \in [lease : [Socket -> {"none", "live", "lapsed"}], devices : SUBSET Socket,
               cycle : [Socket -> Lifecycle \union {"none"}],
               status : Statuses \union {"none"}, listed : BOOLEAN]
    /\ run \in [Task ->
                [pc : {"idle", "add", "fresh", "refresh", "life", "score", "hset", "choose",
                       "remove", "sweep", "prune", "get", "card", "emit"},
                 sock : SUBSET Socket, want : Statuses, first : BOOLEAN, say : Statuses,
                 sweep : BOOLEAN]]
    /\ told \in Statuses
    /\ missed \in BOOLEAN

Init ==
    /\ conn = [s \in Socket |-> "new"]
    /\ db = Gone
    /\ run = [p \in Task |-> Idle]
    /\ told = "offline" /\ missed = FALSE

-----------------------------------------------------------------------------
(* The scripts.                                                             *)

Live(r) == {s \in Socket : r.lease[s] = "live"}

\* The expired leases go, with the fields of their sockets.
Expired(r) ==
    LET gone == {s \in Socket : r.lease[s] = "lapsed"}
    IN  [r EXCEPT !.lease = [s \in Socket |-> IF s \in gone THEN "none" ELSE @[s]],
                  !.devices = @ \ gone,
                  !.cycle = [s \in Socket |-> IF s \in gone THEN "none" ELSE @[s]]]

\* prune_user: the last lease takes every key of the user with it.
Pruned(r) == IF Live(r) = {} THEN Gone ELSE Expired(r)

\* A mutant: the user is put on the list when the status is set.
UpsertedUnlisted(r, s) ==
    [Expired(r) EXCEPT !.lease[s] = "live", !.devices = @ \union {s},
                       !.cycle[s] = IF @ = "none" THEN "online" ELSE @]

\* add_socket and refresh_socket; the user comes online if no lease was live.
Upserted(r, s) ==
    [Expired(r) EXCEPT !.lease[s] = "live", !.devices = @ \union {s},
                       !.cycle[s] = IF @ = "none" THEN "online" ELSE @, !.listed = TRUE]

\* remove_socket.
Removed(r, s) ==
    Pruned([r EXCEPT !.lease[s] = "none", !.devices = @ \ {s}, !.cycle[s] = "none"])

\* get_status, after its prune: what the user picked, unless that is online and
\* every socket says it is idle.
Effective(r) ==
    LET said == {r.cycle[s] : s \in Socket} \ {"none"}
    IN  IF r.status \notin {"none", "online"} THEN r.status
        ELSE IF said = {} \/ "online" \in said THEN "online" ELSE "idle"

\* What a reader is told at this moment.
Reads(r) == IF Live(r) = {} THEN "offline" ELSE Effective(r)

-----------------------------------------------------------------------------
(* Handlers.                                                                *)

Starts(p, step, s, want) ==
    /\ run[p].pc = "idle"
    /\ run' = [run EXCEPT ![p] = [Idle EXCEPT !.pc = step, !.sock = {s}, !.want = want]]

Goes(p, step) == run' = [run EXCEPT ![p].pc = step]
Ends(p) == run' = [run EXCEPT ![p] = Idle]

\* The handler forgets what it no longer needs.
Turns(p, step) == run' = [run EXCEPT ![p] = [Idle EXCEPT !.pc = step]]
Tells(p, status) == run' = [run EXCEPT ![p] = [Idle EXCEPT !.pc = "card", !.say = status]]

\* A prune, by whomever.  The script says that the user was taken off the list,
\* but only the sweep and remove_socket listen.
Prunes == db' = Pruned(db)
Unheard == missed' = (missed \/ (db.listed /\ Live(db) = {}))

\* handle_connect: the socket joins its rooms, and is then added.
Connect(p, s) ==
    /\ conn[s] = "new"
    /\ conn' = [conn EXCEPT ![s] = "open"]
    /\ Starts(p, "add", s, "online")
    /\ UNCHANGED <<db, told, missed>>

Adds(p, s) ==
    /\ run[p].pc = "add" /\ run[p].sock = {s}
    /\ db' = Upserted(db, s)
    /\ Turns(p, IF Live(db) = {} THEN "fresh" ELSE "prune")
    /\ UNCHANGED <<conn, told, missed>>

\* set_status: the user is online, or what they picked.
SetsOnline(p) ==
    /\ run[p].pc = "fresh"
    /\ db' = [db EXCEPT !.status = "online"]
    /\ Turns(p, "prune")
    /\ UNCHANGED <<conn, told, missed>>

Update(p, s, want) ==
    /\ conn[s] = "open"
    /\ Starts(p, "choose", s, want)
    /\ UNCHANGED <<conn, db, told, missed>>

SetsStatus(p) ==
    /\ run[p].pc = "choose"
    /\ db' = [db EXCEPT !.status = run[p].want]
    /\ Turns(p, "prune")
    /\ UNCHANGED <<conn, told, missed>>

\* presence:heartbeat, and set_socket_lifecycle, which is also presence:lifecycle.
Heartbeat(p, s, want) ==
    /\ conn[s] = "open"
    /\ Starts(p, "refresh", s, want)
    /\ UNCHANGED <<conn, db, told, missed>>

\* A mutant: a heartbeat that finds no other lease is taken for any other.
RefreshesQuietly(p, s) ==
    /\ run[p].pc = "refresh" /\ run[p].sock = {s}
    /\ db' = Upserted(db, s)
    /\ run' = [run EXCEPT ![p].pc = "life"]
    /\ UNCHANGED <<conn, told, missed>>

Refreshes(p, s) ==
    /\ run[p].pc = "refresh" /\ run[p].sock = {s}
    /\ db' = Upserted(db, s)
    /\ run' = [run EXCEPT ![p].pc = "life", ![p].first = (Live(db) = {})]
    /\ UNCHANGED <<conn, told, missed>>

SaysLifecycle(p, s, want) ==
    /\ conn[s] = "open"
    /\ run[p].pc = "idle"
    /\ run' = [run EXCEPT ![p] = [Idle EXCEPT !.pc = "life", !.sock = {s}, !.want = want,
                                              !.say = "idle"]]
    /\ UNCHANGED <<conn, db, told, missed>>

\* What follows the lifecycle: a heartbeat goes on only if it was the first sign
\* of life, a lifecycle event only if it was written.
AfterLife(p, written) ==
    IF run[p].first THEN Turns(p, "fresh")
    ELSE IF run[p].say = "idle" /\ written THEN Turns(p, "prune")
    ELSE Ends(p)

LifePrunes(p) ==
    /\ run[p].pc = "life"
    /\ Prunes /\ Unheard
    /\ IF Live(db) = {} THEN AfterLife(p, FALSE) ELSE Goes(p, "score")
    /\ UNCHANGED <<conn, told>>

LifeScores(p, s) ==
    /\ run[p].pc = "score" /\ run[p].sock = {s}
    /\ IF db.lease[s] = "none" THEN AfterLife(p, FALSE) ELSE Goes(p, "hset")
    /\ UNCHANGED <<conn, db, told, missed>>

LifeWrites(p, s) ==
    /\ run[p].pc = "hset" /\ run[p].sock = {s}
    /\ db' = [db EXCEPT !.cycle[s] = run[p].want]
    /\ AfterLife(p, TRUE)
    /\ UNCHANGED <<conn, told, missed>>

\* The socket goes, and its handler removes it.
Disconnect(p, s) ==
    /\ conn[s] = "open"
    /\ conn' = [conn EXCEPT ![s] = "closed"]
    /\ Starts(p, "remove", s, "online")
    /\ UNCHANGED <<db, told, missed>>

Removes(p, s) ==
    /\ run[p].pc = "remove" /\ run[p].sock = {s}
    /\ db' = Removed(db, s)
    /\ IF Live(db) \subseteq {s} THEN Tells(p, "offline") ELSE Turns(p, "prune")
    /\ UNCHANGED <<conn, told, missed>>

\* get_status.
StatusPrunes(p) ==
    /\ run[p].pc = "prune"
    /\ Prunes /\ Unheard
    /\ IF Live(db) = {} THEN Tells(p, "offline") ELSE Turns(p, "get")
    /\ UNCHANGED <<conn, told>>

StatusReads(p) ==
    /\ run[p].pc = "get"
    /\ Tells(p, Effective(db))
    /\ UNCHANGED <<conn, db, told, missed>>

\* broadcast_presence: get_devices and get_activities prune, and the status that
\* was read before goes out.
CardPrunes(p) ==
    /\ run[p].pc = "card"
    /\ Prunes /\ Unheard
    /\ Goes(p, "emit")
    /\ UNCHANGED <<conn, told>>

Offline(status) == status = "offline"

Emits(p) ==
    /\ run[p].pc = "emit"
    /\ told' = run[p].say
    /\ missed' = (Offline(run[p].say) # Offline(Reads(db)))
    /\ Ends(p)
    /\ UNCHANGED <<conn, db>>

-----------------------------------------------------------------------------
(* The sweep, other readers, and time.                                      *)

\* sweep_expired_leases lists the users and prunes them one by one.
SweepLists(p) ==
    /\ run[p].pc = "idle" /\ db.listed
    /\ \A q \in Task : ~run[q].sweep
    /\ run' = [run EXCEPT ![p] = [Idle EXCEPT !.pc = "sweep", !.sweep = TRUE]]
    /\ UNCHANGED <<conn, db, told, missed>>

\* A mutant: the sweep tidies up and tells nobody.
SweepPrunesQuietly(p) ==
    /\ run[p].pc = "sweep"
    /\ Prunes
    /\ Ends(p)
    /\ UNCHANGED <<conn, told, missed>>

SweepPrunes(p) ==
    /\ run[p].pc = "sweep"
    /\ Prunes
    /\ IF db.listed /\ Live(db) = {}
       THEN run' = [run EXCEPT ![p].pc = "card", ![p].say = "offline"]
       ELSE Ends(p)
    /\ UNCHANGED <<conn, told, missed>>

\* Lists of friends, members and conversations, the push sweep and the Spotify
\* poll read presence, too.
Reader ==
    /\ Prunes /\ Unheard
    /\ UNCHANGED <<conn, run, told>>

\* A lease runs out: of a socket that is gone, or of one whose page sleeps.
Lapse(s) ==
    /\ db.lease[s] = "live"
    /\ db' = [db EXCEPT !.lease[s] = "lapsed"]
    /\ UNCHANGED <<conn, run, told, missed>>

\* The server starts again: clear_stale_startup_presence, before any socket.
\* The others have lost their sockets too, and read anew.
Restart ==
    /\ conn' = [s \in Socket |-> IF conn[s] = "open" THEN "closed" ELSE conn[s]]
    /\ db' = Gone
    /\ run' = [p \in Task |-> Idle]
    /\ told' = "offline" /\ missed' = FALSE

-----------------------------------------------------------------------------
Handler(p) ==
    \/ SetsOnline(p) \/ SetsStatus(p) \/ LifePrunes(p) \/ StatusPrunes(p) \/ StatusReads(p)
    \/ CardPrunes(p) \/ Emits(p) \/ SweepPrunes(p)
    \/ \E s \in Socket : Adds(p, s) \/ Refreshes(p, s) \/ LifeScores(p, s) \/ LifeWrites(p, s)
                         \/ Removes(p, s)

Event(p) ==
    \E s \in Socket :
        \/ Connect(p, s) \/ Disconnect(p, s)
        \/ \E want \in Choices : Update(p, s, want)
        \/ \E want \in Cycles : Heartbeat(p, s, want) \/ SaysLifecycle(p, s, want)

Next ==
    \/ \E p \in Task : Event(p) \/ SweepLists(p) \/ Handler(p)
    \/ Reader \/ Restart
    \/ \E s \in Socket : Lapse(s)

\* A handler that runs goes on, the interval of main.rs sweeps every ten seconds,
\* and nobody renews the lease of a socket that is gone.
Fairness ==
    /\ \A p \in Task : WF_vars(Handler(p))
    /\ WF_vars(\E p \in Task : SweepLists(p))
    /\ \A s \in Socket : WF_vars(conn[s] = "closed" /\ Lapse(s))

Spec == Init /\ [][Next]_vars

FairSpec == Spec /\ Fairness

-----------------------------------------------------------------------------
(* Properties.                                                              *)

\* The keys agree: whoever has a lease is on the list the sweep works from, the
\* devices are those of the leases, and every lease has a lifecycle.
KeysAgree ==
    LET leased == {s \in Socket : db.lease[s] # "none"}
    IN  /\ leased # {} => db.listed
        /\ db.devices = leased
        /\ \A s \in leased : db.cycle[s] # "none"

Inv == TypeOK /\ KeysAgree

\* Once every handler is done and the sweep has nothing to find, the others
\* believe the user to be offline exactly if they are, unless a reader noticed
\* first or a broadcast was overtaken.
ToldTheTruth ==
    (/\ \A p \in Task : run[p].pc \in {"idle", "sweep"}
     /\ db.listed => Live(db) # {}
     /\ ~missed)
    => (Offline(told) <=> Offline(Reads(db)))

\* A user whose sockets are all gone is offline for good, and that was said,
\* with the same exceptions; whatever the order of the last handlers.
GoneIsSeen ==
    (\A s \in Socket : conn[s] = "closed")
        ~> [](Offline(Reads(db)) /\ (Offline(told) \/ missed))

=============================================================================
