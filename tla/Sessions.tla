------------------------------ MODULE Sessions ------------------------------
(***************************************************************************)
(* The sessions of one account: a key refresh:<jti> in Redis for each        *)
(* session, the set refresh:user:<id> that lists them, and the cookie of each *)
(* browser.  A request runs beside the others, one Redis command at a time,   *)
(* and stops for good wherever it is when the page loses the connection.      *)
(* The checks by which a sign-in is allowed are left out.                     *)
(***************************************************************************)
EXTENDS FiniteSets

CONSTANTS Token,    \* the jtis of sessions, used again once forgotten
          Page, Browser,
          Home,     \* [Page -> Browser]: the pages of a browser share its cookie
          Task,     \* requests running at the same time
          Excuse,   \* what may cost a page its session, apart from its end
          None

ASSUME SessionsAssumption ==
    /\ Home \in [Page -> Browser]
    /\ Excuse \subseteq {"cut", "twice"}
    /\ None \notin Token

VARIABLES
    stored,     \* the tokens whose key exists
    member,     \* the tokens in the set of the account
    cookie,     \* the token each browser holds
    page,       \* whether a page believes to be signed in
    run,        \* the requests
    ended,      \* tokens somebody ended, that expired, or whose exchange has an excuse
    out         \* browsers signed out by somebody else

vars == <<stored, member, cookie, page, run, ended, out>>

Idle == [op |-> "idle", pc |-> "idle", page |-> {}, old |-> None, new |-> None,
         todo |-> {}, due |-> {}]

Ops == {"idle", "login", "refresh", "logout", "revoke", "others", "list"}
Steps == {"idle", "valid", "del", "srem", "set", "add", "answer", "read", "next"}

Requests == [op : Ops, pc : Steps, page : SUBSET Page,
             old : Token \union {None}, new : Token \union {None},
             todo : SUBSET Token, due : SUBSET Browser]

TypeOK ==
    /\ stored \subseteq Token /\ member \subseteq Token
    /\ cookie \in [Browser -> Token \union {None}]
    /\ page \in [Page -> {"in", "out"}]
    /\ run \in [Task -> Requests]
    /\ ended \subseteq Token
    /\ out \subseteq Browser

Init ==
    /\ stored = {} /\ member = {}
    /\ cookie = [b \in Browser |-> None]
    /\ page = [t \in Page |-> "out"]
    /\ run = [p \in Task |-> Idle]
    /\ ended = {} /\ out = {}

-----------------------------------------------------------------------------
Of(p) == {Home[t] : t \in run[p].page}

\* The tokens browsers and requests hold.
Held == {cookie[b] : b \in Browser} \union UNION {{run[p].old, run[p].new} : p \in Task}

\* A jti nobody knows: uuids do not repeat.
Fresh == Token \ (stored \union member \union Held \union UNION {run[p].todo : p \in Task})

\* The request of page t starts.  A browser that asks for a token is no longer one
\* a revocation under way has to sign out.
Starts(p, t, op, step, old) ==
    /\ run[p].op = "idle"
    /\ \A q \in Task : run[q].page = {t} => run[q].op # op
    /\ run' = [q \in Task |->
                 IF q = p THEN [Idle EXCEPT !.op = op, !.pc = step, !.page = {t}, !.old = old]
                 ELSE IF op \in {"login", "refresh"} THEN [run[q] EXCEPT !.due = @ \ {Home[t]}]
                 ELSE run[q]]

Goes(p, step) == run' = [run EXCEPT ![p].pc = step]
Ends(p) == run' = [run EXCEPT ![p] = Idle]
At(p, op, step) == run[p].op = op /\ run[p].pc = step

\* Every way to sign in ends in issue_session.
Login(p, t) ==
    /\ page[t] = "out"
    /\ Starts(p, t, "login", "set", None)
    /\ out' = out \ {Home[t]}
    /\ UNCHANGED <<stored, member, cookie, page, ended>>

\* refreshSession; a page has one at a time.
Refresh(p, t) ==
    /\ cookie[Home[t]] # None
    /\ Starts(p, t, "refresh", "valid", cookie[Home[t]])
    /\ ended' = IF /\ "twice" \in Excuse
                   /\ \E q \in Task : run[q].op = "refresh" /\ run[q].old = cookie[Home[t]]
                THEN ended \union {cookie[Home[t]]} ELSE ended
    /\ UNCHANGED <<stored, member, cookie, page, out>>

\* Without a cookie the answer is known.
RefreshNothing(t) ==
    /\ page[t] = "in" /\ cookie[Home[t]] = None
    /\ page' = [page EXCEPT ![t] = "out"]
    /\ UNCHANGED <<stored, member, cookie, run, ended, out>>

Logout(p, t) ==
    /\ page[t] = "in" /\ cookie[Home[t]] # None
    /\ Starts(p, t, "logout", "del", cookie[Home[t]])
    /\ ended' = ended \union {cookie[Home[t]]}
    /\ UNCHANGED <<stored, member, cookie, page, out>>

\* revoke_session.
RevokeSession(p, t, k) ==
    /\ page[t] = "in" /\ k \in member
    /\ Starts(p, t, "revoke", "valid", k)
    /\ UNCHANGED <<stored, member, cookie, page, ended, out>>

\* revoke_other_sessions and lockdown keep the session of the request; a new password
\* and the end of the account keep none.
RevokeOthers(p, t, keep) ==
    /\ page[t] = "in" /\ keep \in {cookie[Home[t]], None}
    /\ Starts(p, t, "others", "read", keep)
    /\ UNCHANGED <<stored, member, cookie, page, ended, out>>

ListSessions(p, t) ==
    /\ page[t] = "in"
    /\ Starts(p, t, "list", "read", None)
    /\ UNCHANGED <<stored, member, cookie, page, ended, out>>

-----------------------------------------------------------------------------
(* The steps of a request.                                                  *)

\* is_refresh_token_valid.  A page whose refresh is refused ends its local session.
Validates(p) ==
    /\ run[p].pc = "valid"
    /\ IF run[p].old \in stored
       THEN /\ Goes(p, "del")
            /\ ended' = IF run[p].op = "revoke" THEN ended \union {run[p].old} ELSE ended
            /\ UNCHANGED page
       ELSE /\ Ends(p)
            /\ page' = [t \in Page |-> IF run[p].op = "refresh" /\ t \in run[p].page
                                       THEN "out" ELSE page[t]]
            /\ UNCHANGED ended
    /\ UNCHANGED <<stored, member, cookie, out>>

\* A mutant: a session that is revoked is taken off the list, and its key left.
DeletesNoKey(p) ==
    /\ run[p].pc = "del"
    /\ stored' = IF run[p].op = "refresh" THEN stored \ {run[p].old} ELSE stored
    /\ Goes(p, "srem")
    /\ UNCHANGED <<member, cookie, page, ended, out>>

\* revoke_refresh_token, for the sessions of a list one after the other.
Deletes(p) ==
    /\ run[p].pc = "del"
    /\ stored' = stored \ {run[p].old}
    /\ Goes(p, "srem")
    /\ UNCHANGED <<member, cookie, page, ended, out>>

Removes(p) ==
    /\ run[p].pc = "srem"
    /\ member' = member \ {run[p].old}
    /\ CASE run[p].op = "refresh" -> Goes(p, "set")
         [] run[p].op = "logout" -> Goes(p, "answer")
         [] run[p].op = "revoke" -> Ends(p)
         [] OTHER -> run' = [run EXCEPT ![p].pc = "next", ![p].old = None]
    /\ UNCHANGED <<stored, cookie, page, ended, out>>

\* A mutant: the set is written before the key.
RegistersSetFirst(p) ==
    \/ \E k \in Fresh : /\ run[p].pc = "set"
                        /\ member' = member \union {k}
                        /\ run' = [run EXCEPT ![p].pc = "add", ![p].new = k]
                        /\ ended' = ended \ Fresh
                        /\ UNCHANGED stored
    \/ /\ run[p].pc = "add"
       /\ stored' = stored \union {run[p].new}
       /\ Goes(p, "answer")
       /\ UNCHANGED <<member, ended>>

\* register_refresh_token.
Registers(p) ==
    \/ \E k \in Fresh : /\ run[p].pc = "set"
                        /\ stored' = stored \union {k}
                        /\ run' = [run EXCEPT ![p].pc = "add", ![p].new = k]
                        /\ ended' = ended \ Fresh
                        /\ UNCHANGED member
    \/ /\ run[p].pc = "add"
       /\ member' = member \union {run[p].new}
       /\ Goes(p, "answer")
       /\ UNCHANGED <<stored, ended>>

Answers(p) ==
    /\ run[p].pc = "answer"
    /\ LET b == CHOOSE c \in Browser : Of(p) = {c}
           t == CHOOSE u \in Page : run[p].page = {u}
       IN CASE run[p].op \in {"login", "refresh"} ->
                 /\ cookie' = [cookie EXCEPT ![b] = run[p].new]
                 /\ page' = [page EXCEPT ![t] = "in"]
            [] run[p].op = "logout" ->
                 /\ cookie' = [cookie EXCEPT ![b] = None]
                 /\ page' = [page EXCEPT ![t] = "out"]
    /\ Ends(p)
    /\ UNCHANGED <<stored, member, ended, out>>

\* A mutant: the session of the request is revoked with the others.
ReadsItsOwn(p) ==
    /\ run[p].pc = "read"
    /\ run' = [run EXCEPT ![p].pc = "next", ![p].todo = member, ![p].old = None]
    /\ ended' = IF run[p].op = "others" THEN ended \union (member \ {run[p].old}) ELSE ended
    /\ UNCHANGED <<stored, member, cookie, page, out>>

\* SMEMBERS, and the sessions it returned.
ReadsSet(p) ==
    /\ run[p].pc = "read"
    /\ LET others == run[p].op = "others"
           keeps == IF others /\ run[p].old # None THEN Of(p) ELSE {}
           asks == UNION {Of(q) : q \in {r \in Task : run[r].op \in {"login", "refresh"}}}
       IN /\ run' = [run EXCEPT ![p].pc = "next",
                                ![p].todo = member \ {run[p].old}, ![p].old = None,
                                ![p].due = IF others THEN Browser \ (keeps \union asks) ELSE {}]
          /\ ended' = IF others THEN ended \union (member \ {run[p].old})
                     ELSE ended
    /\ UNCHANGED <<stored, member, cookie, page, out>>

Takes(p, k) == run' = [run EXCEPT ![p].pc = "del", ![p].old = k, ![p].todo = @ \ {k}]

RevokesNext(p) ==
    /\ At(p, "others", "next")
    /\ \/ /\ run[p].todo = {} /\ Ends(p)
          /\ out' = out \union run[p].due
       \/ \E k \in run[p].todo : Takes(p, k) /\ UNCHANGED out
    /\ UNCHANGED <<stored, member, cookie, page, ended>>

\* A session listed without a key has expired, and is struck off.
ListsNext(p) ==
    /\ At(p, "list", "next")
    /\ \/ run[p].todo = {} /\ Ends(p)
       \/ \E k \in run[p].todo :
             run' = IF k \in stored THEN [run EXCEPT ![p].todo = @ \ {k}]
                    ELSE [run EXCEPT ![p].pc = "srem", ![p].old = k, ![p].todo = @ \ {k}]
    /\ UNCHANGED <<stored, member, cookie, page, ended, out>>

-----------------------------------------------------------------------------
\* The connection is lost, and the handler is dropped where it is.  A page that was
\* signing out is out all the same; one that was refreshing tries again.
Drops(p) ==
    /\ run[p].op # "idle"
    /\ page' = [t \in Page |-> IF run[p].op = "logout" /\ t \in run[p].page
                               THEN "out" ELSE page[t]]
    /\ ended' = IF run[p].op = "refresh" /\ "cut" \in Excuse
                THEN ended \union {run[p].old} ELSE ended
    /\ Ends(p)
    /\ UNCHANGED <<stored, member, cookie, out>>

\* The key of a session expires.
Expires(k) ==
    /\ k \in stored
    /\ stored' = stored \ {k}
    /\ ended' = ended \union {k}
    /\ UNCHANGED <<member, cookie, page, run, out>>

\* The cookie was given the life of the key, later: it goes once the key has gone.
\* That is weeks, and no request of the browser happens to run just then.
Forgets(b) ==
    /\ cookie[b] # None /\ cookie[b] \notin stored
    /\ \A p \in Task : b \notin Of(p)
    /\ cookie' = [cookie EXCEPT ![b] = None]
    /\ UNCHANGED <<stored, member, page, run, ended, out>>

-----------------------------------------------------------------------------
Request(p) ==
    \E t \in Page :
        \/ Login(p, t) \/ Refresh(p, t) \/ Logout(p, t) \/ ListSessions(p, t)
        \/ \E k \in Token : RevokeSession(p, t, k)
        \/ \E k \in Token \union {None} : RevokeOthers(p, t, k)

Handler(p) ==
    \/ Validates(p) \/ Deletes(p) \/ Removes(p)
    \/ Registers(p) /\ UNCHANGED <<cookie, page, out>>
    \/ Answers(p) \/ ReadsSet(p) \/ RevokesNext(p) \/ ListsNext(p)

Next ==
    \/ \E p \in Task : Request(p) \/ Handler(p) \/ Drops(p)
    \/ \E t \in Page : RefreshNothing(t)
    \/ \E k \in Token : Expires(k)
    \/ \E b \in Browser : Forgets(b)

Spec == Init /\ [][Next]_vars

-----------------------------------------------------------------------------
(* Properties.                                                              *)

InUse(k) ==
    \/ \E b \in Browser : cookie[b] = k
    \/ \E p \in Task : run[p].new = k /\ run[p].pc = "answer"

\* A session a browser holds, or is about to be given, is in the set of the account
\* as long as it is alive: nothing a browser uses is missing from the list of devices,
\* whatever requests overlap or stop half way.
Listed == \A k \in stored : InUse(k) => k \in member

Inv == TypeOK /\ Listed

\* Once a revocation of all sessions is done, a browser it was not to keep, and that
\* asked for no token while it ran, has no session any more.
SignedOut == \A b \in out : cookie[b] \notin stored

\* A page loses its session only if somebody ended that session, or if the exchange
\* of its token was cut short or tried twice.
LosesItFairly ==
    [][\A t \in Page :
         page[t] = "in" /\ page'[t] = "out" =>
            \/ cookie[Home[t]] = None
            \/ \E p \in Task : /\ run[p].page = {t}
                               /\ run[p].old \in ended]_vars
=============================================================================
