--------------------------- MODULE SessionsProofs ---------------------------
(***************************************************************************)
(* Proofs about Sessions, for every number of browsers, pages, tokens and    *)
(* overlapping requests: the invariant of the runs, that a revocation of all  *)
(* sessions signs the others out, and what may cost a page its session.      *)
(***************************************************************************)
EXTENDS Sessions, TLAPS

USE SessionsAssumption

-----------------------------------------------------------------------------
(* What the ways to write run do to it.                                     *)

\* A request that goes on to another step.
GoesTo(p, s) ==
    /\ run'[p].pc = s
    /\ run'[p].op = run[p].op /\ run'[p].page = run[p].page
    /\ run'[p].old = run[p].old /\ run'[p].new = run[p].new
    /\ run'[p].todo = run[p].todo /\ run'[p].due = run[p].due

\* A request that ends.
IdleAt(p) ==
    /\ run'[p].op = "idle" /\ run'[p].pc = "idle" /\ run'[p].page = {}
    /\ run'[p].old = None /\ run'[p].new = None
    /\ run'[p].todo = {} /\ run'[p].due = {}

Others(p) == \A q \in Task \ {p} : run'[q] = run[q]

LEMMA GoesEffect ==
  ASSUME run \in [Task -> Requests], NEW p \in Task, NEW s \in Steps, Goes(p, s)
  PROVE  run' \in [Task -> Requests] /\ GoesTo(p, s) /\ Others(p)
<1>1. [run[p] EXCEPT !.pc = s] \in Requests
  BY DEF Requests
<1>2. run' = [run EXCEPT ![p] = [run[p] EXCEPT !.pc = s]]
  BY DEF Goes
<1>3. run'[p] = [run[p] EXCEPT !.pc = s] /\ Others(p)
  BY <1>2 DEF Others
<1>4. run[p] \in Requests
  OBVIOUS
<1>5. GoesTo(p, s)
  BY <1>3, <1>4 DEF GoesTo, Requests
<1> QED BY <1>1, <1>2, <1>3, <1>5

LEMMA EndsEffect ==
  ASSUME run \in [Task -> Requests], NEW p \in Task, Ends(p)
  PROVE  run' \in [Task -> Requests] /\ IdleAt(p) /\ Others(p)
<1>1. Idle \in Requests
  BY DEF Idle, Requests, Ops, Steps
<1>2. run' = [run EXCEPT ![p] = Idle]
  BY DEF Ends
<1>3. run'[p] = Idle /\ Others(p)
  BY <1>2 DEF Others
<1>4. /\ Idle.op = "idle" /\ Idle.pc = "idle" /\ Idle.page = {}
      /\ Idle.old = None /\ Idle.new = None /\ Idle.todo = {} /\ Idle.due = {}
  BY DEF Idle
<1>5. IdleAt(p)
  BY <1>3, <1>4 DEF IdleAt
<1> QED BY <1>1, <1>2, <1>3, <1>5

\* A request that starts: it asks for nothing yet, and the others are as they were,
\* except that the browser may no longer be one they have to sign out.
StartsAt(p, t, op, step, old) ==
    /\ run[p].op = "idle"
    /\ run'[p].op = op /\ run'[p].pc = step /\ run'[p].page = {t}
    /\ run'[p].old = old /\ run'[p].new = None
    /\ run'[p].todo = {} /\ run'[p].due = {}

AsideOf(q, t, op) ==
    /\ run'[q].op = run[q].op /\ run'[q].pc = run[q].pc
    /\ run'[q].page = run[q].page
    /\ run'[q].old = run[q].old /\ run'[q].new = run[q].new
    /\ run'[q].todo = run[q].todo
    /\ run'[q].due = IF op \in {"login", "refresh"} THEN run[q].due \ {Home[t]}
                     ELSE run[q].due

Aside(p, t, op) == \A q \in Task \ {p} : AsideOf(q, t, op)

LEMMA StartsEffect ==
  ASSUME run \in [Task -> Requests], NEW p \in Task, NEW t \in Page,
         NEW op \in Ops, NEW step \in Steps, NEW old \in Token \union {None},
         Starts(p, t, op, step, old)
  PROVE  run' \in [Task -> Requests] /\ StartsAt(p, t, op, step, old) /\ Aside(p, t, op)
<1> DEFINE mine == [Idle EXCEPT !.op = op, !.pc = step, !.page = {t}, !.old = old]
           their(q) == IF op \in {"login", "refresh"}
                       THEN [run[q] EXCEPT !.due = @ \ {Home[t]}] ELSE run[q]
<1>1. /\ mine \in Requests
      /\ mine.op = op /\ mine.pc = step /\ mine.page = {t} /\ mine.old = old
      /\ mine.new = None /\ mine.todo = {} /\ mine.due = {}
  BY DEF Idle, Requests
<1>2. ASSUME NEW q \in Task
      PROVE  /\ their(q) \in Requests
             /\ their(q).op = run[q].op /\ their(q).pc = run[q].pc
             /\ their(q).page = run[q].page
             /\ their(q).old = run[q].old /\ their(q).new = run[q].new
             /\ their(q).todo = run[q].todo
             /\ their(q).due = IF op \in {"login", "refresh"} THEN run[q].due \ {Home[t]}
                               ELSE run[q].due
  <2>1. run[q] \in Requests
    OBVIOUS
  <2> QED BY <2>1 DEF Requests
<1>3. /\ run' = [q \in Task |-> IF q = p THEN mine ELSE their(q)]
      /\ run[p].op = "idle"
  BY DEF Starts
<1>4. run'[p] = mine /\ \A q \in Task \ {p} : run'[q] = their(q)
  BY <1>3
<1>5. run' \in [Task -> Requests]
  BY <1>1, <1>2, <1>3
<1> HIDE DEF mine, their
<1>6. StartsAt(p, t, op, step, old)
  BY <1>1, <1>3, <1>4 DEF StartsAt
<1>7. Aside(p, t, op)
  <2>1. ASSUME NEW q \in Task \ {p}
        PROVE  AsideOf(q, t, op)
    BY <1>2, <1>4 DEF AsideOf
  <2> QED BY <2>1 DEF Aside
<1> QED BY <1>5, <1>6, <1>7

\* A request that takes the next session of its list.
TakesAt(p, k, step) ==
    /\ run'[p].op = run[p].op /\ run'[p].pc = step /\ run'[p].page = run[p].page
    /\ run'[p].old = k /\ run'[p].new = run[p].new
    /\ run'[p].todo = run[p].todo \ {k} /\ run'[p].due = run[p].due

LEMMA TakesEffect ==
  ASSUME run \in [Task -> Requests], NEW p \in Task, NEW k \in Token,
         NEW step \in Steps,
         run' = [run EXCEPT ![p].pc = step, ![p].old = k, ![p].todo = @ \ {k}]
  PROVE  run' \in [Task -> Requests] /\ TakesAt(p, k, step) /\ Others(p)
<1> DEFINE mine == [run[p] EXCEPT !.pc = step, !.old = k, !.todo = @ \ {k}]
<1>1. run[p] \in Requests
  OBVIOUS
<1>2. /\ mine \in Requests
      /\ mine.op = run[p].op /\ mine.pc = step /\ mine.page = run[p].page
      /\ mine.old = k /\ mine.new = run[p].new
      /\ mine.todo = run[p].todo \ {k} /\ mine.due = run[p].due
  BY <1>1 DEF Requests
<1>3. run' = [run EXCEPT ![p] = mine]
  OBVIOUS
<1> HIDE DEF mine
<1>4. run'[p] = mine /\ \A q \in Task \ {p} : run'[q] = run[q]
  BY <1>3
<1> QED BY <1>2, <1>3, <1>4 DEF TakesAt, Others

\* The session of the list was alive.
LooksAt(p, k) ==
    /\ run'[p].op = run[p].op /\ run'[p].pc = run[p].pc /\ run'[p].page = run[p].page
    /\ run'[p].old = run[p].old /\ run'[p].new = run[p].new
    /\ run'[p].todo = run[p].todo \ {k} /\ run'[p].due = run[p].due

LEMMA LooksEffect ==
  ASSUME run \in [Task -> Requests], NEW p \in Task, NEW k \in Token,
         run' = [run EXCEPT ![p].todo = @ \ {k}]
  PROVE  run' \in [Task -> Requests] /\ LooksAt(p, k) /\ Others(p)
<1> DEFINE mine == [run[p] EXCEPT !.todo = @ \ {k}]
<1>1. run[p] \in Requests
  OBVIOUS
<1>2. /\ mine \in Requests
      /\ mine.op = run[p].op /\ mine.pc = run[p].pc /\ mine.page = run[p].page
      /\ mine.old = run[p].old /\ mine.new = run[p].new
      /\ mine.todo = run[p].todo \ {k} /\ mine.due = run[p].due
  BY <1>1 DEF Requests
<1>3. run' = [run EXCEPT ![p] = mine]
  OBVIOUS
<1> HIDE DEF mine
<1>4. run'[p] = mine /\ \A q \in Task \ {p} : run'[q] = run[q]
  BY <1>3
<1> QED BY <1>2, <1>3, <1>4 DEF LooksAt, Others

\* A session of a list is struck off, and the request goes on with the next.
BackAt(p) ==
    /\ run'[p].op = run[p].op /\ run'[p].pc = "next" /\ run'[p].page = run[p].page
    /\ run'[p].old = None /\ run'[p].new = run[p].new
    /\ run'[p].todo = run[p].todo /\ run'[p].due = run[p].due

LEMMA BackEffect ==
  ASSUME run \in [Task -> Requests], NEW p \in Task,
         run' = [run EXCEPT ![p].pc = "next", ![p].old = None]
  PROVE  run' \in [Task -> Requests] /\ BackAt(p) /\ Others(p)
<1> DEFINE mine == [run[p] EXCEPT !.pc = "next", !.old = None]
<1>1. run[p] \in Requests
  OBVIOUS
<1>2. /\ mine \in Requests
      /\ mine.op = run[p].op /\ mine.pc = "next" /\ mine.page = run[p].page
      /\ mine.old = None /\ mine.new = run[p].new
      /\ mine.todo = run[p].todo /\ mine.due = run[p].due
  BY <1>1 DEF Requests, Steps
<1>3. run' = [run EXCEPT ![p] = mine]
  OBVIOUS
<1> HIDE DEF mine
<1>4. run'[p] = mine /\ \A q \in Task \ {p} : run'[q] = run[q]
  BY <1>3
<1> QED BY <1>2, <1>3, <1>4 DEF BackAt, Others

\* A new token.
MakesAt(p, k) ==
    /\ run'[p].op = run[p].op /\ run'[p].pc = "add" /\ run'[p].page = run[p].page
    /\ run'[p].old = run[p].old /\ run'[p].new = k
    /\ run'[p].todo = run[p].todo /\ run'[p].due = run[p].due

LEMMA MakesEffect ==
  ASSUME run \in [Task -> Requests], NEW p \in Task, NEW k \in Token,
         run' = [run EXCEPT ![p].pc = "add", ![p].new = k]
  PROVE  run' \in [Task -> Requests] /\ MakesAt(p, k) /\ Others(p)
<1> DEFINE mine == [run[p] EXCEPT !.pc = "add", !.new = k]
<1>1. run[p] \in Requests
  OBVIOUS
<1>2. /\ mine \in Requests
      /\ mine.op = run[p].op /\ mine.pc = "add" /\ mine.page = run[p].page
      /\ mine.old = run[p].old /\ mine.new = k
      /\ mine.todo = run[p].todo /\ mine.due = run[p].due
  BY <1>1 DEF Requests, Steps
<1>3. run' = [run EXCEPT ![p] = mine]
  OBVIOUS
<1> HIDE DEF mine
<1>4. run'[p] = mine /\ \A q \in Task \ {p} : run'[q] = run[q]
  BY <1>3
<1> QED BY <1>2, <1>3, <1>4 DEF MakesAt, Others

\* The set is read.
Asks == UNION {Of(q) : q \in {r \in Task : run[r].op \in {"login", "refresh"}}}

Keeps(p) == IF run[p].op = "others" /\ run[p].old # None THEN Of(p) ELSE {}

ReadsAt(p) ==
    /\ run'[p].op = run[p].op /\ run'[p].pc = "next" /\ run'[p].page = run[p].page
    /\ run'[p].old = None /\ run'[p].new = run[p].new
    /\ run'[p].todo = member \ {run[p].old}
    /\ run'[p].due = IF run[p].op = "others" THEN Browser \ (Keeps(p) \union Asks) ELSE {}

LEMMA ReadsEffect ==
  ASSUME run \in [Task -> Requests], member \subseteq Token, NEW p \in Task, ReadsSet(p)
  PROVE  run' \in [Task -> Requests] /\ ReadsAt(p) /\ Others(p)
<1> DEFINE theirs == IF run[p].op = "others" THEN Browser \ (Keeps(p) \union Asks) ELSE {}
           mine == [run[p] EXCEPT !.pc = "next", !.todo = member \ {run[p].old},
                                  !.old = None, !.due = theirs]
<1>1. run[p] \in Requests /\ theirs \subseteq Browser
  OBVIOUS
<1>2. run' = [run EXCEPT ![p] = mine]
  BY DEF ReadsSet, Keeps, Asks
<1> HIDE DEF theirs
<1>3. /\ mine \in Requests
      /\ mine.op = run[p].op /\ mine.pc = "next" /\ mine.page = run[p].page
      /\ mine.old = None /\ mine.new = run[p].new
      /\ mine.todo = member \ {run[p].old} /\ mine.due = theirs
  BY <1>1 DEF Requests, Steps
<1> HIDE DEF mine
<1>4. run'[p] = mine /\ \A q \in Task \ {p} : run'[q] = run[q]
  BY <1>2
<1> USE DEF theirs
<1> QED BY <1>2, <1>3, <1>4 DEF ReadsAt, Others

-----------------------------------------------------------------------------
(* The inductive invariant.                                                 *)

\* What the step of a request says of its fields.
Fits(p) ==
    /\ run[p].pc \in {"set", "add"} => run[p].op \in {"login", "refresh"}
    /\ run[p].pc = "valid" => run[p].op \in {"refresh", "revoke"}
    /\ run[p].pc = "del" => run[p].op \in {"refresh", "logout", "revoke", "others"}
    /\ run[p].pc = "add" => run[p].new # None
    /\ run[p].pc = "answer" => run[p].op \in {"login", "refresh", "logout"}
    /\ run[p].pc \in {"read", "next"} => run[p].op \in {"others", "list"}
    /\ run[p].new # None => run[p].pc \in {"add", "answer"} /\ run[p].op \in {"login", "refresh"}
    /\ run[p].op = "idle" => run[p].pc = "idle"
    /\ run[p].op = "refresh" => run[p].old # None
    /\ run[p].op = "login" => run[p].pc \in {"set", "add", "answer"}
    /\ run[p].op # "idle" => \E t \in Page : run[p].page = {t}

Shape == \A p \in Task : Fits(p)

\* A token that is about to be struck off the list has lost its key.
StruckOff == \A p \in Task : run[p].pc = "srem" => run[p].old \notin stored

\* A token is in one browser, or on its way to one; and what a request exchanges or
\* keeps is in no other browser than its own.
Apart == \A b, c \in Browser : b # c => cookie[b] = None \/ cookie[b] # cookie[c]

OnItsWay(p) ==
    run[p].new # None =>
        /\ \A b \in Browser : cookie[b] # run[p].new
        /\ \A q \in Task \ {p} : run[q].new # run[p].new

ItsOwn(p) ==
    (\/ run[p].op = "refresh"
     \/ run[p].op = "others" /\ run[p].pc = "read" /\ run[p].old # None) =>
        /\ \A b \in Browser \ Of(p) : cookie[b] # run[p].old
        /\ \A q \in Task : run[q].new # run[p].old

Owners == Apart /\ \A p \in Task : OnItsWay(p) /\ ItsOwn(p)

\* A browser that a revocation under way has to sign out asks for no token, and
\* the session it has is one of those that are still to be revoked.
DueOf(p) ==
    \A b \in run[p].due :
        /\ run[p].op = "others" /\ run[p].pc \in {"next", "del", "srem"}
        /\ \A q \in Task : run[q].op \in {"login", "refresh"} => b \notin Of(q)
        /\ cookie[b] \in stored =>
              cookie[b] \in run[p].todo \/ (run[p].pc = "del" /\ cookie[b] = run[p].old)

Due == \A p \in Task : DueOf(p)

\* A browser that was signed out has asked for nothing but a refresh that will fail.
Failing(q) ==
    /\ run[q].op # "login"
    /\ run[q].op = "refresh" => run[q].pc = "valid" /\ run[q].old \notin stored

Outside ==
    \A b \in out : cookie[b] \notin stored /\ \A q \in Task : b \in Of(q) => Failing(q)

\* A token that is gone, in a browser or on its way to one, or about to be deleted,
\* was ended by somebody, or is being exchanged.
Exchanged(k) == \E q \in Task : run[q].op = "refresh" /\ run[q].old = k

Accounted == \A b \in Browser :
    cookie[b] \in Token \ (stored \union ended) => Exchanged(cookie[b])

Excused(p) ==
    /\ run[p].new \in Token => run[p].new \in stored \union ended
    /\ run[p].op = "refresh" /\ run[p].pc = "valid" => run[p].old \in stored \union ended
    /\ run[p].op = "refresh" =>
          \A q \in Task \ {p} : run[q].op = "refresh" /\ run[q].old = run[p].old => run[p].old \in ended
    /\ run[p].op \in {"revoke", "others"} /\ run[p].pc = "del" => run[p].old \in ended
    /\ run[p].op = "logout" => run[p].old \in ended
    /\ run[p].op = "others" => run[p].todo \subseteq ended

Fair == Accounted /\ \A p \in Task : Excused(p)

-----------------------------------------------------------------------------
(* What the actions do to run.                                              *)

LEMMA RunTyped ==
  ASSUME TypeOK
  PROVE  run \in [Task -> Requests]
BY DEF TypeOK

LoginDoes(p, t) ==
    /\ StartsAt(p, t, "login", "set", None) /\ Aside(p, t, "login")
    /\ page[t] = "out" /\ out' = out \ {Home[t]} /\ UNCHANGED <<stored, member, cookie, page, ended>>

LEMMA LoginWrites ==
  ASSUME TypeOK, NEW p \in Task, NEW t \in Page, Login(p, t)
  PROVE  run' \in [Task -> Requests] /\ LoginDoes(p, t)
BY RunTyped, StartsEffect DEF LoginDoes, Login, Steps, TypeOK, Ops

RefreshDoes(p, t) ==
    /\ StartsAt(p, t, "refresh", "valid", cookie[Home[t]]) /\ Aside(p, t, "refresh")
    /\ cookie[Home[t]] # None
    /\ ended' = IF /\ "twice" \in Excuse
                   /\ \E q \in Task : run[q].op = "refresh" /\ run[q].old = cookie[Home[t]]
                THEN ended \union {cookie[Home[t]]} ELSE ended
    /\ UNCHANGED <<stored, member, cookie, page, out>>

LEMMA RefreshWrites ==
  ASSUME TypeOK, NEW p \in Task, NEW t \in Page, Refresh(p, t)
  PROVE  run' \in [Task -> Requests] /\ RefreshDoes(p, t)
<1>1. cookie[Home[t]] \in Token
  BY DEF Refresh, TypeOK
<1>2. /\ run' \in [Task -> Requests]
      /\ StartsAt(p, t, "refresh", "valid", cookie[Home[t]]) /\ Aside(p, t, "refresh")
  BY <1>1, RunTyped, StartsEffect DEF Refresh, Steps, Ops
<1> QED BY <1>2 DEF RefreshDoes, Refresh

LogoutDoes(p, t) ==
    /\ StartsAt(p, t, "logout", "del", cookie[Home[t]]) /\ Aside(p, t, "logout")
    /\ cookie[Home[t]] # None /\ ended' = ended \union {cookie[Home[t]]}
    /\ UNCHANGED <<stored, member, cookie, page, out>>

LEMMA LogoutWrites ==
  ASSUME TypeOK, NEW p \in Task, NEW t \in Page, Logout(p, t)
  PROVE  run' \in [Task -> Requests] /\ LogoutDoes(p, t)
<1>1. cookie[Home[t]] \in Token \union {None}
  BY DEF TypeOK
<1> QED BY <1>1, RunTyped, StartsEffect DEF LogoutDoes, Logout, Steps, Ops

ListSessionsDoes(p, t) ==
    /\ StartsAt(p, t, "list", "read", None) /\ Aside(p, t, "list")
    /\ UNCHANGED <<stored, member, cookie, page, ended, out>>

LEMMA ListSessionsWrites ==
  ASSUME TypeOK, NEW p \in Task, NEW t \in Page, ListSessions(p, t)
  PROVE  run' \in [Task -> Requests] /\ ListSessionsDoes(p, t)
BY RunTyped, StartsEffect DEF ListSessionsDoes, ListSessions, Steps, TypeOK, Ops

RevokeSessionDoes(p, t, k) ==
    /\ StartsAt(p, t, "revoke", "valid", k) /\ Aside(p, t, "revoke")
    /\ UNCHANGED <<stored, member, cookie, page, ended, out>>

LEMMA RevokeSessionWrites ==
  ASSUME TypeOK, NEW p \in Task, NEW t \in Page, NEW k \in Token, RevokeSession(p, t, k)
  PROVE  run' \in [Task -> Requests] /\ RevokeSessionDoes(p, t, k)
BY RunTyped, StartsEffect DEF RevokeSessionDoes, RevokeSession, Steps, TypeOK, Ops

RevokeOthersDoes(p, t, k) ==
    /\ StartsAt(p, t, "others", "read", k) /\ Aside(p, t, "others")
    /\ k \in {cookie[Home[t]], None} /\ UNCHANGED <<stored, member, cookie, page, ended, out>>

LEMMA RevokeOthersWrites ==
  ASSUME TypeOK, NEW p \in Task, NEW t \in Page, NEW k \in Token \union {None}, RevokeOthers(p, t, k)
  PROVE  run' \in [Task -> Requests] /\ RevokeOthersDoes(p, t, k)
BY RunTyped, StartsEffect DEF RevokeOthersDoes, RevokeOthers, Steps, TypeOK, Ops

ValidatesDoes(p) ==
    /\ (IF run[p].old \in stored THEN GoesTo(p, "del") ELSE IdleAt(p)) /\ Others(p)
    /\ run[p].pc = "valid" /\ UNCHANGED <<stored, member, cookie, out>>
    /\ ended' = IF run[p].op = "revoke" /\ run[p].old \in stored
                THEN ended \union {run[p].old} ELSE ended
    /\ page' \in [Page -> {"in", "out"}]
    /\ \A t \in Page : page'[t] # page[t] =>
          run[p].op = "refresh" /\ t \in run[p].page /\ run[p].old \notin stored

LEMMA ValidatesWrites ==
  ASSUME TypeOK, NEW p \in Task, Validates(p)
  PROVE  run' \in [Task -> Requests] /\ ValidatesDoes(p)
<1>1. /\ run' \in [Task -> Requests] /\ Others(p)
      /\ IF run[p].old \in stored THEN GoesTo(p, "del") ELSE IdleAt(p)
  BY RunTyped, GoesEffect, EndsEffect DEF Validates, Steps
<1>2. CASE run[p].old \in stored
  BY <1>1, <1>2 DEF ValidatesDoes, Validates, TypeOK
<1>3. CASE run[p].old \notin stored
  <2>1. page' = [t \in Page |-> IF run[p].op = "refresh" /\ t \in run[p].page
                                THEN "out" ELSE page[t]]
    BY <1>3 DEF Validates
  <2>2. /\ page' \in [Page -> {"in", "out"}]
        /\ \A t \in Page : page'[t] # page[t] => run[p].op = "refresh" /\ t \in run[p].page
    BY <2>1 DEF TypeOK
  <2> QED BY <1>1, <1>3, <2>2 DEF ValidatesDoes, Validates
<1> QED BY <1>2, <1>3

DeletesDoes(p) ==
    /\ GoesTo(p, "srem") /\ Others(p)
    /\ run[p].pc = "del" /\ stored' = stored \ {run[p].old}
    /\ UNCHANGED <<member, cookie, page, ended, out>>

LEMMA DeletesWrites ==
  ASSUME TypeOK, NEW p \in Task, Deletes(p)
  PROVE  run' \in [Task -> Requests] /\ DeletesDoes(p)
BY RunTyped, GoesEffect DEF DeletesDoes, Deletes, Steps, TypeOK, Ops

RemovesDoes(p) ==
    /\ run[p].op = "refresh" => GoesTo(p, "set")
    /\ run[p].op = "logout" => GoesTo(p, "answer")
    /\ run[p].op = "revoke" => IdleAt(p)
    /\ run[p].op \notin {"refresh", "logout", "revoke"} => BackAt(p)
    /\ Others(p)
    /\ run[p].pc = "srem" /\ member' = member \ {run[p].old}
    /\ UNCHANGED <<stored, cookie, page, ended, out>>

LEMMA RemovesWrites ==
  ASSUME TypeOK, NEW p \in Task, Removes(p)
  PROVE  run' \in [Task -> Requests] /\ RemovesDoes(p)
BY RunTyped, GoesEffect, EndsEffect, BackEffect DEF RemovesDoes, Removes, Steps, TypeOK, Ops

RegistersDoes(p) ==
    /\ \/ run[p].pc = "set" /\ (\E k \in Fresh : MakesAt(p, k) /\ stored' = stored \union {k}) /\ member' = member
       \/ run[p].pc = "add" /\ GoesTo(p, "answer") /\ stored' = stored /\ member' = member \union {run[p].new}
    /\ Others(p)
    /\ ended' \in {ended, ended \ Fresh} /\ UNCHANGED <<cookie, page, out>>

LEMMA RegistersWrites ==
  ASSUME TypeOK, NEW p \in Task, Registers(p), UNCHANGED <<cookie, page, out>>
  PROVE  run' \in [Task -> Requests] /\ RegistersDoes(p)
BY RunTyped, GoesEffect, MakesEffect DEF RegistersDoes, Registers, Fresh, Steps, TypeOK, Ops

AnswersDoes(p) ==
    /\ IdleAt(p) /\ Others(p)
    /\ run[p].pc = "answer"
    /\ \A t \in Page : run[p].page = {t} =>
          cookie' = [cookie EXCEPT ![Home[t]] = IF run[p].op = "logout" THEN None ELSE run[p].new]
    /\ page' \in [Page -> {"in", "out"}]
    /\ \A t \in Page : page[t] = "in" /\ page'[t] = "out" =>
          run[p].op = "logout" /\ run[p].page = {t}
    /\ UNCHANGED <<stored, member, ended, out>>

LEMMA AnswersWrites ==
  ASSUME TypeOK, NEW p \in Task, Fits(p), Answers(p)
  PROVE  run' \in [Task -> Requests] /\ AnswersDoes(p)
<1>1. run' \in [Task -> Requests] /\ IdleAt(p) /\ Others(p)
  BY RunTyped, EndsEffect DEF Answers
<1>2. run[p].op \in {"login", "refresh", "logout"} /\ \E t \in Page : run[p].page = {t}
  BY DEF Answers, Fits
<1>3. PICK s \in Page : run[p].page = {s}
  BY <1>2
<1>4. Home[s] = CHOOSE c \in Browser : Of(p) = {c}
  BY <1>3 DEF Of
<1>5. s = CHOOSE u \in Page : run[p].page = {u}
  BY <1>3
<1>6. /\ cookie' = [cookie EXCEPT ![Home[s]] = IF run[p].op = "logout" THEN None ELSE run[p].new]
      /\ page' = [page EXCEPT ![s] = IF run[p].op = "logout" THEN "out" ELSE "in"]
  BY <1>2, <1>4, <1>5 DEF Answers
<1>7. /\ page' \in [Page -> {"in", "out"}]
      /\ \A t \in Page : page[t] = "in" /\ page'[t] = "out" =>
            run[p].op = "logout" /\ run[p].page = {t}
  BY <1>3, <1>6 DEF TypeOK
<1> QED BY <1>1, <1>3, <1>6, <1>7 DEF AnswersDoes, Answers

RevokesNextDoes(p) ==
    /\ (\/ run[p].todo = {} /\ IdleAt(p) /\ out' = out \union run[p].due
       \/ \E k \in run[p].todo : TakesAt(p, k, "del") /\ out' = out)
    /\ Others(p)
    /\ run[p].op = "others" /\ run[p].pc = "next" /\ UNCHANGED <<stored, member, cookie, page, ended>>

LEMMA RevokesNextWrites ==
  ASSUME TypeOK, NEW p \in Task, RevokesNext(p)
  PROVE  run' \in [Task -> Requests] /\ RevokesNextDoes(p)
<1>1. run[p].todo \subseteq Token
  BY RunTyped DEF Requests
<1>2. CASE run[p].todo = {} /\ Ends(p) /\ out' = out \union run[p].due
  BY <1>2, RunTyped, EndsEffect DEF RevokesNextDoes, RevokesNext, At
<1>3. ASSUME NEW k \in run[p].todo, Takes(p, k), out' = out
      PROVE  run' \in [Task -> Requests] /\ TakesAt(p, k, "del") /\ Others(p)
  BY <1>1, <1>3, RunTyped, TakesEffect DEF Takes, Steps
<1> QED BY <1>2, <1>3 DEF RevokesNextDoes, RevokesNext, At

ListsNextDoes(p) ==
    /\ (\/ IdleAt(p)
       \/ \E k \in run[p].todo : IF k \in stored THEN LooksAt(p, k) ELSE TakesAt(p, k, "srem"))
    /\ Others(p)
    /\ run[p].op = "list" /\ run[p].pc = "next" /\ UNCHANGED <<stored, member, cookie, page, ended, out>>

LEMMA ListsNextWrites ==
  ASSUME TypeOK, NEW p \in Task, ListsNext(p)
  PROVE  run' \in [Task -> Requests] /\ ListsNextDoes(p)
<1>1. run[p].todo \subseteq Token
  BY RunTyped DEF Requests
<1>2. CASE Ends(p)
  BY <1>2, RunTyped, EndsEffect DEF ListsNextDoes, ListsNext, At
<1>3. ASSUME NEW k \in run[p].todo, k \in stored, run' = [run EXCEPT ![p].todo = @ \ {k}]
      PROVE  run' \in [Task -> Requests] /\ LooksAt(p, k) /\ Others(p)
  BY <1>1, <1>3, RunTyped, LooksEffect
<1>4. ASSUME NEW k \in run[p].todo, k \notin stored,
             run' = [run EXCEPT ![p].pc = "srem", ![p].old = k, ![p].todo = @ \ {k}]
      PROVE  run' \in [Task -> Requests] /\ TakesAt(p, k, "srem") /\ Others(p)
  BY <1>1, <1>4, RunTyped, TakesEffect DEF Steps
<1> QED BY <1>2, <1>3, <1>4 DEF ListsNextDoes, ListsNext, At

DropsDoes(p) ==
    /\ IdleAt(p) /\ Others(p)
    /\ run[p].op # "idle" /\ UNCHANGED <<stored, member, cookie, out>>
    /\ ended' = IF run[p].op = "refresh" /\ "cut" \in Excuse
                THEN ended \union {run[p].old} ELSE ended
    /\ page' \in [Page -> {"in", "out"}]
    /\ \A t \in Page : page'[t] # page[t] => run[p].op = "logout" /\ t \in run[p].page

LEMMA DropsWrites ==
  ASSUME TypeOK, NEW p \in Task, Drops(p)
  PROVE  run' \in [Task -> Requests] /\ DropsDoes(p)
BY RunTyped, EndsEffect DEF DropsDoes, Drops, Steps, TypeOK, Ops

ReadsSetDoes(p) ==
    /\ ReadsAt(p) /\ Others(p)
    /\ run[p].pc = "read"
    /\ ended' = IF run[p].op = "others" THEN ended \union (member \ {run[p].old}) ELSE ended
    /\ UNCHANGED <<stored, member, cookie, page, out>>

LEMMA ReadsSetWrites ==
  ASSUME TypeOK, NEW p \in Task, ReadsSet(p)
  PROVE  run' \in [Task -> Requests] /\ ReadsSetDoes(p)
BY RunTyped, ReadsEffect DEF ReadsSetDoes, TypeOK, ReadsSet

-----------------------------------------------------------------------------
(* Every step keeps it.                                                     *)

\* Types.
LEMMA TypeStep ==
  ASSUME TypeOK, Shape, [Next]_vars
  PROVE  TypeOK'
<1>1. ASSUME NEW p \in Task, NEW t \in Page,
             Login(p, t)
      PROVE  TypeOK'
  <2>1. run' \in [Task -> Requests] /\ LoginDoes(p, t)
    BY <1>1, LoginWrites
  <2> QED BY <2>1 DEF LoginDoes, TypeOK
<1>2. ASSUME NEW p \in Task, NEW t \in Page,
             Refresh(p, t)
      PROVE  TypeOK'
  <2>1. run' \in [Task -> Requests] /\ RefreshDoes(p, t)
    BY <1>2, RefreshWrites
  <2>2. cookie[Home[t]] \in Token
    BY <2>1 DEF RefreshDoes, TypeOK
  <2>3. ended' \subseteq Token
    BY <2>1, <2>2 DEF RefreshDoes, TypeOK
  <2> QED BY <2>1, <2>3 DEF RefreshDoes, TypeOK
<1>3. ASSUME NEW p \in Task, NEW t \in Page,
             Logout(p, t)
      PROVE  TypeOK'
  <2>1. run' \in [Task -> Requests] /\ LogoutDoes(p, t)
    BY <1>3, LogoutWrites
  <2>2. cookie[Home[t]] \in Token
    BY <2>1 DEF LogoutDoes, TypeOK
  <2>3. ended' \subseteq Token
    BY <2>1, <2>2 DEF LogoutDoes, TypeOK
  <2> QED BY <2>1, <2>3 DEF LogoutDoes, TypeOK
<1>4. ASSUME NEW p \in Task, NEW t \in Page,
             ListSessions(p, t)
      PROVE  TypeOK'
  <2>1. run' \in [Task -> Requests] /\ ListSessionsDoes(p, t)
    BY <1>4, ListSessionsWrites
  <2> QED BY <2>1 DEF ListSessionsDoes, TypeOK
<1>5. ASSUME NEW p \in Task, NEW t \in Page, NEW k \in Token,
             RevokeSession(p, t, k)
      PROVE  TypeOK'
  <2>1. run' \in [Task -> Requests] /\ RevokeSessionDoes(p, t, k)
    BY <1>5, RevokeSessionWrites
  <2> QED BY <2>1 DEF RevokeSessionDoes, TypeOK
<1>6. ASSUME NEW p \in Task, NEW t \in Page, NEW k \in Token \union {None},
             RevokeOthers(p, t, k)
      PROVE  TypeOK'
  <2>1. run' \in [Task -> Requests] /\ RevokeOthersDoes(p, t, k)
    BY <1>6, RevokeOthersWrites
  <2> QED BY <2>1 DEF RevokeOthersDoes, TypeOK
<1>7. ASSUME NEW p \in Task,
             Validates(p)
      PROVE  TypeOK'
  <2>1. run' \in [Task -> Requests] /\ ValidatesDoes(p)
    BY <1>7, ValidatesWrites
  <2>2. run[p].old \in Token \union {None}
    BY RunTyped DEF Requests
  <2>3. ended' \subseteq Token
    BY <2>1, <2>2 DEF ValidatesDoes, TypeOK
  <2> QED BY <2>1, <2>3 DEF ValidatesDoes, TypeOK
<1>8. ASSUME NEW p \in Task,
             Deletes(p)
      PROVE  TypeOK'
  <2>1. run' \in [Task -> Requests] /\ DeletesDoes(p)
    BY <1>8, DeletesWrites
  <2> QED BY <2>1 DEF DeletesDoes, TypeOK
<1>9. ASSUME NEW p \in Task,
             Removes(p)
      PROVE  TypeOK'
  <2>1. run' \in [Task -> Requests] /\ RemovesDoes(p)
    BY <1>9, RemovesWrites
  <2> QED BY <2>1 DEF RemovesDoes, TypeOK
<1>10. ASSUME NEW p \in Task,
             Registers(p), UNCHANGED <<cookie, page, out>>
      PROVE  TypeOK'
  <2>1. run' \in [Task -> Requests] /\ RegistersDoes(p)
    BY <1>10, RegistersWrites
  <2>2. run[p].new \in Token \union {None} /\ Fits(p)
    BY RunTyped DEF Requests, Shape
  <2>3. stored' \subseteq Token /\ member' \subseteq Token
    BY <2>1, <2>2 DEF RegistersDoes, TypeOK, Fresh, Fits
  <2>4. ended' \subseteq Token
    BY <2>1 DEF RegistersDoes, TypeOK
  <2> QED BY <2>1, <2>3, <2>4 DEF RegistersDoes, TypeOK
<1>11. ASSUME NEW p \in Task,
             Answers(p)
      PROVE  TypeOK'
  <2>1. Fits(p)
    BY DEF Shape
  <2>2. run' \in [Task -> Requests] /\ AnswersDoes(p)
    BY <1>11, <2>1, AnswersWrites
  <2>3. run[p].new \in Token \union {None}
    BY RunTyped DEF Requests
  <2>4. PICK t \in Page : run[p].page = {t}
    BY <2>1, <2>2 DEF Fits, AnswersDoes
  <2> DEFINE k == IF run[p].op = "logout" THEN None ELSE run[p].new
  <2>5. cookie' = [cookie EXCEPT ![Home[t]] = k]
    BY <2>2, <2>4 DEF AnswersDoes
  <2>6. k \in Token \union {None}
    BY <2>3
  <2> HIDE DEF k
  <2>7. cookie' \in [Browser -> Token \union {None}]
    BY <2>5, <2>6 DEF TypeOK
  <2> QED BY <2>2, <2>7 DEF AnswersDoes, TypeOK
<1>12. ASSUME NEW p \in Task,
             ReadsSet(p)
      PROVE  TypeOK'
  <2>1. run' \in [Task -> Requests] /\ ReadsSetDoes(p)
    BY <1>12, ReadsSetWrites
  <2> QED BY <2>1 DEF ReadsSetDoes, TypeOK
<1>13. ASSUME NEW p \in Task,
             RevokesNext(p)
      PROVE  TypeOK'
  <2>1. run' \in [Task -> Requests] /\ RevokesNextDoes(p)
    BY <1>13, RevokesNextWrites
  <2>2. run[p].due \subseteq Browser
    BY RunTyped DEF Requests
  <2> QED BY <2>1, <2>2 DEF RevokesNextDoes, TypeOK
<1>14. ASSUME NEW p \in Task,
             ListsNext(p)
      PROVE  TypeOK'
  <2>1. run' \in [Task -> Requests] /\ ListsNextDoes(p)
    BY <1>14, ListsNextWrites
  <2> QED BY <2>1 DEF ListsNextDoes, TypeOK
<1>15. ASSUME NEW p \in Task,
             Drops(p)
      PROVE  TypeOK'
  <2>1. run' \in [Task -> Requests] /\ DropsDoes(p)
    BY <1>15, DropsWrites
  <2>2. run[p].old \in Token \union {None} /\ Fits(p)
    BY RunTyped DEF Requests, Shape
  <2>3. ended' \subseteq Token
    BY <2>1, <2>2 DEF DropsDoes, TypeOK, Fits
  <2> QED BY <2>1, <2>3 DEF DropsDoes, TypeOK
<1>16. ASSUME NEW t \in Page, RefreshNothing(t)
      PROVE  TypeOK'
  BY <1>16 DEF RefreshNothing, TypeOK
<1>17. ASSUME NEW k \in Token, Expires(k)
      PROVE  TypeOK'
  BY <1>17 DEF Expires, TypeOK
<1>18. CASE UNCHANGED vars
  BY <1>18 DEF vars, TypeOK
<1>19. ASSUME NEW b \in Browser, Forgets(b)
      PROVE  TypeOK'
  BY <1>19 DEF Forgets, TypeOK
<1> QED
  BY <1>1, <1>2, <1>3, <1>4, <1>5, <1>6, <1>7, <1>8, <1>9, <1>10, <1>11, <1>12, <1>13, <1>14, <1>15, <1>16, <1>17, <1>18, <1>19
  DEF Next, Request, Handler

\* A request none of whose fields changed fits as before.
Alike(q) ==
    /\ run'[q].op = run[q].op /\ run'[q].pc = run[q].pc /\ run'[q].page = run[q].page
    /\ run'[q].old = run[q].old /\ run'[q].new = run[q].new /\ run'[q].todo = run[q].todo

LEMMA AlikeOthers ==
  ASSUME NEW p \in Task, NEW q \in Task \ {p}, Others(p)
  PROVE  Alike(q) /\ run'[q].due = run[q].due
BY DEF Others, Alike

LEMMA AlikeAside ==
  ASSUME NEW p \in Task, NEW q \in Task \ {p}, NEW t \in Page, NEW op \in Ops, Aside(p, t, op)
  PROVE  Alike(q)
BY DEF Aside, AsideOf, Alike

LEMMA AlikeFits ==
  ASSUME NEW q \in Task, Fits(q), Alike(q)
  PROVE  Fits(q)'
BY DEF Fits, Alike

\* Shapes.
LEMMA ShapeStep ==
  ASSUME TypeOK, Shape, [Next]_vars
  PROVE  Shape'
<1>1. ASSUME NEW p \in Task, NEW t \in Page,
             Login(p, t)
      PROVE  Shape'
  <2>1. run' \in [Task -> Requests] /\ LoginDoes(p, t)
    BY <1>1, LoginWrites
  <2>2. Aside(p, t, "login")
    BY <2>1 DEF LoginDoes
  <2>3. Fits(p)'
    <3>1. Fits(p)
      BY DEF Shape
    <3> QED BY <2>1, <3>1 DEF LoginDoes, StartsAt, Fits
  <2>4. ASSUME NEW q \in Task \ {p}
        PROVE  Fits(q)'
    BY <2>2, AlikeAside, AlikeFits DEF Shape, Ops
  <2> QED BY <2>3, <2>4 DEF Shape
<1>2. ASSUME NEW p \in Task, NEW t \in Page,
             Refresh(p, t)
      PROVE  Shape'
  <2>1. run' \in [Task -> Requests] /\ RefreshDoes(p, t)
    BY <1>2, RefreshWrites
  <2>2. Aside(p, t, "refresh")
    BY <2>1 DEF RefreshDoes
  <2>3. Fits(p)'
    <3>1. Fits(p)
      BY DEF Shape
    <3> QED BY <2>1, <3>1 DEF RefreshDoes, StartsAt, Fits
  <2>4. ASSUME NEW q \in Task \ {p}
        PROVE  Fits(q)'
    BY <2>2, AlikeAside, AlikeFits DEF Shape, Ops
  <2> QED BY <2>3, <2>4 DEF Shape
<1>3. ASSUME NEW p \in Task, NEW t \in Page,
             Logout(p, t)
      PROVE  Shape'
  <2>1. run' \in [Task -> Requests] /\ LogoutDoes(p, t)
    BY <1>3, LogoutWrites
  <2>2. Aside(p, t, "logout")
    BY <2>1 DEF LogoutDoes
  <2>3. Fits(p)'
    <3>1. Fits(p)
      BY DEF Shape
    <3> QED BY <2>1, <3>1 DEF LogoutDoes, StartsAt, Fits
  <2>4. ASSUME NEW q \in Task \ {p}
        PROVE  Fits(q)'
    BY <2>2, AlikeAside, AlikeFits DEF Shape, Ops
  <2> QED BY <2>3, <2>4 DEF Shape
<1>4. ASSUME NEW p \in Task, NEW t \in Page,
             ListSessions(p, t)
      PROVE  Shape'
  <2>1. run' \in [Task -> Requests] /\ ListSessionsDoes(p, t)
    BY <1>4, ListSessionsWrites
  <2>2. Aside(p, t, "list")
    BY <2>1 DEF ListSessionsDoes
  <2>3. Fits(p)'
    <3>1. Fits(p)
      BY DEF Shape
    <3> QED BY <2>1, <3>1 DEF ListSessionsDoes, StartsAt, Fits
  <2>4. ASSUME NEW q \in Task \ {p}
        PROVE  Fits(q)'
    BY <2>2, AlikeAside, AlikeFits DEF Shape, Ops
  <2> QED BY <2>3, <2>4 DEF Shape
<1>5. ASSUME NEW p \in Task, NEW t \in Page, NEW k \in Token,
             RevokeSession(p, t, k)
      PROVE  Shape'
  <2>1. run' \in [Task -> Requests] /\ RevokeSessionDoes(p, t, k)
    BY <1>5, RevokeSessionWrites
  <2>2. Aside(p, t, "revoke")
    BY <2>1 DEF RevokeSessionDoes
  <2>3. Fits(p)'
    <3>1. Fits(p)
      BY DEF Shape
    <3> QED BY <2>1, <3>1 DEF RevokeSessionDoes, StartsAt, Fits
  <2>4. ASSUME NEW q \in Task \ {p}
        PROVE  Fits(q)'
    BY <2>2, AlikeAside, AlikeFits DEF Shape, Ops
  <2> QED BY <2>3, <2>4 DEF Shape
<1>6. ASSUME NEW p \in Task, NEW t \in Page, NEW k \in Token \union {None},
             RevokeOthers(p, t, k)
      PROVE  Shape'
  <2>1. run' \in [Task -> Requests] /\ RevokeOthersDoes(p, t, k)
    BY <1>6, RevokeOthersWrites
  <2>2. Aside(p, t, "others")
    BY <2>1 DEF RevokeOthersDoes
  <2>3. Fits(p)'
    <3>1. Fits(p)
      BY DEF Shape
    <3> QED BY <2>1, <3>1 DEF RevokeOthersDoes, StartsAt, Fits
  <2>4. ASSUME NEW q \in Task \ {p}
        PROVE  Fits(q)'
    BY <2>2, AlikeAside, AlikeFits DEF Shape, Ops
  <2> QED BY <2>3, <2>4 DEF Shape
<1>7. ASSUME NEW p \in Task,
             Validates(p)
      PROVE  Shape'
  <2>1. run' \in [Task -> Requests] /\ ValidatesDoes(p)
    BY <1>7, ValidatesWrites
  <2>2. Others(p)
    BY <2>1 DEF ValidatesDoes
  <2>3. run[p] \in Requests
    BY RunTyped
  <2>4. /\ Fits(p)
        /\ run[p].pc = "valid" /\ (GoesTo(p, "del") \/ IdleAt(p))
    BY <2>1, <2>3 DEF ValidatesDoes, Shape, Fresh, Requests
  <2>5. Fits(p)'
    BY <2>4 DEF Fits, GoesTo, IdleAt
  <2>6. ASSUME NEW q \in Task \ {p}
        PROVE  Fits(q)'
    BY <2>2, AlikeOthers, AlikeFits DEF Shape
  <2> QED BY <2>5, <2>6 DEF Shape
<1>8. ASSUME NEW p \in Task,
             Deletes(p)
      PROVE  Shape'
  <2>1. run' \in [Task -> Requests] /\ DeletesDoes(p)
    BY <1>8, DeletesWrites
  <2>2. Others(p)
    BY <2>1 DEF DeletesDoes
  <2>3. Fits(p)'
    <3>1. Fits(p)
      BY DEF Shape
    <3> QED BY <2>1, <3>1 DEF DeletesDoes, GoesTo, Fits
  <2>4. ASSUME NEW q \in Task \ {p}
        PROVE  Fits(q)'
    BY <2>2, AlikeOthers, AlikeFits DEF Shape
  <2> QED BY <2>3, <2>4 DEF Shape
<1>9. ASSUME NEW p \in Task,
             Removes(p)
      PROVE  Shape'
  <2>1. run' \in [Task -> Requests] /\ RemovesDoes(p)
    BY <1>9, RemovesWrites
  <2>2. Others(p)
    BY <2>1 DEF RemovesDoes
  <2>3. run[p] \in Requests
    BY RunTyped
  <2>4. /\ Fits(p)
        /\ run[p].pc = "srem" /\ run[p].op \in Ops
        /\ \/ run[p].op = "refresh" /\ GoesTo(p, "set")
           \/ run[p].op = "logout" /\ GoesTo(p, "answer")
           \/ IdleAt(p)
           \/ run[p].op \notin {"refresh", "logout", "revoke"} /\ BackAt(p)
    BY <2>1, <2>3 DEF RemovesDoes, Shape, Fresh, Requests
  <2>5. Fits(p)'
    BY <2>4 DEF Fits, Ops, GoesTo, IdleAt, BackAt
  <2>6. ASSUME NEW q \in Task \ {p}
        PROVE  Fits(q)'
    BY <2>2, AlikeOthers, AlikeFits DEF Shape
  <2> QED BY <2>5, <2>6 DEF Shape
<1>10. ASSUME NEW p \in Task,
             Registers(p), UNCHANGED <<cookie, page, out>>
      PROVE  Shape'
  <2>1. run' \in [Task -> Requests] /\ RegistersDoes(p)
    BY <1>10, RegistersWrites
  <2>2. Others(p)
    BY <2>1 DEF RegistersDoes
  <2>3. run[p] \in Requests
    BY RunTyped
  <2>4. /\ Fits(p)
        /\ \/ run[p].pc = "set" /\ \E k \in Token : MakesAt(p, k)
           \/ run[p].pc = "add" /\ GoesTo(p, "answer")
    BY <2>1, <2>3 DEF RegistersDoes, Shape, Fresh, Requests
  <2>5. Fits(p)'
    BY <2>4 DEF Fits, GoesTo, MakesAt
  <2>6. ASSUME NEW q \in Task \ {p}
        PROVE  Fits(q)'
    BY <2>2, AlikeOthers, AlikeFits DEF Shape
  <2> QED BY <2>5, <2>6 DEF Shape
<1>11. ASSUME NEW p \in Task,
             Answers(p)
      PROVE  Shape'
  <2>1. Fits(p)
    BY DEF Shape
  <2>2. run' \in [Task -> Requests] /\ AnswersDoes(p)
    BY <1>11, <2>1, AnswersWrites
  <2>3. Others(p)
    BY <2>2 DEF AnswersDoes
  <2>4. Fits(p)'
    BY <2>2 DEF AnswersDoes, IdleAt, Shape, Fits
  <2>5. ASSUME NEW q \in Task \ {p}
        PROVE  Fits(q)'
    BY <2>3, AlikeOthers, AlikeFits DEF Shape
  <2> QED BY <2>4, <2>5 DEF Shape
<1>12. ASSUME NEW p \in Task,
             ReadsSet(p)
      PROVE  Shape'
  <2>1. run' \in [Task -> Requests] /\ ReadsSetDoes(p)
    BY <1>12, ReadsSetWrites
  <2>2. Others(p)
    BY <2>1 DEF ReadsSetDoes
  <2>3. run[p] \in Requests
    BY RunTyped
  <2>4. /\ Fits(p)
        /\ run[p].pc = "read" /\ ReadsAt(p)
    BY <2>1, <2>3 DEF ReadsSetDoes, Shape, Fresh, Requests
  <2>5. Fits(p)'
    BY <2>4 DEF Fits, ReadsAt
  <2>6. ASSUME NEW q \in Task \ {p}
        PROVE  Fits(q)'
    BY <2>2, AlikeOthers, AlikeFits DEF Shape
  <2> QED BY <2>5, <2>6 DEF Shape
<1>13. ASSUME NEW p \in Task,
             RevokesNext(p)
      PROVE  Shape'
  <2>1. run' \in [Task -> Requests] /\ RevokesNextDoes(p)
    BY <1>13, RevokesNextWrites
  <2>2. Others(p)
    BY <2>1 DEF RevokesNextDoes
  <2>3. Fits(p)'
    <3>1. Fits(p)
      BY DEF Shape
    <3> QED BY <2>1, <3>1 DEF RevokesNextDoes, IdleAt, TakesAt, Fits
  <2>4. ASSUME NEW q \in Task \ {p}
        PROVE  Fits(q)'
    BY <2>2, AlikeOthers, AlikeFits DEF Shape
  <2> QED BY <2>3, <2>4 DEF Shape
<1>14. ASSUME NEW p \in Task,
             ListsNext(p)
      PROVE  Shape'
  <2>1. run' \in [Task -> Requests] /\ ListsNextDoes(p)
    BY <1>14, ListsNextWrites
  <2>2. Others(p)
    BY <2>1 DEF ListsNextDoes
  <2>3. run[p] \in Requests
    BY RunTyped
  <2>4. /\ Fits(p)
        /\ run[p].op = "list" /\ run[p].pc = "next"
        /\ IdleAt(p) \/ (\E k \in Token : LooksAt(p, k) \/ TakesAt(p, k, "srem"))
    BY <2>1, <2>3 DEF ListsNextDoes, Shape, Fresh, Requests
  <2>5. Fits(p)'
    BY <2>4 DEF Fits, IdleAt, LooksAt, TakesAt
  <2>6. ASSUME NEW q \in Task \ {p}
        PROVE  Fits(q)'
    BY <2>2, AlikeOthers, AlikeFits DEF Shape
  <2> QED BY <2>5, <2>6 DEF Shape
<1>15. ASSUME NEW p \in Task,
             Drops(p)
      PROVE  Shape'
  <2>1. run' \in [Task -> Requests] /\ DropsDoes(p)
    BY <1>15, DropsWrites
  <2>2. Others(p)
    BY <2>1 DEF DropsDoes
  <2>3. Fits(p)'
    <3>1. Fits(p)
      BY DEF Shape
    <3> QED BY <2>1, <3>1 DEF DropsDoes, IdleAt, Fits
  <2>4. ASSUME NEW q \in Task \ {p}
        PROVE  Fits(q)'
    BY <2>2, AlikeOthers, AlikeFits DEF Shape
  <2> QED BY <2>3, <2>4 DEF Shape
<1>16. ASSUME NEW t \in Page, RefreshNothing(t)
      PROVE  Shape'
  BY <1>16 DEF RefreshNothing, Shape, Fits
<1>17. ASSUME NEW k \in Token, Expires(k)
      PROVE  Shape'
  BY <1>17 DEF Expires, Shape, Fits
<1>18. CASE UNCHANGED vars
  BY <1>18 DEF vars, Shape, Fits
<1>19. ASSUME NEW b \in Browser, Forgets(b)
      PROVE  Shape'
  BY <1>19 DEF Forgets, Shape, Fits
<1> QED
  BY <1>1, <1>2, <1>3, <1>4, <1>5, <1>6, <1>7, <1>8, <1>9, <1>10, <1>11, <1>12, <1>13, <1>14, <1>15, <1>16, <1>17, <1>18, <1>19
  DEF Next, Request, Handler

\* All requests but one are as they were.
Still(p) == \A q \in Task \ {p} : Alike(q)

LEMMA StillOthers ==
  ASSUME NEW p \in Task, Others(p)
  PROVE  Still(p)
BY AlikeOthers DEF Still

LEMMA StillAside ==
  ASSUME NEW p \in Task, NEW t \in Page, NEW op \in Ops, Aside(p, t, op)
  PROVE  Still(p)
BY AlikeAside DEF Still

\* A fresh token is nowhere.
LEMMA FreshIsNew ==
  ASSUME NEW k \in Fresh
  PROVE  /\ k \in Token /\ k \notin stored /\ k \notin member
         /\ \A b \in Browser : cookie[b] # k
         /\ \A q \in Task : run[q].old # k /\ run[q].new # k /\ k \notin run[q].todo
<1>1. k \in Token /\ k \notin stored /\ k \notin member /\ k \notin Held
  BY DEF Fresh
<1>2. ASSUME NEW q \in Task
      PROVE  k \notin run[q].todo
  BY DEF Fresh
<1>3. ASSUME NEW b \in Browser
      PROVE  cookie[b] # k
  BY <1>1 DEF Held
<1>4. ASSUME NEW q \in Task
      PROVE  run[q].old # k /\ run[q].new # k
  <2>1. {run[q].old, run[q].new} \subseteq Held
    BY DEF Held
  <2> QED BY <1>1, <2>1
<1> QED BY <1>1, <1>2, <1>3, <1>4

LEMMA StruckOffKept ==
  ASSUME StruckOff, NEW p \in Task, Still(p),
         \A k \in stored' : k \in stored \/ \A q \in Task : run[q].old # k,
         run'[p].pc = "srem" => run'[p].old \notin stored'
  PROVE  StruckOff'
<1> SUFFICES ASSUME NEW q \in Task, run'[q].pc = "srem"
             PROVE  run'[q].old \notin stored'
  BY DEF StruckOff
<1>1. CASE q = p
  BY <1>1
<1>2. CASE q # p
  <2>1. Alike(q)
    BY <1>2 DEF Still
  <2> QED BY <2>1 DEF StruckOff, Alike
<1> QED BY <1>1, <1>2

\* Tokens that are struck off.
LEMMA StruckOffStep ==
  ASSUME TypeOK, Shape, StruckOff, [Next]_vars
  PROVE  StruckOff'
<1>1. ASSUME NEW p \in Task, NEW t \in Page,
             Login(p, t)
      PROVE  StruckOff'
  <2>1. Fits(p) /\ run[p] \in Requests
    BY RunTyped DEF Shape
  <2>2. run' \in [Task -> Requests] /\ LoginDoes(p, t)
    BY <1>1, LoginWrites
  <2>3. Still(p)
    BY <2>2, StillAside DEF LoginDoes, Ops
  <2>4. stored' \subseteq stored
    BY <2>2 DEF LoginDoes
  <2>5. run'[p].pc = "srem" => run'[p].old \notin stored'
    BY <2>2 DEF LoginDoes, StartsAt
  <2> QED BY <2>3, <2>4, <2>5, StruckOffKept
<1>2. ASSUME NEW p \in Task, NEW t \in Page,
             Refresh(p, t)
      PROVE  StruckOff'
  <2>1. Fits(p) /\ run[p] \in Requests
    BY RunTyped DEF Shape
  <2>2. run' \in [Task -> Requests] /\ RefreshDoes(p, t)
    BY <1>2, RefreshWrites
  <2>3. Still(p)
    BY <2>2, StillAside DEF RefreshDoes, Ops
  <2>4. stored' \subseteq stored
    BY <2>2 DEF RefreshDoes
  <2>5. run'[p].pc = "srem" => run'[p].old \notin stored'
    BY <2>2 DEF RefreshDoes, StartsAt
  <2> QED BY <2>3, <2>4, <2>5, StruckOffKept
<1>3. ASSUME NEW p \in Task, NEW t \in Page,
             Logout(p, t)
      PROVE  StruckOff'
  <2>1. Fits(p) /\ run[p] \in Requests
    BY RunTyped DEF Shape
  <2>2. run' \in [Task -> Requests] /\ LogoutDoes(p, t)
    BY <1>3, LogoutWrites
  <2>3. Still(p)
    BY <2>2, StillAside DEF LogoutDoes, Ops
  <2>4. stored' \subseteq stored
    BY <2>2 DEF LogoutDoes
  <2>5. run'[p].pc = "srem" => run'[p].old \notin stored'
    BY <2>2 DEF LogoutDoes, StartsAt
  <2> QED BY <2>3, <2>4, <2>5, StruckOffKept
<1>4. ASSUME NEW p \in Task, NEW t \in Page,
             ListSessions(p, t)
      PROVE  StruckOff'
  <2>1. Fits(p) /\ run[p] \in Requests
    BY RunTyped DEF Shape
  <2>2. run' \in [Task -> Requests] /\ ListSessionsDoes(p, t)
    BY <1>4, ListSessionsWrites
  <2>3. Still(p)
    BY <2>2, StillAside DEF ListSessionsDoes, Ops
  <2>4. stored' \subseteq stored
    BY <2>2 DEF ListSessionsDoes
  <2>5. run'[p].pc = "srem" => run'[p].old \notin stored'
    BY <2>2 DEF ListSessionsDoes, StartsAt
  <2> QED BY <2>3, <2>4, <2>5, StruckOffKept
<1>5. ASSUME NEW p \in Task, NEW t \in Page, NEW k \in Token,
             RevokeSession(p, t, k)
      PROVE  StruckOff'
  <2>1. Fits(p) /\ run[p] \in Requests
    BY RunTyped DEF Shape
  <2>2. run' \in [Task -> Requests] /\ RevokeSessionDoes(p, t, k)
    BY <1>5, RevokeSessionWrites
  <2>3. Still(p)
    BY <2>2, StillAside DEF RevokeSessionDoes, Ops
  <2>4. stored' \subseteq stored
    BY <2>2 DEF RevokeSessionDoes
  <2>5. run'[p].pc = "srem" => run'[p].old \notin stored'
    BY <2>2 DEF RevokeSessionDoes, StartsAt
  <2> QED BY <2>3, <2>4, <2>5, StruckOffKept
<1>6. ASSUME NEW p \in Task, NEW t \in Page, NEW k \in Token \union {None},
             RevokeOthers(p, t, k)
      PROVE  StruckOff'
  <2>1. Fits(p) /\ run[p] \in Requests
    BY RunTyped DEF Shape
  <2>2. run' \in [Task -> Requests] /\ RevokeOthersDoes(p, t, k)
    BY <1>6, RevokeOthersWrites
  <2>3. Still(p)
    BY <2>2, StillAside DEF RevokeOthersDoes, Ops
  <2>4. stored' \subseteq stored
    BY <2>2 DEF RevokeOthersDoes
  <2>5. run'[p].pc = "srem" => run'[p].old \notin stored'
    BY <2>2 DEF RevokeOthersDoes, StartsAt
  <2> QED BY <2>3, <2>4, <2>5, StruckOffKept
<1>7. ASSUME NEW p \in Task,
             Validates(p)
      PROVE  StruckOff'
  <2>1. Fits(p) /\ run[p] \in Requests
    BY RunTyped DEF Shape
  <2>2. run' \in [Task -> Requests] /\ ValidatesDoes(p)
    BY <1>7, ValidatesWrites
  <2>3. Still(p)
    BY <2>2, StillOthers DEF ValidatesDoes
  <2>4. stored' \subseteq stored
    BY <2>2 DEF ValidatesDoes
  <2>5. run'[p].pc = "srem" => run'[p].old \notin stored'
    BY <2>2 DEF ValidatesDoes, GoesTo, IdleAt
  <2> QED BY <2>3, <2>4, <2>5, StruckOffKept
<1>8. ASSUME NEW p \in Task,
             Deletes(p)
      PROVE  StruckOff'
  <2>1. Fits(p) /\ run[p] \in Requests
    BY RunTyped DEF Shape
  <2>2. run' \in [Task -> Requests] /\ DeletesDoes(p)
    BY <1>8, DeletesWrites
  <2>3. Still(p)
    BY <2>2, StillOthers DEF DeletesDoes
  <2>4. stored' \subseteq stored
    BY <2>2 DEF DeletesDoes
  <2>5. run'[p].pc = "srem" => run'[p].old \notin stored'
    BY <2>2 DEF DeletesDoes, GoesTo
  <2> QED BY <2>3, <2>4, <2>5, StruckOffKept
<1>9. ASSUME NEW p \in Task,
             Removes(p)
      PROVE  StruckOff'
  <2>1. Fits(p) /\ run[p] \in Requests
    BY RunTyped DEF Shape
  <2>2. run' \in [Task -> Requests] /\ RemovesDoes(p)
    BY <1>9, RemovesWrites
  <2>3. Still(p)
    BY <2>2, StillOthers DEF RemovesDoes
  <2>4. stored' \subseteq stored
    BY <2>2 DEF RemovesDoes
  <2>5. run'[p].pc = "srem" => run'[p].old \notin stored'
    BY <2>2 DEF RemovesDoes, GoesTo, IdleAt, BackAt
  <2> QED BY <2>3, <2>4, <2>5, StruckOffKept
<1>10. ASSUME NEW p \in Task,
             Registers(p), UNCHANGED <<cookie, page, out>>
      PROVE  StruckOff'
  <2>1. Fits(p) /\ run[p] \in Requests
    BY RunTyped DEF Shape
  <2>2. run' \in [Task -> Requests] /\ RegistersDoes(p)
    BY <1>10, RegistersWrites
  <2>3. Still(p)
    BY <2>2, StillOthers DEF RegistersDoes
  <2>4. stored' \subseteq stored \union Fresh /\ run'[p].pc # "srem"
    BY <2>2 DEF RegistersDoes, GoesTo, MakesAt
  <2> QED BY <2>3, <2>4, FreshIsNew, StruckOffKept
<1>11. ASSUME NEW p \in Task,
             Answers(p)
      PROVE  StruckOff'
  <2>1. Fits(p) /\ run[p] \in Requests
    BY RunTyped DEF Shape
  <2>2. run' \in [Task -> Requests] /\ AnswersDoes(p)
    BY <1>11, <2>1, AnswersWrites
  <2>3. Still(p)
    BY <2>2, StillOthers DEF AnswersDoes
  <2>4. stored' \subseteq stored
    BY <2>2 DEF AnswersDoes
  <2>5. run'[p].pc = "srem" => run'[p].old \notin stored'
    BY <2>2 DEF AnswersDoes, IdleAt
  <2> QED BY <2>3, <2>4, <2>5, StruckOffKept
<1>12. ASSUME NEW p \in Task,
             ReadsSet(p)
      PROVE  StruckOff'
  <2>1. Fits(p) /\ run[p] \in Requests
    BY RunTyped DEF Shape
  <2>2. run' \in [Task -> Requests] /\ ReadsSetDoes(p)
    BY <1>12, ReadsSetWrites
  <2>3. Still(p)
    BY <2>2, StillOthers DEF ReadsSetDoes
  <2>4. stored' \subseteq stored
    BY <2>2 DEF ReadsSetDoes
  <2>5. run'[p].pc = "srem" => run'[p].old \notin stored'
    BY <2>2 DEF ReadsSetDoes, ReadsAt
  <2> QED BY <2>3, <2>4, <2>5, StruckOffKept
<1>13. ASSUME NEW p \in Task,
             RevokesNext(p)
      PROVE  StruckOff'
  <2>1. Fits(p) /\ run[p] \in Requests
    BY RunTyped DEF Shape
  <2>2. run' \in [Task -> Requests] /\ RevokesNextDoes(p)
    BY <1>13, RevokesNextWrites
  <2>3. Still(p)
    BY <2>2, StillOthers DEF RevokesNextDoes
  <2>4. stored' \subseteq stored
    BY <2>2 DEF RevokesNextDoes
  <2>5. run'[p].pc = "srem" => run'[p].old \notin stored'
    BY <2>2 DEF RevokesNextDoes, IdleAt, TakesAt
  <2> QED BY <2>3, <2>4, <2>5, StruckOffKept
<1>14. ASSUME NEW p \in Task,
             ListsNext(p)
      PROVE  StruckOff'
  <2>1. Fits(p) /\ run[p] \in Requests
    BY RunTyped DEF Shape
  <2>2. run' \in [Task -> Requests] /\ ListsNextDoes(p)
    BY <1>14, ListsNextWrites
  <2>3. Still(p)
    BY <2>2, StillOthers DEF ListsNextDoes
  <2>4. stored' \subseteq stored
    BY <2>2 DEF ListsNextDoes
  <2>5. run'[p].pc = "srem" => run'[p].old \notin stored'
    BY <2>2 DEF ListsNextDoes, IdleAt, TakesAt, LooksAt
  <2> QED BY <2>3, <2>4, <2>5, StruckOffKept
<1>15. ASSUME NEW p \in Task,
             Drops(p)
      PROVE  StruckOff'
  <2>1. Fits(p) /\ run[p] \in Requests
    BY RunTyped DEF Shape
  <2>2. run' \in [Task -> Requests] /\ DropsDoes(p)
    BY <1>15, DropsWrites
  <2>3. Still(p)
    BY <2>2, StillOthers DEF DropsDoes
  <2>4. stored' \subseteq stored
    BY <2>2 DEF DropsDoes
  <2>5. run'[p].pc = "srem" => run'[p].old \notin stored'
    BY <2>2 DEF DropsDoes, IdleAt
  <2> QED BY <2>3, <2>4, <2>5, StruckOffKept
<1>16. ASSUME NEW t \in Page, RefreshNothing(t)
      PROVE  StruckOff'
  BY <1>16 DEF RefreshNothing, StruckOff
<1>17. ASSUME NEW k \in Token, Expires(k)
      PROVE  StruckOff'
  BY <1>17 DEF Expires, StruckOff
<1>18. CASE UNCHANGED vars
  BY <1>18 DEF vars, StruckOff
<1>19. ASSUME NEW b \in Browser, Forgets(b)
      PROVE  StruckOff'
  BY <1>19 DEF Forgets, StruckOff
<1> QED
  BY <1>1, <1>2, <1>3, <1>4, <1>5, <1>6, <1>7, <1>8, <1>9, <1>10, <1>11, <1>12, <1>13, <1>14, <1>15, <1>16, <1>17, <1>18, <1>19
  DEF Next, Request, Handler

\* A step that gives nobody a token.
LEMMA NoneInUse ==
  ASSUME NEW p \in Task, Still(p), cookie' = cookie,
         run'[p].pc = "answer" => run'[p].new = None,
         NEW k \in Token, InUse(k)'
  PROVE  InUse(k)
<1>1. ASSUME NEW q \in Task, run'[q].new = k, run'[q].pc = "answer"
      PROVE  q # p /\ run[q].new = k /\ run[q].pc = "answer"
  <2>1. q # p
    BY <1>1
  <2> QED BY <1>1, <2>1 DEF Still, Alike
<1> QED BY <1>1 DEF InUse

\* The list of devices.
LEMMA ListedStep ==
  ASSUME TypeOK, Shape, StruckOff, Listed, [Next]_vars
  PROVE  Listed'
<1>1. ASSUME NEW p \in Task, NEW t \in Page,
             Login(p, t)
      PROVE  Listed'
  <2>1. Fits(p) /\ run[p] \in Requests
    BY RunTyped DEF Shape
  <2>2. run' \in [Task -> Requests] /\ LoginDoes(p, t)
    BY <1>1, LoginWrites
  <2>3. Still(p)
    BY <2>2, StillAside DEF LoginDoes, Ops
  <2>4. cookie' = cookie /\ stored' \subseteq stored /\ member' = member
    BY <2>2 DEF LoginDoes
  <2>5. run'[p].pc # "answer"
    BY <2>1, <2>2 DEF LoginDoes, StartsAt, Fits
  <2> QED BY <2>3, <2>4, <2>5, NoneInUse DEF Listed, TypeOK
<1>2. ASSUME NEW p \in Task, NEW t \in Page,
             Refresh(p, t)
      PROVE  Listed'
  <2>1. Fits(p) /\ run[p] \in Requests
    BY RunTyped DEF Shape
  <2>2. run' \in [Task -> Requests] /\ RefreshDoes(p, t)
    BY <1>2, RefreshWrites
  <2>3. Still(p)
    BY <2>2, StillAside DEF RefreshDoes, Ops
  <2>4. cookie' = cookie /\ stored' \subseteq stored /\ member' = member
    BY <2>2 DEF RefreshDoes
  <2>5. run'[p].pc # "answer"
    BY <2>1, <2>2 DEF RefreshDoes, StartsAt, Fits
  <2> QED BY <2>3, <2>4, <2>5, NoneInUse DEF Listed, TypeOK
<1>3. ASSUME NEW p \in Task, NEW t \in Page,
             Logout(p, t)
      PROVE  Listed'
  <2>1. Fits(p) /\ run[p] \in Requests
    BY RunTyped DEF Shape
  <2>2. run' \in [Task -> Requests] /\ LogoutDoes(p, t)
    BY <1>3, LogoutWrites
  <2>3. Still(p)
    BY <2>2, StillAside DEF LogoutDoes, Ops
  <2>4. cookie' = cookie /\ stored' \subseteq stored /\ member' = member
    BY <2>2 DEF LogoutDoes
  <2>5. run'[p].pc # "answer"
    BY <2>1, <2>2 DEF LogoutDoes, StartsAt, Fits
  <2> QED BY <2>3, <2>4, <2>5, NoneInUse DEF Listed, TypeOK
<1>4. ASSUME NEW p \in Task, NEW t \in Page,
             ListSessions(p, t)
      PROVE  Listed'
  <2>1. Fits(p) /\ run[p] \in Requests
    BY RunTyped DEF Shape
  <2>2. run' \in [Task -> Requests] /\ ListSessionsDoes(p, t)
    BY <1>4, ListSessionsWrites
  <2>3. Still(p)
    BY <2>2, StillAside DEF ListSessionsDoes, Ops
  <2>4. cookie' = cookie /\ stored' \subseteq stored /\ member' = member
    BY <2>2 DEF ListSessionsDoes
  <2>5. run'[p].pc # "answer"
    BY <2>1, <2>2 DEF ListSessionsDoes, StartsAt, Fits
  <2> QED BY <2>3, <2>4, <2>5, NoneInUse DEF Listed, TypeOK
<1>5. ASSUME NEW p \in Task, NEW t \in Page, NEW k \in Token,
             RevokeSession(p, t, k)
      PROVE  Listed'
  <2>1. Fits(p) /\ run[p] \in Requests
    BY RunTyped DEF Shape
  <2>2. run' \in [Task -> Requests] /\ RevokeSessionDoes(p, t, k)
    BY <1>5, RevokeSessionWrites
  <2>3. Still(p)
    BY <2>2, StillAside DEF RevokeSessionDoes, Ops
  <2>4. cookie' = cookie /\ stored' \subseteq stored /\ member' = member
    BY <2>2 DEF RevokeSessionDoes
  <2>5. run'[p].pc # "answer"
    BY <2>1, <2>2 DEF RevokeSessionDoes, StartsAt, Fits
  <2> QED BY <2>3, <2>4, <2>5, NoneInUse DEF Listed, TypeOK
<1>6. ASSUME NEW p \in Task, NEW t \in Page, NEW k \in Token \union {None},
             RevokeOthers(p, t, k)
      PROVE  Listed'
  <2>1. Fits(p) /\ run[p] \in Requests
    BY RunTyped DEF Shape
  <2>2. run' \in [Task -> Requests] /\ RevokeOthersDoes(p, t, k)
    BY <1>6, RevokeOthersWrites
  <2>3. Still(p)
    BY <2>2, StillAside DEF RevokeOthersDoes, Ops
  <2>4. cookie' = cookie /\ stored' \subseteq stored /\ member' = member
    BY <2>2 DEF RevokeOthersDoes
  <2>5. run'[p].pc # "answer"
    BY <2>1, <2>2 DEF RevokeOthersDoes, StartsAt, Fits
  <2> QED BY <2>3, <2>4, <2>5, NoneInUse DEF Listed, TypeOK
<1>7. ASSUME NEW p \in Task,
             Validates(p)
      PROVE  Listed'
  <2>1. Fits(p) /\ run[p] \in Requests
    BY RunTyped DEF Shape
  <2>2. run' \in [Task -> Requests] /\ ValidatesDoes(p)
    BY <1>7, ValidatesWrites
  <2>3. Still(p)
    BY <2>2, StillOthers DEF ValidatesDoes
  <2>4. cookie' = cookie /\ stored' \subseteq stored /\ member' = member
    BY <2>2 DEF ValidatesDoes
  <2>5. run'[p].pc # "answer"
    BY <2>1, <2>2 DEF ValidatesDoes, GoesTo, IdleAt, Fits
  <2> QED BY <2>3, <2>4, <2>5, NoneInUse DEF Listed, TypeOK
<1>8. ASSUME NEW p \in Task,
             Deletes(p)
      PROVE  Listed'
  <2>1. Fits(p) /\ run[p] \in Requests
    BY RunTyped DEF Shape
  <2>2. run' \in [Task -> Requests] /\ DeletesDoes(p)
    BY <1>8, DeletesWrites
  <2>3. Still(p)
    BY <2>2, StillOthers DEF DeletesDoes
  <2>4. cookie' = cookie /\ stored' \subseteq stored /\ member' = member
    BY <2>2 DEF DeletesDoes
  <2>5. run'[p].pc # "answer"
    BY <2>1, <2>2 DEF DeletesDoes, GoesTo, Fits
  <2> QED BY <2>3, <2>4, <2>5, NoneInUse DEF Listed, TypeOK
<1>9. ASSUME NEW p \in Task,
             Removes(p)
      PROVE  Listed'
  <2>1. Fits(p) /\ run[p] \in Requests
    BY RunTyped DEF Shape
  <2>2. run' \in [Task -> Requests] /\ RemovesDoes(p)
    BY <1>9, RemovesWrites
  <2>3. Still(p)
    BY <2>2, StillOthers DEF RemovesDoes
  <2>4. cookie' = cookie /\ stored' = stored /\ member' = member \ {run[p].old} /\ run[p].pc = "srem"
    BY <2>2 DEF RemovesDoes
  <2>5. run[p].new = None
    BY <2>1, <2>4 DEF Fits
  <2>6. run'[p].pc = "answer" => run'[p].new = None
    BY <2>2, <2>5 DEF RemovesDoes, GoesTo, IdleAt, BackAt
  <2> QED BY <2>3, <2>4, <2>6, NoneInUse DEF Listed, StruckOff, TypeOK
<1>10. ASSUME NEW p \in Task,
             Registers(p), UNCHANGED <<cookie, page, out>>
      PROVE  Listed'
  <2>1. Fits(p) /\ run[p] \in Requests
    BY RunTyped DEF Shape
  <2>2. run' \in [Task -> Requests] /\ RegistersDoes(p)
    BY <1>10, RegistersWrites
  <2>3. Still(p)
    BY <2>2, StillOthers DEF RegistersDoes
  <2>4. CASE run[p].pc = "set"
    <3>1. PICK k \in Fresh : MakesAt(p, k) /\ stored' = stored \union {k} /\ member' = member
      BY <2>2, <2>4 DEF RegistersDoes
    <3>2. cookie' = cookie /\ run'[p].pc # "answer"
      BY <2>2, <3>1 DEF RegistersDoes, MakesAt
    <3>3. k \in Token /\ ~InUse(k)
      BY FreshIsNew DEF InUse
    <3> QED BY <2>3, <3>1, <3>2, <3>3, NoneInUse DEF Listed, TypeOK
  <2>5. CASE run[p].pc = "add"
    <3>1. /\ GoesTo(p, "answer") /\ stored' = stored /\ member' = member \union {run[p].new}
          /\ cookie' = cookie
      BY <2>2, <2>5 DEF RegistersDoes
    <3>2. ASSUME NEW k \in stored', InUse(k)'
          PROVE  k \in member'
      <4>1. CASE k = run[p].new
        BY <3>1, <4>1
      <4>2. CASE k # run[p].new
        <5>1. InUse(k)
          BY <2>3, <3>1, <3>2, <4>2 DEF InUse, Still, Alike, GoesTo
        <5> QED BY <3>1, <5>1 DEF Listed
      <4> QED BY <4>1, <4>2
    <3> QED BY <3>2 DEF Listed
  <2> QED BY <2>2, <2>4, <2>5 DEF RegistersDoes
<1>11. ASSUME NEW p \in Task,
             Answers(p)
      PROVE  Listed'
  <2>1. Fits(p) /\ run[p] \in Requests
    BY RunTyped DEF Shape
  <2>2. run' \in [Task -> Requests] /\ AnswersDoes(p)
    BY <1>11, <2>1, AnswersWrites
  <2>3. Still(p)
    BY <2>2, StillOthers DEF AnswersDoes
  <2>4. PICK t \in Page : run[p].page = {t}
    BY <2>1, <2>2 DEF Fits, AnswersDoes
  <2>5. /\ stored' = stored /\ member' = member /\ run'[p].pc # "answer" /\ run[p].pc = "answer"
        /\ cookie' = [cookie EXCEPT ![Home[t]] = IF run[p].op = "logout" THEN None ELSE run[p].new]
    BY <2>2, <2>4 DEF AnswersDoes, IdleAt
  <2>6. ASSUME NEW k \in stored', InUse(k)'
        PROVE  k \in member'
    <3>1. k \in Token
      BY <2>5, <2>6 DEF TypeOK
    <3>2. ASSUME NEW b \in Browser, cookie'[b] = k
          PROVE  InUse(k)
      BY <2>5, <3>1, <3>2 DEF InUse, TypeOK
    <3>3. ASSUME NEW q \in Task, run'[q].new = k, run'[q].pc = "answer"
          PROVE  InUse(k)
      <4>1. q # p
        BY <2>5, <3>3
      <4>2. Alike(q)
        BY <2>3, <4>1 DEF Still
      <4> QED BY <3>3, <4>2 DEF InUse, Alike
    <3>4. InUse(k)
      BY <2>6, <3>2, <3>3 DEF InUse
    <3> QED BY <2>5, <3>4 DEF Listed
  <2> QED BY <2>6 DEF Listed
<1>12. ASSUME NEW p \in Task,
             ReadsSet(p)
      PROVE  Listed'
  <2>1. Fits(p) /\ run[p] \in Requests
    BY RunTyped DEF Shape
  <2>2. run' \in [Task -> Requests] /\ ReadsSetDoes(p)
    BY <1>12, ReadsSetWrites
  <2>3. Still(p)
    BY <2>2, StillOthers DEF ReadsSetDoes
  <2>4. cookie' = cookie /\ stored' \subseteq stored /\ member' = member
    BY <2>2 DEF ReadsSetDoes
  <2>5. run'[p].pc # "answer"
    BY <2>1, <2>2 DEF ReadsSetDoes, ReadsAt, Fits
  <2> QED BY <2>3, <2>4, <2>5, NoneInUse DEF Listed, TypeOK
<1>13. ASSUME NEW p \in Task,
             RevokesNext(p)
      PROVE  Listed'
  <2>1. Fits(p) /\ run[p] \in Requests
    BY RunTyped DEF Shape
  <2>2. run' \in [Task -> Requests] /\ RevokesNextDoes(p)
    BY <1>13, RevokesNextWrites
  <2>3. Still(p)
    BY <2>2, StillOthers DEF RevokesNextDoes
  <2>4. cookie' = cookie /\ stored' \subseteq stored /\ member' = member
    BY <2>2 DEF RevokesNextDoes
  <2>5. run'[p].pc # "answer"
    BY <2>1, <2>2 DEF RevokesNextDoes, IdleAt, TakesAt, Fits
  <2> QED BY <2>3, <2>4, <2>5, NoneInUse DEF Listed, TypeOK
<1>14. ASSUME NEW p \in Task,
             ListsNext(p)
      PROVE  Listed'
  <2>1. Fits(p) /\ run[p] \in Requests
    BY RunTyped DEF Shape
  <2>2. run' \in [Task -> Requests] /\ ListsNextDoes(p)
    BY <1>14, ListsNextWrites
  <2>3. Still(p)
    BY <2>2, StillOthers DEF ListsNextDoes
  <2>4. cookie' = cookie /\ stored' \subseteq stored /\ member' = member
    BY <2>2 DEF ListsNextDoes
  <2>5. run'[p].pc # "answer"
    BY <2>1, <2>2 DEF ListsNextDoes, IdleAt, TakesAt, LooksAt, Fits
  <2> QED BY <2>3, <2>4, <2>5, NoneInUse DEF Listed, TypeOK
<1>15. ASSUME NEW p \in Task,
             Drops(p)
      PROVE  Listed'
  <2>1. Fits(p) /\ run[p] \in Requests
    BY RunTyped DEF Shape
  <2>2. run' \in [Task -> Requests] /\ DropsDoes(p)
    BY <1>15, DropsWrites
  <2>3. Still(p)
    BY <2>2, StillOthers DEF DropsDoes
  <2>4. cookie' = cookie /\ stored' \subseteq stored /\ member' = member
    BY <2>2 DEF DropsDoes
  <2>5. run'[p].pc # "answer"
    BY <2>1, <2>2 DEF DropsDoes, IdleAt, Fits
  <2> QED BY <2>3, <2>4, <2>5, NoneInUse DEF Listed, TypeOK
<1>16. ASSUME NEW t \in Page, RefreshNothing(t)
      PROVE  Listed'
  BY <1>16 DEF RefreshNothing, Listed, InUse
<1>17. ASSUME NEW k \in Token, Expires(k)
      PROVE  Listed'
  BY <1>17 DEF Expires, Listed, InUse
<1>18. CASE UNCHANGED vars
  BY <1>18 DEF vars, Listed, InUse
<1>19. ASSUME NEW b \in Browser, Forgets(b)
      PROVE  Listed'
  BY <1>19 DEF Forgets, Listed, InUse, TypeOK
<1> QED
  BY <1>1, <1>2, <1>3, <1>4, <1>5, <1>6, <1>7, <1>8, <1>9, <1>10, <1>11, <1>12, <1>13, <1>14, <1>15, <1>16, <1>17, <1>18, <1>19
  DEF Next, Request, Handler

\* A step that changes no cookie and gives nobody a token.
LEMMA OwnersKept ==
  ASSUME Shape, Owners, NEW p \in Task, Still(p), cookie' = cookie,
         run'[p].new \in {run[p].new, None},
         ItsOwn(p)'
  PROVE  Owners'
<1>1. Apart'
  BY DEF Owners, Apart
<1>2. \A q \in Task : run'[q].new \in {run[q].new, None}
  BY DEF Still, Alike
<1>3. ASSUME NEW q \in Task
      PROVE  OnItsWay(q)'
  <2>1. OnItsWay(q)
    BY DEF Owners
  <2> QED BY <1>2, <2>1 DEF OnItsWay
<1>4. ASSUME NEW q \in Task
      PROVE  ItsOwn(q)'
  <2>1. CASE q = p
    BY <2>1
  <2>2. CASE q # p
    <3>1. ItsOwn(q) /\ Alike(q)
      BY <2>2 DEF Owners, Still
    <3>2. Of(q)' = Of(q)
      BY <3>1 DEF Of, Alike
    <3>3. ASSUME \/ run'[q].op = "refresh"
                 \/ run'[q].op = "others" /\ run'[q].pc = "read" /\ run'[q].old # None
          PROVE  /\ run'[q].old = run[q].old
                 /\ \A b \in Browser \ Of(q) : cookie[b] # run[q].old
                 /\ \A r \in Task : run[r].new # run[q].old
      BY <3>1, <3>3 DEF ItsOwn, Alike
    <3>4. ASSUME \/ run'[q].op = "refresh"
                 \/ run'[q].op = "others" /\ run'[q].pc = "read" /\ run'[q].old # None
          PROVE  \A r \in Task : run'[r].new # run'[q].old
      <4>1. run[q].old # None
        BY <3>1, <3>4 DEF Alike, Shape, Fits
      <4> QED BY <1>2, <3>3, <3>4, <4>1
    <3> QED BY <3>2, <3>3, <3>4 DEF ItsOwn
  <2> QED BY <2>1, <2>2
<1> QED BY <1>1, <1>3, <1>4 DEF Owners

\* A request that goes on owns what it owned.
LEMMA OwnGoes ==
  ASSUME Owners, Shape, NEW p \in Task, Still(p), cookie' = cookie,
         run'[p].new \in {run[p].new, None},
         run'[p].op = "refresh" => /\ run[p].op = "refresh" /\ run'[p].old = run[p].old
                                   /\ run'[p].page = run[p].page,
         ~ (run'[p].op = "others" /\ run'[p].pc = "read")
  PROVE  ItsOwn(p)'
<1>1. \A q \in Task : run'[q].new \in {run[q].new, None}
  BY DEF Still, Alike
<1>2. ASSUME run'[p].op = "refresh"
      PROVE  /\ \A b \in Browser \ Of(p)' : cookie'[b] # run'[p].old
             /\ \A q \in Task : run'[q].new # run'[p].old
  <2>1. ItsOwn(p) /\ Fits(p)
    BY DEF Owners, Shape
  <2>2. run[p].old # None
    BY <1>2, <2>1 DEF Fits
  <2>3. Of(p)' = Of(p)
    BY <1>2 DEF Of
  <2> QED BY <1>1, <1>2, <2>1, <2>2, <2>3 DEF ItsOwn
<1> QED BY <1>2 DEF ItsOwn

\* Tokens and browsers.
LEMMA OwnersStep ==
  ASSUME TypeOK, Shape, Owners, [Next]_vars
  PROVE  Owners'
<1>1. ASSUME NEW p \in Task, NEW t \in Page,
             Login(p, t)
      PROVE  Owners'
  <2>1. Fits(p) /\ run[p] \in Requests
    BY RunTyped DEF Shape
  <2>2. run' \in [Task -> Requests] /\ LoginDoes(p, t)
    BY <1>1, LoginWrites
  <2>3. Still(p)
    BY <2>2, StillAside DEF LoginDoes, Ops
  <2>4. cookie' = cookie /\ run'[p].new \in {run[p].new, None}
    BY <2>2 DEF LoginDoes, StartsAt
  <2>5. ItsOwn(p)'
    BY <2>1, <2>2 DEF LoginDoes, StartsAt, ItsOwn, Fits
  <2> QED BY <2>3, <2>4, <2>5, OwnersKept
<1>2. ASSUME NEW p \in Task, NEW t \in Page,
             Refresh(p, t)
      PROVE  Owners'
  <2>1. Fits(p) /\ run[p] \in Requests
    BY RunTyped DEF Shape
  <2>2. run' \in [Task -> Requests] /\ RefreshDoes(p, t)
    BY <1>2, RefreshWrites
  <2>3. Still(p)
    BY <2>2, StillAside DEF RefreshDoes, Ops
  <2>4. cookie' = cookie /\ run'[p].new = None /\ run'[p].page = {t}
        /\ run'[p].old \in {cookie[Home[t]], None}
    BY <2>2 DEF RefreshDoes, StartsAt
  <2>5. Of(p)' = {Home[t]} /\ Home[t] \in Browser
    BY <2>4 DEF Of
  <2>6. run'[p].old # None => /\ \A b \in Browser \ Of(p)' : cookie'[b] # run'[p].old
                              /\ \A q \in Task : run[q].new # run'[p].old
    <3>1. SUFFICES ASSUME run'[p].old = cookie[Home[t]], cookie[Home[t]] # None
                   PROVE  /\ \A b \in Browser \ Of(p)' : cookie'[b] # run'[p].old
                          /\ \A q \in Task : run[q].new # run'[p].old
      BY <2>4
    <3>2. \A b \in Browser \ Of(p)' : cookie'[b] # run'[p].old
      BY <2>4, <2>5, <3>1 DEF Owners, Apart
    <3>3. ASSUME NEW q \in Task
          PROVE  run[q].new # run'[p].old
      <4>1. OnItsWay(q)
        BY DEF Owners
      <4> QED BY <2>5, <3>1, <4>1 DEF OnItsWay
    <3> QED BY <3>2, <3>3
  <2>7. \A q \in Task : run'[q].new \in {run[q].new, None}
    BY <2>3, <2>4 DEF Still, Alike
  <2>8. run'[p].old # None => \A q \in Task : run'[q].new # run'[p].old
    BY <2>6, <2>7
  <2>9. run'[p].op = "refresh" => run'[p].old # None
    BY <2>2 DEF RefreshDoes, StartsAt
  <2>10. ItsOwn(p)'
    BY <2>6, <2>8, <2>9 DEF ItsOwn
  <2> QED BY <2>3, <2>4, <2>10, OwnersKept
<1>3. ASSUME NEW p \in Task, NEW t \in Page,
             Logout(p, t)
      PROVE  Owners'
  <2>1. Fits(p) /\ run[p] \in Requests
    BY RunTyped DEF Shape
  <2>2. run' \in [Task -> Requests] /\ LogoutDoes(p, t)
    BY <1>3, LogoutWrites
  <2>3. Still(p)
    BY <2>2, StillAside DEF LogoutDoes, Ops
  <2>4. cookie' = cookie /\ run'[p].new \in {run[p].new, None}
    BY <2>2 DEF LogoutDoes, StartsAt
  <2>5. ItsOwn(p)'
    BY <2>1, <2>2 DEF LogoutDoes, StartsAt, ItsOwn, Fits
  <2> QED BY <2>3, <2>4, <2>5, OwnersKept
<1>4. ASSUME NEW p \in Task, NEW t \in Page,
             ListSessions(p, t)
      PROVE  Owners'
  <2>1. Fits(p) /\ run[p] \in Requests
    BY RunTyped DEF Shape
  <2>2. run' \in [Task -> Requests] /\ ListSessionsDoes(p, t)
    BY <1>4, ListSessionsWrites
  <2>3. Still(p)
    BY <2>2, StillAside DEF ListSessionsDoes, Ops
  <2>4. cookie' = cookie /\ run'[p].new \in {run[p].new, None}
    BY <2>2 DEF ListSessionsDoes, StartsAt
  <2>5. ItsOwn(p)'
    BY <2>1, <2>2 DEF ListSessionsDoes, StartsAt, ItsOwn, Fits
  <2> QED BY <2>3, <2>4, <2>5, OwnersKept
<1>5. ASSUME NEW p \in Task, NEW t \in Page, NEW k \in Token,
             RevokeSession(p, t, k)
      PROVE  Owners'
  <2>1. Fits(p) /\ run[p] \in Requests
    BY RunTyped DEF Shape
  <2>2. run' \in [Task -> Requests] /\ RevokeSessionDoes(p, t, k)
    BY <1>5, RevokeSessionWrites
  <2>3. Still(p)
    BY <2>2, StillAside DEF RevokeSessionDoes, Ops
  <2>4. cookie' = cookie /\ run'[p].new \in {run[p].new, None}
    BY <2>2 DEF RevokeSessionDoes, StartsAt
  <2>5. ItsOwn(p)'
    BY <2>1, <2>2 DEF RevokeSessionDoes, StartsAt, ItsOwn, Fits
  <2> QED BY <2>3, <2>4, <2>5, OwnersKept
<1>6. ASSUME NEW p \in Task, NEW t \in Page, NEW k \in Token \union {None},
             RevokeOthers(p, t, k)
      PROVE  Owners'
  <2>1. Fits(p) /\ run[p] \in Requests
    BY RunTyped DEF Shape
  <2>2. run' \in [Task -> Requests] /\ RevokeOthersDoes(p, t, k)
    BY <1>6, RevokeOthersWrites
  <2>3. Still(p)
    BY <2>2, StillAside DEF RevokeOthersDoes, Ops
  <2>4. cookie' = cookie /\ run'[p].new = None /\ run'[p].page = {t}
        /\ run'[p].old \in {cookie[Home[t]], None}
    BY <2>2 DEF RevokeOthersDoes, StartsAt
  <2>5. Of(p)' = {Home[t]} /\ Home[t] \in Browser
    BY <2>4 DEF Of
  <2>6. run'[p].old # None => /\ \A b \in Browser \ Of(p)' : cookie'[b] # run'[p].old
                              /\ \A q \in Task : run[q].new # run'[p].old
    <3>1. SUFFICES ASSUME run'[p].old = cookie[Home[t]], cookie[Home[t]] # None
                   PROVE  /\ \A b \in Browser \ Of(p)' : cookie'[b] # run'[p].old
                          /\ \A q \in Task : run[q].new # run'[p].old
      BY <2>4
    <3>2. \A b \in Browser \ Of(p)' : cookie'[b] # run'[p].old
      BY <2>4, <2>5, <3>1 DEF Owners, Apart
    <3>3. ASSUME NEW q \in Task
          PROVE  run[q].new # run'[p].old
      <4>1. OnItsWay(q)
        BY DEF Owners
      <4> QED BY <2>5, <3>1, <4>1 DEF OnItsWay
    <3> QED BY <3>2, <3>3
  <2>7. \A q \in Task : run'[q].new \in {run[q].new, None}
    BY <2>3, <2>4 DEF Still, Alike
  <2>8. run'[p].old # None => \A q \in Task : run'[q].new # run'[p].old
    BY <2>6, <2>7
  <2>9. run'[p].op = "refresh" => run'[p].old # None
    BY <2>2 DEF RevokeOthersDoes, StartsAt
  <2>10. ItsOwn(p)'
    BY <2>6, <2>8, <2>9 DEF ItsOwn
  <2> QED BY <2>3, <2>4, <2>10, OwnersKept
<1>7. ASSUME NEW p \in Task,
             Validates(p)
      PROVE  Owners'
  <2>1. Fits(p) /\ run[p] \in Requests
    BY RunTyped DEF Shape
  <2>2. run' \in [Task -> Requests] /\ ValidatesDoes(p)
    BY <1>7, ValidatesWrites
  <2>3. Still(p)
    BY <2>2, StillOthers DEF ValidatesDoes
  <2>4. cookie' = cookie /\ run'[p].new \in {run[p].new, None}
    BY <2>2 DEF ValidatesDoes, GoesTo, IdleAt
  <2>5. /\ run'[p].op = "refresh" => /\ run[p].op = "refresh" /\ run'[p].old = run[p].old
                                     /\ run'[p].page = run[p].page
        /\ ~ (run'[p].op = "others" /\ run'[p].pc = "read")
    BY <2>1, <2>2 DEF ValidatesDoes, GoesTo, IdleAt, Fits
  <2>6. ItsOwn(p)'
    BY <2>3, <2>4, <2>5, OwnGoes
  <2> QED BY <2>3, <2>4, <2>6, OwnersKept
<1>8. ASSUME NEW p \in Task,
             Deletes(p)
      PROVE  Owners'
  <2>1. Fits(p) /\ run[p] \in Requests
    BY RunTyped DEF Shape
  <2>2. run' \in [Task -> Requests] /\ DeletesDoes(p)
    BY <1>8, DeletesWrites
  <2>3. Still(p)
    BY <2>2, StillOthers DEF DeletesDoes
  <2>4. cookie' = cookie /\ run'[p].new \in {run[p].new, None}
    BY <2>2 DEF DeletesDoes, GoesTo
  <2>5. /\ run'[p].op = "refresh" => /\ run[p].op = "refresh" /\ run'[p].old = run[p].old
                                     /\ run'[p].page = run[p].page
        /\ ~ (run'[p].op = "others" /\ run'[p].pc = "read")
    BY <2>1, <2>2 DEF DeletesDoes, GoesTo, Fits
  <2>6. ItsOwn(p)'
    BY <2>3, <2>4, <2>5, OwnGoes
  <2> QED BY <2>3, <2>4, <2>6, OwnersKept
<1>9. ASSUME NEW p \in Task,
             Removes(p)
      PROVE  Owners'
  <2>1. Fits(p) /\ run[p] \in Requests
    BY RunTyped DEF Shape
  <2>2. run' \in [Task -> Requests] /\ RemovesDoes(p)
    BY <1>9, RemovesWrites
  <2>3. Still(p)
    BY <2>2, StillOthers DEF RemovesDoes
  <2>4. cookie' = cookie /\ run'[p].new \in {run[p].new, None}
    BY <2>2 DEF RemovesDoes, GoesTo, IdleAt, BackAt
  <2>5. /\ run'[p].op = "refresh" => /\ run[p].op = "refresh" /\ run'[p].old = run[p].old
                                     /\ run'[p].page = run[p].page
        /\ ~ (run'[p].op = "others" /\ run'[p].pc = "read")
    BY <2>1, <2>2 DEF RemovesDoes, GoesTo, IdleAt, BackAt, Fits
  <2>6. ItsOwn(p)'
    BY <2>3, <2>4, <2>5, OwnGoes
  <2> QED BY <2>3, <2>4, <2>6, OwnersKept
<1>10. ASSUME NEW p \in Task,
             Registers(p), UNCHANGED <<cookie, page, out>>
      PROVE  Owners'
  <2>1. Fits(p) /\ run[p] \in Requests
    BY RunTyped DEF Shape
  <2>2. run' \in [Task -> Requests] /\ RegistersDoes(p)
    BY <1>10, RegistersWrites
  <2>3. Still(p)
    BY <2>2, StillOthers DEF RegistersDoes
  <2>4. CASE run[p].pc = "set"
    <3>1. PICK k \in Fresh : MakesAt(p, k)
      BY <2>2, <2>4 DEF RegistersDoes
    <3>2. /\ cookie' = cookie /\ run'[p].new = k /\ run'[p].page = run[p].page
          /\ run'[p].old = run[p].old /\ run'[p].op = run[p].op /\ run'[p].pc = "add"
      BY <2>2, <3>1 DEF RegistersDoes, MakesAt
    <3>3. /\ \A b \in Browser : cookie[b] # k
          /\ \A q \in Task : run[q].old # k /\ run[q].new # k
      BY FreshIsNew
    <3>4. Apart'
      BY <3>2 DEF Owners, Apart
    <3>5. ASSUME NEW q \in Task
          PROVE  OnItsWay(q)' /\ ItsOwn(q)'
      <4>1. OnItsWay(q) /\ ItsOwn(q)
        BY DEF Owners
      <4>2. /\ run'[q].op = run[q].op /\ run'[q].old = run[q].old /\ Of(q)' = Of(q)
            /\ q # p => run'[q].new = run[q].new
        BY <2>3, <3>2 DEF Still, Alike, Of
      <4>3. \A r \in Task \ {p} : run'[r].new = run[r].new
        BY <2>3 DEF Still, Alike
      <4>4. OnItsWay(q)'
        <5>1. CASE q = p
          <6>1. \A b \in Browser : cookie'[b] # k
            BY <3>2, <3>3
          <6>2. \A r \in Task \ {p} : run'[r].new # k
            BY <3>3, <4>3
          <6> QED BY <3>2, <5>1, <6>1, <6>2 DEF OnItsWay
        <5>2. CASE q # p
          BY <3>2, <3>3, <4>1, <4>2, <4>3, <5>2 DEF OnItsWay
        <5> QED BY <5>1, <5>2
      <4>5. run'[q].op = "others" /\ run'[q].pc = "read" => run[q].pc = "read"
        BY <2>3, <3>2 DEF Still, Alike
      <4>6. ItsOwn(q)'
        BY <3>2, <3>3, <4>1, <4>2, <4>3, <4>5 DEF ItsOwn
      <4> QED BY <4>4, <4>6
    <3> QED BY <3>4, <3>5 DEF Owners
  <2>5. CASE run[p].pc = "add"
    <3>1. /\ GoesTo(p, "answer") /\ cookie' = cookie
      BY <2>2, <2>5 DEF RegistersDoes
    <3>2. /\ run'[p].op = run[p].op /\ run'[p].old = run[p].old /\ run'[p].page = run[p].page
          /\ run'[p].pc = "answer" /\ run'[p].new = run[p].new
      BY <3>1 DEF GoesTo
    <3>3. ItsOwn(p)'
      BY <2>3, <3>1, <3>2, OwnGoes
    <3> QED BY <2>3, <3>1, <3>2, <3>3, OwnersKept
  <2> QED BY <2>2, <2>4, <2>5 DEF RegistersDoes
<1>11. ASSUME NEW p \in Task,
             Answers(p)
      PROVE  Owners'
  <2>1. Fits(p) /\ run[p] \in Requests
    BY RunTyped DEF Shape
  <2>2. run' \in [Task -> Requests] /\ AnswersDoes(p)
    BY <1>11, <2>1, AnswersWrites
  <2>3. Still(p)
    BY <2>2, StillOthers DEF AnswersDoes
  <2>4. PICK t \in Page : run[p].page = {t}
    BY <2>1, <2>2 DEF Fits, AnswersDoes
  <2> DEFINE k == IF run[p].op = "logout" THEN None ELSE run[p].new
  <2>5. cookie' = [cookie EXCEPT ![Home[t]] = k] /\ run'[p].new = None /\ run'[p].op = "idle"
    BY <2>2, <2>4 DEF AnswersDoes, IdleAt
  <2>6. k # None => /\ \A b \in Browser : cookie[b] # k
                    /\ \A q \in Task \ {p} : run[q].new # k
                    /\ k = run[p].new
    <3>1. OnItsWay(p)
      BY DEF Owners
    <3> QED BY <3>1 DEF OnItsWay
  <2> HIDE DEF k
  <2>7. \A b \in Browser : cookie'[b] = IF b = Home[t] THEN k ELSE cookie[b]
    BY <2>5 DEF TypeOK
  <2>8. Apart'
    BY <2>6, <2>7 DEF Owners, Apart
  <2>9. \A q \in Task : run'[q].new \in {run[q].new, None} /\ (q = p => run'[q].new = None)
    BY <2>3, <2>5 DEF Still, Alike
  <2>10. ASSUME NEW q \in Task
         PROVE  OnItsWay(q)' /\ ItsOwn(q)'
    <3>1. CASE q = p
      BY <2>5, <3>1 DEF OnItsWay, ItsOwn
    <3>2. CASE q # p
      <4>1. OnItsWay(q) /\ ItsOwn(q) /\ ItsOwn(q) /\ Alike(q) /\ Fits(q)
        BY <2>3, <3>2 DEF Owners, Still, Shape
      <4>2. OnItsWay(q)'
        BY <2>6, <2>7, <2>9, <3>2, <4>1 DEF OnItsWay, Alike
      <4>3. /\ run'[q].op = run[q].op /\ run'[q].pc = run[q].pc /\ run'[q].old = run[q].old
            /\ Of(q)' = Of(q)
        BY <4>1 DEF Alike, Of
      <4>4. run[q].op = "refresh" => run[q].old # None
        BY <4>1 DEF Fits
      <4>5. ASSUME NEW b \in Browser \ Of(q), run[q].old # None,
                   \/ run[q].op = "refresh"
                   \/ run[q].op = "others" /\ run[q].pc = "read"
            PROVE  cookie'[b] # run[q].old
        <5>1. cookie[b] # run[q].old /\ run[p].new # run[q].old
          BY <4>1, <4>5 DEF ItsOwn
        <5> QED BY <2>6, <2>7, <4>5, <5>1
      <4>6. ASSUME NEW r \in Task, run[q].old # None,
                   \/ run[q].op = "refresh"
                   \/ run[q].op = "others" /\ run[q].pc = "read"
            PROVE  run'[r].new # run[q].old
        BY <2>9, <4>1, <4>6 DEF ItsOwn
      <4>7. ItsOwn(q)'
        BY <4>3, <4>4, <4>5, <4>6 DEF ItsOwn
      <4> QED BY <4>2, <4>7
    <3> QED BY <3>1, <3>2
  <2> QED BY <2>8, <2>10 DEF Owners
<1>12. ASSUME NEW p \in Task,
             ReadsSet(p)
      PROVE  Owners'
  <2>1. Fits(p) /\ run[p] \in Requests
    BY RunTyped DEF Shape
  <2>2. run' \in [Task -> Requests] /\ ReadsSetDoes(p)
    BY <1>12, ReadsSetWrites
  <2>3. Still(p)
    BY <2>2, StillOthers DEF ReadsSetDoes
  <2>4. cookie' = cookie /\ run'[p].new \in {run[p].new, None}
    BY <2>2 DEF ReadsSetDoes, ReadsAt
  <2>5. ItsOwn(p)'
    BY <2>1, <2>2 DEF ReadsSetDoes, ReadsAt, ItsOwn, Fits
  <2> QED BY <2>3, <2>4, <2>5, OwnersKept
<1>13. ASSUME NEW p \in Task,
             RevokesNext(p)
      PROVE  Owners'
  <2>1. Fits(p) /\ run[p] \in Requests
    BY RunTyped DEF Shape
  <2>2. run' \in [Task -> Requests] /\ RevokesNextDoes(p)
    BY <1>13, RevokesNextWrites
  <2>3. Still(p)
    BY <2>2, StillOthers DEF RevokesNextDoes
  <2>4. cookie' = cookie /\ run'[p].new \in {run[p].new, None}
    BY <2>2 DEF RevokesNextDoes, IdleAt, TakesAt
  <2>5. ItsOwn(p)'
    BY <2>1, <2>2 DEF RevokesNextDoes, IdleAt, TakesAt, ItsOwn, Fits
  <2> QED BY <2>3, <2>4, <2>5, OwnersKept
<1>14. ASSUME NEW p \in Task,
             ListsNext(p)
      PROVE  Owners'
  <2>1. Fits(p) /\ run[p] \in Requests
    BY RunTyped DEF Shape
  <2>2. run' \in [Task -> Requests] /\ ListsNextDoes(p)
    BY <1>14, ListsNextWrites
  <2>3. Still(p)
    BY <2>2, StillOthers DEF ListsNextDoes
  <2>4. cookie' = cookie /\ run'[p].new \in {run[p].new, None}
    BY <2>2 DEF ListsNextDoes, IdleAt, TakesAt, LooksAt
  <2>5. ItsOwn(p)'
    BY <2>1, <2>2 DEF ListsNextDoes, IdleAt, TakesAt, LooksAt, ItsOwn, Fits
  <2> QED BY <2>3, <2>4, <2>5, OwnersKept
<1>15. ASSUME NEW p \in Task,
             Drops(p)
      PROVE  Owners'
  <2>1. Fits(p) /\ run[p] \in Requests
    BY RunTyped DEF Shape
  <2>2. run' \in [Task -> Requests] /\ DropsDoes(p)
    BY <1>15, DropsWrites
  <2>3. Still(p)
    BY <2>2, StillOthers DEF DropsDoes
  <2>4. cookie' = cookie /\ run'[p].new \in {run[p].new, None}
    BY <2>2 DEF DropsDoes, IdleAt
  <2>5. ItsOwn(p)'
    BY <2>1, <2>2 DEF DropsDoes, IdleAt, ItsOwn, Fits
  <2> QED BY <2>3, <2>4, <2>5, OwnersKept
<1>16. ASSUME NEW t \in Page, RefreshNothing(t)
      PROVE  Owners'
  BY <1>16 DEF RefreshNothing, Owners, Apart, OnItsWay, ItsOwn, Of
<1>17. ASSUME NEW k \in Token, Expires(k)
      PROVE  Owners'
  BY <1>17 DEF Expires, Owners, Apart, OnItsWay, ItsOwn, Of
<1>18. CASE UNCHANGED vars
  BY <1>18 DEF vars, Owners, Apart, OnItsWay, ItsOwn, Of
<1>19. ASSUME NEW b \in Browser, Forgets(b)
      PROVE  Owners'
  <2>1. /\ \A c \in Browser : cookie'[c] \in {cookie[c], None}
        /\ run' = run
    BY <1>19 DEF Forgets, TypeOK
  <2>2. Apart'
    BY <2>1 DEF Owners, Apart
  <2>3. ASSUME NEW q \in Task
        PROVE  OnItsWay(q)'
    <3>1. OnItsWay(q)
      BY DEF Owners
    <3> QED BY <2>1, <3>1 DEF OnItsWay
  <2>4. ASSUME NEW q \in Task
        PROVE  ItsOwn(q)'
    <3>1. ItsOwn(q) /\ Of(q)' = Of(q)
      BY <2>1 DEF Owners, Of
    <3>2. run[q].op = "refresh" => run[q].old # None
      BY DEF Shape, Fits
    <3> QED BY <2>1, <3>1, <3>2 DEF ItsOwn
  <2> QED BY <2>2, <2>3, <2>4 DEF Owners
<1> QED
  BY <1>1, <1>2, <1>3, <1>4, <1>5, <1>6, <1>7, <1>8, <1>9, <1>10, <1>11, <1>12, <1>13, <1>14, <1>15, <1>16, <1>17, <1>18, <1>19
  DEF Next, Request, Handler

\* Seen from a request q: another one takes no session back, and asks for no token.
LEMMA DueKept ==
  ASSUME Due, NEW p \in Task, NEW q \in Task \ {p}, Still(p),
         run'[q].due \subseteq run[q].due,
         \A b \in run'[q].due : cookie'[b] \in stored' => cookie'[b] = cookie[b] /\ cookie[b] \in stored,
         run'[p].op \in {"login", "refresh"} => \A b \in run'[q].due : b \notin Of(p)'
  PROVE  DueOf(q)'
<1> SUFFICES ASSUME NEW b \in run'[q].due
             PROVE  /\ run'[q].op = "others" /\ run'[q].pc \in {"next", "del", "srem"}
                    /\ \A r \in Task : run'[r].op \in {"login", "refresh"} => b \notin Of(r)'
                    /\ cookie'[b] \in stored' =>
                          cookie'[b] \in run'[q].todo \/ (run'[q].pc = "del" /\ cookie'[b] = run'[q].old)
  BY DEF DueOf
<1>1. b \in run[q].due /\ DueOf(q) /\ Alike(q)
  BY DEF Due, Still
<1>2. /\ run[q].op = "others" /\ run[q].pc \in {"next", "del", "srem"}
      /\ \A r \in Task : run[r].op \in {"login", "refresh"} => b \notin Of(r)
      /\ cookie[b] \in stored =>
            cookie[b] \in run[q].todo \/ (run[q].pc = "del" /\ cookie[b] = run[q].old)
  BY <1>1 DEF DueOf
<1>3. ASSUME NEW r \in Task, run'[r].op \in {"login", "refresh"}
      PROVE  b \notin Of(r)'
  <2>1. CASE r = p
    BY <1>3, <2>1
  <2>2. CASE r # p
    <3>1. Alike(r)
      BY <2>2 DEF Still
    <3> QED BY <1>2, <1>3, <3>1 DEF Alike, Of
  <2> QED BY <2>1, <2>2
<1> QED BY <1>1, <1>2, <1>3 DEF Alike

\* A request that has nobody to sign out.
LEMMA NothingDue ==
  ASSUME Due, NEW p \in Task, run[p].op # "others" \/ run[p].pc \notin {"next", "del", "srem"}
  PROVE  run[p].due = {}
BY DEF Due, DueOf

\* Who is still to be signed out.
LEMMA DueStep ==
  ASSUME TypeOK, Shape, Listed, Owners, Due, [Next]_vars
  PROVE  Due'
<1>1. ASSUME NEW p \in Task, NEW t \in Page,
             Login(p, t)
      PROVE  Due'
  <2>1. Fits(p) /\ run[p] \in Requests
    BY RunTyped DEF Shape
  <2>2. run' \in [Task -> Requests] /\ LoginDoes(p, t)
    BY <1>1, LoginWrites
  <2>3. Still(p)
    BY <2>2, StillAside DEF LoginDoes, Ops
  <2>4. /\ \A b \in Browser : cookie'[b] \in stored' => cookie'[b] = cookie[b] /\ cookie[b] \in stored
        /\ \A q \in Task \ {p} : run'[q].due \subseteq run[q].due
    BY <2>2 DEF LoginDoes, Aside, AsideOf
  <2>5. run'[p].due = {} /\ Of(p)' = {Home[t]}
    BY <2>2 DEF LoginDoes, StartsAt, Of
  <2>6. \A q \in Task \ {p} : Home[t] \notin run'[q].due
    BY <2>2 DEF LoginDoes, Aside, AsideOf
  <2>7. ASSUME NEW q \in Task \ {p}
        PROVE  DueOf(q)'
    <3>1. run'[q].due \subseteq Browser
      BY <2>2 DEF Requests
    <3> QED BY <2>3, <2>4, <2>5, <2>6, <3>1, DueKept
  <2>8. DueOf(p)'
    <3>1. run'[p].due = {}
      BY <2>1, <2>2, NothingDue DEF LoginDoes, StartsAt, Fits
    <3> QED BY <3>1 DEF DueOf
  <2> QED BY <2>7, <2>8 DEF Due
<1>2. ASSUME NEW p \in Task, NEW t \in Page,
             Refresh(p, t)
      PROVE  Due'
  <2>1. Fits(p) /\ run[p] \in Requests
    BY RunTyped DEF Shape
  <2>2. run' \in [Task -> Requests] /\ RefreshDoes(p, t)
    BY <1>2, RefreshWrites
  <2>3. Still(p)
    BY <2>2, StillAside DEF RefreshDoes, Ops
  <2>4. /\ \A b \in Browser : cookie'[b] \in stored' => cookie'[b] = cookie[b] /\ cookie[b] \in stored
        /\ \A q \in Task \ {p} : run'[q].due \subseteq run[q].due
    BY <2>2 DEF RefreshDoes, Aside, AsideOf
  <2>5. run'[p].due = {} /\ Of(p)' = {Home[t]}
    BY <2>2 DEF RefreshDoes, StartsAt, Of
  <2>6. \A q \in Task \ {p} : Home[t] \notin run'[q].due
    BY <2>2 DEF RefreshDoes, Aside, AsideOf
  <2>7. ASSUME NEW q \in Task \ {p}
        PROVE  DueOf(q)'
    <3>1. run'[q].due \subseteq Browser
      BY <2>2 DEF Requests
    <3> QED BY <2>3, <2>4, <2>5, <2>6, <3>1, DueKept
  <2>8. DueOf(p)'
    <3>1. run'[p].due = {}
      BY <2>1, <2>2, NothingDue DEF RefreshDoes, StartsAt, Fits
    <3> QED BY <3>1 DEF DueOf
  <2> QED BY <2>7, <2>8 DEF Due
<1>3. ASSUME NEW p \in Task, NEW t \in Page,
             Logout(p, t)
      PROVE  Due'
  <2>1. Fits(p) /\ run[p] \in Requests
    BY RunTyped DEF Shape
  <2>2. run' \in [Task -> Requests] /\ LogoutDoes(p, t)
    BY <1>3, LogoutWrites
  <2>3. Still(p)
    BY <2>2, StillAside DEF LogoutDoes, Ops
  <2>4. /\ \A b \in Browser : cookie'[b] \in stored' => cookie'[b] = cookie[b] /\ cookie[b] \in stored
        /\ \A q \in Task \ {p} : run'[q].due \subseteq run[q].due
    BY <2>2 DEF LogoutDoes, Aside, AsideOf
  <2>5. run'[p].due = {} /\ Of(p)' = {Home[t]}
    BY <2>2 DEF LogoutDoes, StartsAt, Of
  <2>6. run'[p].op \notin {"login", "refresh"}
    BY <2>2 DEF LogoutDoes, StartsAt
  <2>7. ASSUME NEW q \in Task \ {p}
        PROVE  DueOf(q)'
    <3>1. run'[q].due \subseteq Browser
      BY <2>2 DEF Requests
    <3> QED BY <2>3, <2>4, <2>5, <2>6, <3>1, DueKept
  <2>8. DueOf(p)'
    <3>1. run'[p].due = {}
      BY <2>1, <2>2, NothingDue DEF LogoutDoes, StartsAt, Fits
    <3> QED BY <3>1 DEF DueOf
  <2> QED BY <2>7, <2>8 DEF Due
<1>4. ASSUME NEW p \in Task, NEW t \in Page,
             ListSessions(p, t)
      PROVE  Due'
  <2>1. Fits(p) /\ run[p] \in Requests
    BY RunTyped DEF Shape
  <2>2. run' \in [Task -> Requests] /\ ListSessionsDoes(p, t)
    BY <1>4, ListSessionsWrites
  <2>3. Still(p)
    BY <2>2, StillAside DEF ListSessionsDoes, Ops
  <2>4. /\ \A b \in Browser : cookie'[b] \in stored' => cookie'[b] = cookie[b] /\ cookie[b] \in stored
        /\ \A q \in Task \ {p} : run'[q].due \subseteq run[q].due
    BY <2>2 DEF ListSessionsDoes, Aside, AsideOf
  <2>5. run'[p].due = {} /\ Of(p)' = {Home[t]}
    BY <2>2 DEF ListSessionsDoes, StartsAt, Of
  <2>6. run'[p].op \notin {"login", "refresh"}
    BY <2>2 DEF ListSessionsDoes, StartsAt
  <2>7. ASSUME NEW q \in Task \ {p}
        PROVE  DueOf(q)'
    <3>1. run'[q].due \subseteq Browser
      BY <2>2 DEF Requests
    <3> QED BY <2>3, <2>4, <2>5, <2>6, <3>1, DueKept
  <2>8. DueOf(p)'
    <3>1. run'[p].due = {}
      BY <2>1, <2>2, NothingDue DEF ListSessionsDoes, StartsAt, Fits
    <3> QED BY <3>1 DEF DueOf
  <2> QED BY <2>7, <2>8 DEF Due
<1>5. ASSUME NEW p \in Task, NEW t \in Page, NEW k \in Token,
             RevokeSession(p, t, k)
      PROVE  Due'
  <2>1. Fits(p) /\ run[p] \in Requests
    BY RunTyped DEF Shape
  <2>2. run' \in [Task -> Requests] /\ RevokeSessionDoes(p, t, k)
    BY <1>5, RevokeSessionWrites
  <2>3. Still(p)
    BY <2>2, StillAside DEF RevokeSessionDoes, Ops
  <2>4. /\ \A b \in Browser : cookie'[b] \in stored' => cookie'[b] = cookie[b] /\ cookie[b] \in stored
        /\ \A q \in Task \ {p} : run'[q].due \subseteq run[q].due
    BY <2>2 DEF RevokeSessionDoes, Aside, AsideOf
  <2>5. run'[p].due = {} /\ Of(p)' = {Home[t]}
    BY <2>2 DEF RevokeSessionDoes, StartsAt, Of
  <2>6. run'[p].op \notin {"login", "refresh"}
    BY <2>2 DEF RevokeSessionDoes, StartsAt
  <2>7. ASSUME NEW q \in Task \ {p}
        PROVE  DueOf(q)'
    <3>1. run'[q].due \subseteq Browser
      BY <2>2 DEF Requests
    <3> QED BY <2>3, <2>4, <2>5, <2>6, <3>1, DueKept
  <2>8. DueOf(p)'
    <3>1. run'[p].due = {}
      BY <2>1, <2>2, NothingDue DEF RevokeSessionDoes, StartsAt, Fits
    <3> QED BY <3>1 DEF DueOf
  <2> QED BY <2>7, <2>8 DEF Due
<1>6. ASSUME NEW p \in Task, NEW t \in Page, NEW k \in Token \union {None},
             RevokeOthers(p, t, k)
      PROVE  Due'
  <2>1. Fits(p) /\ run[p] \in Requests
    BY RunTyped DEF Shape
  <2>2. run' \in [Task -> Requests] /\ RevokeOthersDoes(p, t, k)
    BY <1>6, RevokeOthersWrites
  <2>3. Still(p)
    BY <2>2, StillAside DEF RevokeOthersDoes, Ops
  <2>4. /\ \A b \in Browser : cookie'[b] \in stored' => cookie'[b] = cookie[b] /\ cookie[b] \in stored
        /\ \A q \in Task \ {p} : run'[q].due \subseteq run[q].due
    BY <2>2 DEF RevokeOthersDoes, Aside, AsideOf
  <2>5. run'[p].due = {} /\ Of(p)' = {Home[t]}
    <3>1. StartsAt(p, t, "others", "read", k)
      BY <2>2 DEF RevokeOthersDoes
    <3> QED BY <3>1 DEF StartsAt, Of
  <2>6. run'[p].op \notin {"login", "refresh"}
    BY <2>2 DEF RevokeOthersDoes, StartsAt
  <2>7. ASSUME NEW q \in Task \ {p}
        PROVE  DueOf(q)'
    <3>1. run'[q].due \subseteq Browser
      BY <2>2 DEF Requests
    <3> QED BY <2>3, <2>4, <2>5, <2>6, <3>1, DueKept
  <2>8. DueOf(p)'
    <3>1. run'[p].due = {}
      BY <2>1, <2>2, NothingDue DEF RevokeOthersDoes, StartsAt, Fits
    <3> QED BY <3>1 DEF DueOf
  <2> QED BY <2>7, <2>8 DEF Due
<1>7. ASSUME NEW p \in Task,
             Validates(p)
      PROVE  Due'
  <2>1. Fits(p) /\ run[p] \in Requests
    BY RunTyped DEF Shape
  <2>2. run' \in [Task -> Requests] /\ ValidatesDoes(p)
    BY <1>7, ValidatesWrites
  <2>3. Still(p)
    BY <2>2, StillOthers DEF ValidatesDoes
  <2>4. /\ \A b \in Browser : cookie'[b] \in stored' => cookie'[b] = cookie[b] /\ cookie[b] \in stored
        /\ \A q \in Task \ {p} : run'[q].due \subseteq run[q].due
    BY <2>2 DEF ValidatesDoes, Others
  <2>5. run'[p].op \in {"login", "refresh"} => run'[p].op = run[p].op /\ run'[p].page = run[p].page
    BY <2>2 DEF ValidatesDoes, GoesTo, IdleAt
  <2>6. ASSUME NEW q \in Task \ {p}
        PROVE  DueOf(q)'
    <3>1. run'[q].due \subseteq Browser
      BY <2>2 DEF Requests
    <3>2. ASSUME run'[p].op \in {"login", "refresh"}, NEW b \in run'[q].due
          PROVE  b \notin Of(p)'
      <4>1. b \in run[q].due /\ DueOf(q)
        BY <2>4, <3>2 DEF Due
      <4>2. Of(p)' = Of(p) /\ run[p].op \in {"login", "refresh"}
        BY <2>5, <3>2 DEF Of
      <4> QED BY <4>1, <4>2 DEF DueOf
    <3> QED BY <2>3, <2>4, <3>1, <3>2, DueKept
  <2>7. DueOf(p)'
    <3>1. run'[p].due = {}
      BY <2>1, <2>2, NothingDue DEF ValidatesDoes, GoesTo, IdleAt, Fits
    <3> QED BY <3>1 DEF DueOf
  <2> QED BY <2>6, <2>7 DEF Due
<1>8. ASSUME NEW p \in Task,
             Deletes(p)
      PROVE  Due'
  <2>1. Fits(p) /\ run[p] \in Requests
    BY RunTyped DEF Shape
  <2>2. run' \in [Task -> Requests] /\ DeletesDoes(p)
    BY <1>8, DeletesWrites
  <2>3. Still(p)
    BY <2>2, StillOthers DEF DeletesDoes
  <2>4. /\ \A b \in Browser : cookie'[b] \in stored' => cookie'[b] = cookie[b] /\ cookie[b] \in stored
        /\ \A q \in Task \ {p} : run'[q].due \subseteq run[q].due
    BY <2>2 DEF DeletesDoes, Others
  <2>5. run'[p].op \in {"login", "refresh"} => run'[p].op = run[p].op /\ run'[p].page = run[p].page
    BY <2>2 DEF DeletesDoes, GoesTo
  <2>6. ASSUME NEW q \in Task \ {p}
        PROVE  DueOf(q)'
    <3>1. run'[q].due \subseteq Browser
      BY <2>2 DEF Requests
    <3>2. ASSUME run'[p].op \in {"login", "refresh"}, NEW b \in run'[q].due
          PROVE  b \notin Of(p)'
      <4>1. b \in run[q].due /\ DueOf(q)
        BY <2>4, <3>2 DEF Due
      <4>2. Of(p)' = Of(p) /\ run[p].op \in {"login", "refresh"}
        BY <2>5, <3>2 DEF Of
      <4> QED BY <4>1, <4>2 DEF DueOf
    <3> QED BY <2>3, <2>4, <3>1, <3>2, DueKept
  <2>7. DueOf(p)'
    <3> SUFFICES ASSUME NEW b \in run'[p].due
                 PROVE  /\ run'[p].op = "others" /\ run'[p].pc \in {"next", "del", "srem"}
                        /\ \A r \in Task : run'[r].op \in {"login", "refresh"} => b \notin Of(r)'
                        /\ cookie'[b] \in stored' =>
                              cookie'[b] \in run'[p].todo \/ (run'[p].pc = "del" /\ cookie'[b] = run'[p].old)
      BY DEF DueOf
    <3>1. b \in run[p].due /\ run'[p].op = run[p].op
      BY <2>2 DEF DeletesDoes, GoesTo
    <3>2. /\ run[p].op = "others" /\ run[p].pc \in {"next", "del", "srem"}
          /\ \A r \in Task : run[r].op \in {"login", "refresh"} => b \notin Of(r)
          /\ cookie[b] \in stored =>
                cookie[b] \in run[p].todo \/ (run[p].pc = "del" /\ cookie[b] = run[p].old)
      BY <3>1 DEF Due, DueOf
    <3>3. ASSUME NEW r \in Task, run'[r].op \in {"login", "refresh"}
          PROVE  b \notin Of(r)'
      <4>1. r # p
        BY <3>1, <3>2, <3>3
      <4>2. Alike(r)
        BY <2>3, <4>1 DEF Still
      <4> QED BY <3>2, <3>3, <4>2 DEF Alike, Of
    <3>4. /\ run'[p].pc \in {"next", "del", "srem"}
          /\ cookie'[b] \in stored' =>
                cookie'[b] \in run'[p].todo \/ (run'[p].pc = "del" /\ cookie'[b] = run'[p].old)
      BY <2>2, <3>1, <3>2 DEF DeletesDoes, GoesTo
    <3> QED BY <3>1, <3>2, <3>3, <3>4
  <2> QED BY <2>6, <2>7 DEF Due
<1>9. ASSUME NEW p \in Task,
             Removes(p)
      PROVE  Due'
  <2>1. Fits(p) /\ run[p] \in Requests
    BY RunTyped DEF Shape
  <2>2. run' \in [Task -> Requests] /\ RemovesDoes(p)
    BY <1>9, RemovesWrites
  <2>3. Still(p)
    BY <2>2, StillOthers DEF RemovesDoes
  <2>4. /\ \A b \in Browser : cookie'[b] \in stored' => cookie'[b] = cookie[b] /\ cookie[b] \in stored
        /\ \A q \in Task \ {p} : run'[q].due \subseteq run[q].due
    BY <2>2 DEF RemovesDoes, Others
  <2>5. run'[p].op \in {"login", "refresh"} => run'[p].op = run[p].op /\ run'[p].page = run[p].page
    BY <2>2 DEF RemovesDoes, GoesTo, IdleAt, BackAt
  <2>6. ASSUME NEW q \in Task \ {p}
        PROVE  DueOf(q)'
    <3>1. run'[q].due \subseteq Browser
      BY <2>2 DEF Requests
    <3>2. ASSUME run'[p].op \in {"login", "refresh"}, NEW b \in run'[q].due
          PROVE  b \notin Of(p)'
      <4>1. b \in run[q].due /\ DueOf(q)
        BY <2>4, <3>2 DEF Due
      <4>2. Of(p)' = Of(p) /\ run[p].op \in {"login", "refresh"}
        BY <2>5, <3>2 DEF Of
      <4> QED BY <4>1, <4>2 DEF DueOf
    <3> QED BY <2>3, <2>4, <3>1, <3>2, DueKept
  <2>7. DueOf(p)'
    <3> SUFFICES ASSUME NEW b \in run'[p].due
                 PROVE  /\ run'[p].op = "others" /\ run'[p].pc \in {"next", "del", "srem"}
                        /\ \A r \in Task : run'[r].op \in {"login", "refresh"} => b \notin Of(r)'
                        /\ cookie'[b] \in stored' =>
                              cookie'[b] \in run'[p].todo \/ (run'[p].pc = "del" /\ cookie'[b] = run'[p].old)
      BY DEF DueOf
    <3>1. b \in run[p].due /\ run'[p].op = run[p].op
      BY <2>2 DEF RemovesDoes, GoesTo, IdleAt, BackAt
    <3>2. /\ run[p].op = "others" /\ run[p].pc \in {"next", "del", "srem"}
          /\ \A r \in Task : run[r].op \in {"login", "refresh"} => b \notin Of(r)
          /\ cookie[b] \in stored =>
                cookie[b] \in run[p].todo \/ (run[p].pc = "del" /\ cookie[b] = run[p].old)
      BY <3>1 DEF Due, DueOf
    <3>3. ASSUME NEW r \in Task, run'[r].op \in {"login", "refresh"}
          PROVE  b \notin Of(r)'
      <4>1. r # p
        BY <3>1, <3>2, <3>3
      <4>2. Alike(r)
        BY <2>3, <4>1 DEF Still
      <4> QED BY <3>2, <3>3, <4>2 DEF Alike, Of
    <3>4. /\ run'[p].pc \in {"next", "del", "srem"}
          /\ cookie'[b] \in stored' =>
                cookie'[b] \in run'[p].todo \/ (run'[p].pc = "del" /\ cookie'[b] = run'[p].old)
      BY <2>2, <3>1, <3>2 DEF RemovesDoes, GoesTo, IdleAt, BackAt
    <3> QED BY <3>1, <3>2, <3>3, <3>4
  <2> QED BY <2>6, <2>7 DEF Due
<1>10. ASSUME NEW p \in Task,
             Registers(p), UNCHANGED <<cookie, page, out>>
      PROVE  Due'
  <2>1. Fits(p) /\ run[p] \in Requests
    BY RunTyped DEF Shape
  <2>2. run' \in [Task -> Requests] /\ RegistersDoes(p)
    BY <1>10, RegistersWrites
  <2>3. Still(p)
    BY <2>2, StillOthers DEF RegistersDoes
  <2>4. /\ \A b \in Browser : cookie'[b] \in stored' => cookie'[b] = cookie[b] /\ cookie[b] \in stored
        /\ \A q \in Task \ {p} : run'[q].due \subseteq run[q].due
    <3>1. cookie' = cookie /\ stored' \subseteq stored \union Fresh
      BY <2>2 DEF RegistersDoes
    <3>2. \A q \in Task \ {p} : run'[q].due = run[q].due
      BY <2>2 DEF RegistersDoes, Others
    <3> QED BY <3>1, <3>2, FreshIsNew
  <2>5. run'[p].op \in {"login", "refresh"} => run'[p].op = run[p].op /\ run'[p].page = run[p].page
    BY <2>2 DEF RegistersDoes, GoesTo, MakesAt
  <2>6. ASSUME NEW q \in Task \ {p}
        PROVE  DueOf(q)'
    <3>1. run'[q].due \subseteq Browser
      BY <2>2 DEF Requests
    <3>2. ASSUME run'[p].op \in {"login", "refresh"}, NEW b \in run'[q].due
          PROVE  b \notin Of(p)'
      <4>1. b \in run[q].due /\ DueOf(q)
        BY <2>4, <3>2 DEF Due
      <4>2. Of(p)' = Of(p) /\ run[p].op \in {"login", "refresh"}
        BY <2>5, <3>2 DEF Of
      <4> QED BY <4>1, <4>2 DEF DueOf
    <3> QED BY <2>3, <2>4, <3>1, <3>2, DueKept
  <2>7. DueOf(p)'
    <3>1. run'[p].due = {}
      BY <2>1, <2>2, NothingDue DEF RegistersDoes, GoesTo, MakesAt, Fits
    <3> QED BY <3>1 DEF DueOf
  <2> QED BY <2>6, <2>7 DEF Due
<1>11. ASSUME NEW p \in Task,
             Answers(p)
      PROVE  Due'
  <2>1. Fits(p) /\ run[p] \in Requests
    BY RunTyped DEF Shape
  <2>2. run' \in [Task -> Requests] /\ AnswersDoes(p)
    BY <1>11, <2>1, AnswersWrites
  <2>3. Still(p)
    BY <2>2, StillOthers DEF AnswersDoes
  <2>4. PICK t \in Page : run[p].page = {t}
    BY <2>1, <2>2 DEF Fits, AnswersDoes
  <2> DEFINE k == IF run[p].op = "logout" THEN None ELSE run[p].new
  <2>5. /\ cookie' = [cookie EXCEPT ![Home[t]] = k] /\ stored' = stored
        /\ run'[p].due = {} /\ run'[p].op = "idle" /\ run[p].op \in {"login", "refresh", "logout"}
    BY <2>1, <2>2, <2>4 DEF AnswersDoes, IdleAt, Fits
  <2> HIDE DEF k
  <2>6. \A b \in Browser : cookie'[b] = IF b = Home[t] THEN k ELSE cookie[b]
    BY <2>5 DEF TypeOK
  <2>7. ASSUME NEW q \in Task \ {p}
        PROVE  DueOf(q)'
    <3>1. run'[q].due = run[q].due /\ run'[q].due \subseteq Browser
      BY <2>2 DEF AnswersDoes, Others, Requests
    <3>2. ASSUME NEW b \in run'[q].due, cookie'[b] \in stored'
          PROVE  cookie'[b] = cookie[b] /\ cookie[b] \in stored
      <4>1. CASE b = Home[t]
        <5>1. run[p].op = "logout"
          <6>1. DueOf(q) /\ b \in Of(p)
            BY <2>4, <3>1, <4>1 DEF Due, Of
          <6> QED BY <2>5, <3>1, <6>1 DEF DueOf
        <5>2. cookie'[b] = None
          BY <2>6, <3>1, <4>1, <5>1 DEF k
        <5> QED BY <2>5, <3>2, <5>2 DEF TypeOK
      <4>2. CASE b # Home[t]
        <5>1. b \in Browser
          BY <3>1
        <5>2. cookie'[b] = cookie[b]
          BY <2>6, <4>2, <5>1
        <5>3. stored' = stored
          BY <2>2 DEF AnswersDoes
        <5> QED BY <3>2, <5>2, <5>3
      <4> QED BY <4>1, <4>2
    <3> QED BY <2>3, <2>5, <3>1, <3>2, DueKept
  <2>8. DueOf(p)'
    BY <2>5 DEF DueOf
  <2> QED BY <2>7, <2>8 DEF Due
<1>12. ASSUME NEW p \in Task,
             ReadsSet(p)
      PROVE  Due'
  <2>1. Fits(p) /\ run[p] \in Requests
    BY RunTyped DEF Shape
  <2>2. run' \in [Task -> Requests] /\ ReadsSetDoes(p)
    BY <1>12, ReadsSetWrites
  <2>3. Still(p)
    BY <2>2, StillOthers DEF ReadsSetDoes
  <2>4. /\ \A b \in Browser : cookie'[b] \in stored' => cookie'[b] = cookie[b] /\ cookie[b] \in stored
        /\ \A q \in Task \ {p} : run'[q].due \subseteq run[q].due
    BY <2>2 DEF ReadsSetDoes, Others
  <2>5. run'[p].op \in {"login", "refresh"} => run'[p].op = run[p].op /\ run'[p].page = run[p].page
    BY <2>2 DEF ReadsSetDoes, ReadsAt
  <2>6. ASSUME NEW q \in Task \ {p}
        PROVE  DueOf(q)'
    <3>1. run'[q].due \subseteq Browser
      BY <2>2 DEF Requests
    <3>2. ASSUME run'[p].op \in {"login", "refresh"}, NEW b \in run'[q].due
          PROVE  b \notin Of(p)'
      <4>1. b \in run[q].due /\ DueOf(q)
        BY <2>4, <3>2 DEF Due
      <4>2. Of(p)' = Of(p) /\ run[p].op \in {"login", "refresh"}
        BY <2>5, <3>2 DEF Of
      <4> QED BY <4>1, <4>2 DEF DueOf
    <3> QED BY <2>3, <2>4, <3>1, <3>2, DueKept
  <2>7. DueOf(p)'
    <3> SUFFICES ASSUME NEW b \in run'[p].due
                 PROVE  /\ run'[p].op = "others" /\ run'[p].pc \in {"next", "del", "srem"}
                        /\ \A r \in Task : run'[r].op \in {"login", "refresh"} => b \notin Of(r)'
                        /\ cookie'[b] \in stored' =>
                              cookie'[b] \in run'[p].todo \/ (run'[p].pc = "del" /\ cookie'[b] = run'[p].old)
      BY DEF DueOf
    <3>1. /\ run[p].op = "others" /\ run'[p].op = "others" /\ run'[p].pc = "next"
          /\ run[p].pc = "read" /\ run'[p].todo = member \ {run[p].old}
          /\ b \in Browser /\ b \notin Keeps(p) /\ b \notin Asks
          /\ cookie' = cookie /\ stored' = stored
      BY <2>2 DEF ReadsSetDoes, ReadsAt
    <3>2. ASSUME NEW r \in Task, run'[r].op \in {"login", "refresh"}
          PROVE  b \notin Of(r)'
      <4>1. r # p
        BY <3>1, <3>2
      <4>2. Alike(r)
        BY <2>3, <4>1 DEF Still
      <4>3. Of(r)' = Of(r) /\ run[r].op \in {"login", "refresh"}
        BY <3>2, <4>2 DEF Alike, Of
      <4> QED BY <3>1, <4>3 DEF Asks
    <3>3. ASSUME cookie[b] \in stored
          PROVE  cookie[b] \in member \ {run[p].old}
      <4>1. cookie[b] \in member /\ cookie[b] \in Token
        BY <3>1, <3>3 DEF Listed, InUse, TypeOK
      <4>2. CASE run[p].old = None
        BY <4>1, <4>2
      <4>3. CASE run[p].old # None
        <5>1. b \notin Of(p) /\ ItsOwn(p)
          BY <3>1, <4>3 DEF Keeps, Owners
        <5>2. cookie[b] # run[p].old
          BY <3>1, <4>3, <5>1 DEF ItsOwn
        <5> QED BY <4>1, <5>2
      <4> QED BY <4>2, <4>3
    <3> QED BY <3>1, <3>2, <3>3
  <2> QED BY <2>6, <2>7 DEF Due
<1>13. ASSUME NEW p \in Task,
             RevokesNext(p)
      PROVE  Due'
  <2>1. Fits(p) /\ run[p] \in Requests
    BY RunTyped DEF Shape
  <2>2. run' \in [Task -> Requests] /\ RevokesNextDoes(p)
    BY <1>13, RevokesNextWrites
  <2>3. Still(p)
    BY <2>2, StillOthers DEF RevokesNextDoes
  <2>4. /\ \A b \in Browser : cookie'[b] \in stored' => cookie'[b] = cookie[b] /\ cookie[b] \in stored
        /\ \A q \in Task \ {p} : run'[q].due \subseteq run[q].due
    BY <2>2 DEF RevokesNextDoes, Others
  <2>5. run'[p].op \in {"login", "refresh"} => run'[p].op = run[p].op /\ run'[p].page = run[p].page
    BY <2>2 DEF RevokesNextDoes, IdleAt, TakesAt
  <2>6. ASSUME NEW q \in Task \ {p}
        PROVE  DueOf(q)'
    <3>1. run'[q].due \subseteq Browser
      BY <2>2 DEF Requests
    <3>2. ASSUME run'[p].op \in {"login", "refresh"}, NEW b \in run'[q].due
          PROVE  b \notin Of(p)'
      <4>1. b \in run[q].due /\ DueOf(q)
        BY <2>4, <3>2 DEF Due
      <4>2. Of(p)' = Of(p) /\ run[p].op \in {"login", "refresh"}
        BY <2>5, <3>2 DEF Of
      <4> QED BY <4>1, <4>2 DEF DueOf
    <3> QED BY <2>3, <2>4, <3>1, <3>2, DueKept
  <2>7. DueOf(p)'
    <3> SUFFICES ASSUME NEW b \in run'[p].due
                 PROVE  /\ run'[p].op = "others" /\ run'[p].pc \in {"next", "del", "srem"}
                        /\ \A r \in Task : run'[r].op \in {"login", "refresh"} => b \notin Of(r)'
                        /\ cookie'[b] \in stored' =>
                              cookie'[b] \in run'[p].todo \/ (run'[p].pc = "del" /\ cookie'[b] = run'[p].old)
      BY DEF DueOf
    <3>1. b \in run[p].due /\ run'[p].op = run[p].op
      BY <2>2 DEF RevokesNextDoes, IdleAt, TakesAt
    <3>2. /\ run[p].op = "others" /\ run[p].pc \in {"next", "del", "srem"}
          /\ \A r \in Task : run[r].op \in {"login", "refresh"} => b \notin Of(r)
          /\ cookie[b] \in stored =>
                cookie[b] \in run[p].todo \/ (run[p].pc = "del" /\ cookie[b] = run[p].old)
      BY <3>1 DEF Due, DueOf
    <3>3. ASSUME NEW r \in Task, run'[r].op \in {"login", "refresh"}
          PROVE  b \notin Of(r)'
      <4>1. r # p
        BY <3>1, <3>2, <3>3
      <4>2. Alike(r)
        BY <2>3, <4>1 DEF Still
      <4> QED BY <3>2, <3>3, <4>2 DEF Alike, Of
    <3>4. /\ run'[p].pc \in {"next", "del", "srem"}
          /\ cookie'[b] \in stored' =>
                cookie'[b] \in run'[p].todo \/ (run'[p].pc = "del" /\ cookie'[b] = run'[p].old)
      BY <2>2, <3>1, <3>2 DEF RevokesNextDoes, IdleAt, TakesAt
    <3> QED BY <3>1, <3>2, <3>3, <3>4
  <2> QED BY <2>6, <2>7 DEF Due
<1>14. ASSUME NEW p \in Task,
             ListsNext(p)
      PROVE  Due'
  <2>1. Fits(p) /\ run[p] \in Requests
    BY RunTyped DEF Shape
  <2>2. run' \in [Task -> Requests] /\ ListsNextDoes(p)
    BY <1>14, ListsNextWrites
  <2>3. Still(p)
    BY <2>2, StillOthers DEF ListsNextDoes
  <2>4. /\ \A b \in Browser : cookie'[b] \in stored' => cookie'[b] = cookie[b] /\ cookie[b] \in stored
        /\ \A q \in Task \ {p} : run'[q].due \subseteq run[q].due
    BY <2>2 DEF ListsNextDoes, Others
  <2>5. run'[p].op \in {"login", "refresh"} => run'[p].op = run[p].op /\ run'[p].page = run[p].page
    BY <2>2 DEF ListsNextDoes, IdleAt, TakesAt, LooksAt
  <2>6. ASSUME NEW q \in Task \ {p}
        PROVE  DueOf(q)'
    <3>1. run'[q].due \subseteq Browser
      BY <2>2 DEF Requests
    <3>2. ASSUME run'[p].op \in {"login", "refresh"}, NEW b \in run'[q].due
          PROVE  b \notin Of(p)'
      <4>1. b \in run[q].due /\ DueOf(q)
        BY <2>4, <3>2 DEF Due
      <4>2. Of(p)' = Of(p) /\ run[p].op \in {"login", "refresh"}
        BY <2>5, <3>2 DEF Of
      <4> QED BY <4>1, <4>2 DEF DueOf
    <3> QED BY <2>3, <2>4, <3>1, <3>2, DueKept
  <2>7. DueOf(p)'
    <3>1. run'[p].due = {}
      BY <2>1, <2>2, NothingDue DEF ListsNextDoes, IdleAt, TakesAt, LooksAt, Fits
    <3> QED BY <3>1 DEF DueOf
  <2> QED BY <2>6, <2>7 DEF Due
<1>15. ASSUME NEW p \in Task,
             Drops(p)
      PROVE  Due'
  <2>1. Fits(p) /\ run[p] \in Requests
    BY RunTyped DEF Shape
  <2>2. run' \in [Task -> Requests] /\ DropsDoes(p)
    BY <1>15, DropsWrites
  <2>3. Still(p)
    BY <2>2, StillOthers DEF DropsDoes
  <2>4. /\ \A b \in Browser : cookie'[b] \in stored' => cookie'[b] = cookie[b] /\ cookie[b] \in stored
        /\ \A q \in Task \ {p} : run'[q].due \subseteq run[q].due
    BY <2>2 DEF DropsDoes, Others
  <2>5. run'[p].op \in {"login", "refresh"} => run'[p].op = run[p].op /\ run'[p].page = run[p].page
    BY <2>2 DEF DropsDoes, IdleAt
  <2>6. ASSUME NEW q \in Task \ {p}
        PROVE  DueOf(q)'
    <3>1. run'[q].due \subseteq Browser
      BY <2>2 DEF Requests
    <3>2. ASSUME run'[p].op \in {"login", "refresh"}, NEW b \in run'[q].due
          PROVE  b \notin Of(p)'
      <4>1. b \in run[q].due /\ DueOf(q)
        BY <2>4, <3>2 DEF Due
      <4>2. Of(p)' = Of(p) /\ run[p].op \in {"login", "refresh"}
        BY <2>5, <3>2 DEF Of
      <4> QED BY <4>1, <4>2 DEF DueOf
    <3> QED BY <2>3, <2>4, <3>1, <3>2, DueKept
  <2>7. DueOf(p)'
    <3>1. run'[p].due = {}
      BY <2>1, <2>2, NothingDue DEF DropsDoes, IdleAt, Fits
    <3> QED BY <3>1 DEF DueOf
  <2> QED BY <2>6, <2>7 DEF Due
<1>16. ASSUME NEW t \in Page, RefreshNothing(t)
      PROVE  Due'
  BY <1>16 DEF RefreshNothing, Due, DueOf, Of
<1>17. ASSUME NEW k \in Token, Expires(k)
      PROVE  Due'
  BY <1>17 DEF Expires, Due, DueOf, Of
<1>18. CASE UNCHANGED vars
  BY <1>18 DEF vars, Due, DueOf, Of
<1>19. ASSUME NEW b \in Browser, Forgets(b)
      PROVE  Due'
  <2>1. /\ \A c \in Browser : cookie'[c] \in {cookie[c], None}
        /\ run' = run /\ stored' = stored /\ None \notin stored
    BY <1>19 DEF Forgets, TypeOK
  <2>2. ASSUME NEW q \in Task
        PROVE  DueOf(q)'
    <3>1. DueOf(q) /\ run[q].due \subseteq Browser
      BY DEF Due, TypeOK, Requests
    <3> QED BY <2>1, <3>1 DEF DueOf, Of
  <2> QED BY <2>2 DEF Due
<1> QED
  BY <1>1, <1>2, <1>3, <1>4, <1>5, <1>6, <1>7, <1>8, <1>9, <1>10, <1>11, <1>12, <1>13, <1>14, <1>15, <1>16, <1>17, <1>18, <1>19
  DEF Next, Request, Handler

\* The requests of a browser that was signed out, and its cookie.
OutOf(b) == cookie[b] \notin stored /\ \A q \in Task : b \in Of(q) => Failing(q)

LEMMA OutsideKept ==
  ASSUME NEW p \in Task, NEW b \in Browser, OutOf(b), Still(p),
         cookie'[b] \notin stored',
         \A k \in stored' : k \in stored \/ \A q \in Task : run[q].old # k,
         b \in Of(p)' => Failing(p)'
  PROVE  OutOf(b)'
<1> SUFFICES ASSUME NEW q \in Task, b \in Of(q)'
             PROVE  Failing(q)'
  BY DEF OutOf
<1>1. CASE q = p
  BY <1>1
<1>2. CASE q # p
  <2>1. Alike(q)
    BY <1>2 DEF Still
  <2>2. Failing(q)
    BY <2>1 DEF OutOf, Alike, Of
  <2> QED BY <2>1, <2>2 DEF Failing, Alike
<1> QED BY <1>1, <1>2

\* Who was signed out.
LEMMA OutsideStep ==
  ASSUME TypeOK, Shape, Due, Outside, [Next]_vars
  PROVE  Outside'
<1>1. ASSUME NEW p \in Task, NEW t \in Page,
             Login(p, t)
      PROVE  Outside'
  <2>1. Fits(p) /\ run[p] \in Requests
    BY RunTyped DEF Shape
  <2>2. run' \in [Task -> Requests] /\ LoginDoes(p, t)
    BY <1>1, LoginWrites
  <2>3. Still(p)
    BY <2>2, StillAside DEF LoginDoes, Ops
  <2>4. out' \subseteq out /\ cookie' = cookie /\ stored' \subseteq stored
    BY <2>2 DEF LoginDoes
  <2>5. ASSUME NEW b \in out'
        PROVE  OutOf(b)'
    <3>1. b \in Browser /\ OutOf(b)
      BY <2>4, <2>5 DEF TypeOK, Outside, OutOf
    <3>2. b \in Of(p)' => Failing(p)'
      BY <2>2, <2>5 DEF LoginDoes, StartsAt, Of
    <3> QED BY <2>3, <2>4, <3>1, <3>2, OutsideKept DEF OutOf
  <2> QED BY <2>5 DEF Outside, OutOf
<1>2. ASSUME NEW p \in Task, NEW t \in Page,
             Refresh(p, t)
      PROVE  Outside'
  <2>1. Fits(p) /\ run[p] \in Requests
    BY RunTyped DEF Shape
  <2>2. run' \in [Task -> Requests] /\ RefreshDoes(p, t)
    BY <1>2, RefreshWrites
  <2>3. Still(p)
    BY <2>2, StillAside DEF RefreshDoes, Ops
  <2>4. out' \subseteq out /\ cookie' = cookie /\ stored' \subseteq stored
    BY <2>2 DEF RefreshDoes
  <2>5. ASSUME NEW b \in out'
        PROVE  OutOf(b)'
    <3>1. b \in Browser /\ OutOf(b)
      BY <2>4, <2>5 DEF TypeOK, Outside, OutOf
    <3>2. b \in Of(p)' => Failing(p)'
      <4>1. /\ run'[p].op = "refresh" /\ run'[p].pc = "valid" /\ run'[p].old = cookie[Home[t]]
            /\ Of(p)' = {Home[t]} /\ stored' = stored
        <5>1. StartsAt(p, t, "refresh", "valid", cookie[Home[t]]) /\ stored' = stored
          BY <2>2 DEF RefreshDoes
        <5> QED BY <5>1 DEF StartsAt, Of
      <4> QED BY <3>1, <4>1 DEF OutOf, Failing
    <3> QED BY <2>3, <2>4, <3>1, <3>2, OutsideKept DEF OutOf
  <2> QED BY <2>5 DEF Outside, OutOf
<1>3. ASSUME NEW p \in Task, NEW t \in Page,
             Logout(p, t)
      PROVE  Outside'
  <2>1. Fits(p) /\ run[p] \in Requests
    BY RunTyped DEF Shape
  <2>2. run' \in [Task -> Requests] /\ LogoutDoes(p, t)
    BY <1>3, LogoutWrites
  <2>3. Still(p)
    BY <2>2, StillAside DEF LogoutDoes, Ops
  <2>4. out' \subseteq out /\ cookie' = cookie /\ stored' \subseteq stored
    BY <2>2 DEF LogoutDoes
  <2>5. ASSUME NEW b \in out'
        PROVE  OutOf(b)'
    <3>1. b \in Browser /\ OutOf(b)
      BY <2>4, <2>5 DEF TypeOK, Outside, OutOf
    <3>2. b \in Of(p)' => Failing(p)'
      BY <2>2 DEF LogoutDoes, StartsAt, Failing
    <3> QED BY <2>3, <2>4, <3>1, <3>2, OutsideKept DEF OutOf
  <2> QED BY <2>5 DEF Outside, OutOf
<1>4. ASSUME NEW p \in Task, NEW t \in Page,
             ListSessions(p, t)
      PROVE  Outside'
  <2>1. Fits(p) /\ run[p] \in Requests
    BY RunTyped DEF Shape
  <2>2. run' \in [Task -> Requests] /\ ListSessionsDoes(p, t)
    BY <1>4, ListSessionsWrites
  <2>3. Still(p)
    BY <2>2, StillAside DEF ListSessionsDoes, Ops
  <2>4. out' \subseteq out /\ cookie' = cookie /\ stored' \subseteq stored
    BY <2>2 DEF ListSessionsDoes
  <2>5. ASSUME NEW b \in out'
        PROVE  OutOf(b)'
    <3>1. b \in Browser /\ OutOf(b)
      BY <2>4, <2>5 DEF TypeOK, Outside, OutOf
    <3>2. b \in Of(p)' => Failing(p)'
      BY <2>2 DEF ListSessionsDoes, StartsAt, Failing
    <3> QED BY <2>3, <2>4, <3>1, <3>2, OutsideKept DEF OutOf
  <2> QED BY <2>5 DEF Outside, OutOf
<1>5. ASSUME NEW p \in Task, NEW t \in Page, NEW k \in Token,
             RevokeSession(p, t, k)
      PROVE  Outside'
  <2>1. Fits(p) /\ run[p] \in Requests
    BY RunTyped DEF Shape
  <2>2. run' \in [Task -> Requests] /\ RevokeSessionDoes(p, t, k)
    BY <1>5, RevokeSessionWrites
  <2>3. Still(p)
    BY <2>2, StillAside DEF RevokeSessionDoes, Ops
  <2>4. out' \subseteq out /\ cookie' = cookie /\ stored' \subseteq stored
    BY <2>2 DEF RevokeSessionDoes
  <2>5. ASSUME NEW b \in out'
        PROVE  OutOf(b)'
    <3>1. b \in Browser /\ OutOf(b)
      BY <2>4, <2>5 DEF TypeOK, Outside, OutOf
    <3>2. b \in Of(p)' => Failing(p)'
      BY <2>2 DEF RevokeSessionDoes, StartsAt, Failing
    <3> QED BY <2>3, <2>4, <3>1, <3>2, OutsideKept DEF OutOf
  <2> QED BY <2>5 DEF Outside, OutOf
<1>6. ASSUME NEW p \in Task, NEW t \in Page, NEW k \in Token \union {None},
             RevokeOthers(p, t, k)
      PROVE  Outside'
  <2>1. Fits(p) /\ run[p] \in Requests
    BY RunTyped DEF Shape
  <2>2. run' \in [Task -> Requests] /\ RevokeOthersDoes(p, t, k)
    BY <1>6, RevokeOthersWrites
  <2>3. Still(p)
    BY <2>2, StillAside DEF RevokeOthersDoes, Ops
  <2>4. out' \subseteq out /\ cookie' = cookie /\ stored' \subseteq stored
    BY <2>2 DEF RevokeOthersDoes
  <2>5. ASSUME NEW b \in out'
        PROVE  OutOf(b)'
    <3>1. b \in Browser /\ OutOf(b)
      BY <2>4, <2>5 DEF TypeOK, Outside, OutOf
    <3>2. b \in Of(p)' => Failing(p)'
      BY <2>2 DEF RevokeOthersDoes, StartsAt, Failing
    <3> QED BY <2>3, <2>4, <3>1, <3>2, OutsideKept DEF OutOf
  <2> QED BY <2>5 DEF Outside, OutOf
<1>7. ASSUME NEW p \in Task,
             Validates(p)
      PROVE  Outside'
  <2>1. Fits(p) /\ run[p] \in Requests
    BY RunTyped DEF Shape
  <2>2. run' \in [Task -> Requests] /\ ValidatesDoes(p)
    BY <1>7, ValidatesWrites
  <2>3. Still(p)
    BY <2>2, StillOthers DEF ValidatesDoes
  <2>4. out' \subseteq out /\ cookie' = cookie /\ stored' \subseteq stored
    BY <2>2 DEF ValidatesDoes
  <2>5. ASSUME NEW b \in out'
        PROVE  OutOf(b)'
    <3>1. b \in Browser /\ OutOf(b)
      BY <2>4, <2>5 DEF TypeOK, Outside, OutOf
    <3>2. b \in Of(p)' => Failing(p)'
      <4>1. b \in Of(p) => Failing(p)
        BY <3>1 DEF OutOf
      <4>2. b \in Of(p)' => b \in Of(p)
        BY <2>2 DEF ValidatesDoes, GoesTo, IdleAt, Of
      <4> QED BY <2>1, <2>2, <4>1, <4>2 DEF ValidatesDoes, GoesTo, IdleAt, Failing, Fits
    <3> QED BY <2>3, <2>4, <3>1, <3>2, OutsideKept DEF OutOf
  <2> QED BY <2>5 DEF Outside, OutOf
<1>8. ASSUME NEW p \in Task,
             Deletes(p)
      PROVE  Outside'
  <2>1. Fits(p) /\ run[p] \in Requests
    BY RunTyped DEF Shape
  <2>2. run' \in [Task -> Requests] /\ DeletesDoes(p)
    BY <1>8, DeletesWrites
  <2>3. Still(p)
    BY <2>2, StillOthers DEF DeletesDoes
  <2>4. out' \subseteq out /\ cookie' = cookie /\ stored' \subseteq stored
    BY <2>2 DEF DeletesDoes
  <2>5. ASSUME NEW b \in out'
        PROVE  OutOf(b)'
    <3>1. b \in Browser /\ OutOf(b)
      BY <2>4, <2>5 DEF TypeOK, Outside, OutOf
    <3>2. b \in Of(p)' => Failing(p)'
      <4>1. b \in Of(p) => Failing(p)
        BY <3>1 DEF OutOf
      <4>2. b \in Of(p)' => b \in Of(p)
        BY <2>2 DEF DeletesDoes, GoesTo, Of
      <4> QED BY <2>1, <2>2, <4>1, <4>2 DEF DeletesDoes, GoesTo, Failing, Fits
    <3> QED BY <2>3, <2>4, <3>1, <3>2, OutsideKept DEF OutOf
  <2> QED BY <2>5 DEF Outside, OutOf
<1>9. ASSUME NEW p \in Task,
             Removes(p)
      PROVE  Outside'
  <2>1. Fits(p) /\ run[p] \in Requests
    BY RunTyped DEF Shape
  <2>2. run' \in [Task -> Requests] /\ RemovesDoes(p)
    BY <1>9, RemovesWrites
  <2>3. Still(p)
    BY <2>2, StillOthers DEF RemovesDoes
  <2>4. out' \subseteq out /\ cookie' = cookie /\ stored' \subseteq stored
    BY <2>2 DEF RemovesDoes
  <2>5. ASSUME NEW b \in out'
        PROVE  OutOf(b)'
    <3>1. b \in Browser /\ OutOf(b)
      BY <2>4, <2>5 DEF TypeOK, Outside, OutOf
    <3>2. b \in Of(p)' => Failing(p)'
      <4>1. b \in Of(p) => Failing(p)
        BY <3>1 DEF OutOf
      <4>2. b \in Of(p)' => b \in Of(p)
        BY <2>2 DEF RemovesDoes, GoesTo, IdleAt, BackAt, Of
      <4> QED BY <2>1, <2>2, <4>1, <4>2 DEF RemovesDoes, GoesTo, IdleAt, BackAt, Failing, Fits
    <3> QED BY <2>3, <2>4, <3>1, <3>2, OutsideKept DEF OutOf
  <2> QED BY <2>5 DEF Outside, OutOf
<1>10. ASSUME NEW p \in Task,
             Registers(p), UNCHANGED <<cookie, page, out>>
      PROVE  Outside'
  <2>1. Fits(p) /\ run[p] \in Requests
    BY RunTyped DEF Shape
  <2>2. run' \in [Task -> Requests] /\ RegistersDoes(p)
    BY <1>10, RegistersWrites
  <2>3. Still(p)
    BY <2>2, StillOthers DEF RegistersDoes
  <2>4. out' = out /\ cookie' = cookie /\ stored' \subseteq stored \union Fresh
    BY <2>2 DEF RegistersDoes
  <2>5. ASSUME NEW b \in out'
        PROVE  OutOf(b)'
    <3>1. b \in Browser /\ OutOf(b)
      BY <2>4, <2>5 DEF TypeOK, Outside, OutOf
    <3>2. b \notin Of(p)
      <4>1. run[p].pc \in {"set", "add"}
        BY <2>2 DEF RegistersDoes
      <4> QED BY <2>1, <3>1, <4>1 DEF OutOf, Failing, Fits
    <3>3. Of(p)' = Of(p)
      BY <2>2 DEF RegistersDoes, GoesTo, MakesAt, Of
    <3>4. cookie'[b] \notin stored'
      BY <2>4, <3>1, FreshIsNew DEF OutOf
    <3> QED BY <2>3, <2>4, <3>1, <3>2, <3>3, <3>4, FreshIsNew, OutsideKept
  <2> QED BY <2>5 DEF Outside, OutOf
<1>11. ASSUME NEW p \in Task,
             Answers(p)
      PROVE  Outside'
  <2>1. Fits(p) /\ run[p] \in Requests
    BY RunTyped DEF Shape
  <2>2. run' \in [Task -> Requests] /\ AnswersDoes(p)
    BY <1>11, <2>1, AnswersWrites
  <2>3. Still(p)
    BY <2>2, StillOthers DEF AnswersDoes
  <2>4. PICK t \in Page : run[p].page = {t}
    BY <2>1, <2>2 DEF Fits, AnswersDoes
  <2> DEFINE k == IF run[p].op = "logout" THEN None ELSE run[p].new
  <2>5. /\ cookie' = [cookie EXCEPT ![Home[t]] = k] /\ stored' = stored /\ out' = out
        /\ run[p].op \in {"login", "refresh", "logout"} /\ run[p].pc = "answer"
    BY <2>1, <2>2, <2>4 DEF AnswersDoes, Fits
  <2>8. Of(p)' = {} /\ stored' = stored
    BY <2>2 DEF AnswersDoes, IdleAt, Of
  <2> HIDE DEF k
  <2>6. \A b \in Browser : cookie'[b] = IF b = Home[t] THEN k ELSE cookie[b]
    BY <2>5 DEF TypeOK
  <2>7. ASSUME NEW b \in out'
        PROVE  OutOf(b)'
    <3>1. b \in Browser /\ OutOf(b)
      BY <2>5, <2>7 DEF TypeOK, Outside, OutOf
    <3>2. cookie'[b] \notin stored'
      <4>1. CASE b = Home[t]
        <5>1. Failing(p)
          BY <2>4, <3>1, <4>1 DEF OutOf, Of
        <5>2. run[p].op = "logout"
          BY <2>5, <5>1 DEF Failing
        <5>3. cookie'[b] = None
          BY <2>6, <3>1, <4>1, <5>2 DEF k
        <5> QED BY <2>5, <5>3 DEF TypeOK
      <4>2. CASE b # Home[t]
        <5>1. cookie'[b] = cookie[b]
          BY <2>6, <3>1, <4>2
        <5> QED BY <2>8, <3>1, <5>1 DEF OutOf
      <4> QED BY <4>1, <4>2
    <3> QED BY <2>3, <2>8, <3>1, <3>2, OutsideKept
  <2> QED BY <2>7 DEF Outside, OutOf
<1>12. ASSUME NEW p \in Task,
             ReadsSet(p)
      PROVE  Outside'
  <2>1. Fits(p) /\ run[p] \in Requests
    BY RunTyped DEF Shape
  <2>2. run' \in [Task -> Requests] /\ ReadsSetDoes(p)
    BY <1>12, ReadsSetWrites
  <2>3. Still(p)
    BY <2>2, StillOthers DEF ReadsSetDoes
  <2>4. out' \subseteq out /\ cookie' = cookie /\ stored' \subseteq stored
    BY <2>2 DEF ReadsSetDoes
  <2>5. ASSUME NEW b \in out'
        PROVE  OutOf(b)'
    <3>1. b \in Browser /\ OutOf(b)
      BY <2>4, <2>5 DEF TypeOK, Outside, OutOf
    <3>2. b \in Of(p)' => Failing(p)'
      <4>1. b \in Of(p) => Failing(p)
        BY <3>1 DEF OutOf
      <4>2. b \in Of(p)' => b \in Of(p)
        BY <2>2 DEF ReadsSetDoes, ReadsAt, Of
      <4> QED BY <2>1, <2>2, <4>1, <4>2 DEF ReadsSetDoes, ReadsAt, Failing, Fits
    <3> QED BY <2>3, <2>4, <3>1, <3>2, OutsideKept DEF OutOf
  <2> QED BY <2>5 DEF Outside, OutOf
<1>13. ASSUME NEW p \in Task,
             RevokesNext(p)
      PROVE  Outside'
  <2>1. Fits(p) /\ run[p] \in Requests
    BY RunTyped DEF Shape
  <2>2. run' \in [Task -> Requests] /\ RevokesNextDoes(p)
    BY <1>13, RevokesNextWrites
  <2>3. Still(p)
    BY <2>2, StillOthers DEF RevokesNextDoes
  <2>4. out' \subseteq out \union run[p].due /\ cookie' = cookie /\ stored' = stored
    BY <2>2 DEF RevokesNextDoes
  <2>5. ASSUME NEW b \in out'
        PROVE  OutOf(b)'
    <3>1. b \in Browser
      BY <2>1, <2>4, <2>5 DEF TypeOK, Requests
    <3>2. run[p].op = "others" /\ run'[p].op \in {"others", "idle"}
      BY <2>2 DEF RevokesNextDoes, IdleAt, TakesAt
    <3>3. Failing(p)'
      BY <3>2 DEF Failing
    <3>4. CASE b \in out
      <4>1. OutOf(b)
        BY <3>4 DEF Outside, OutOf
      <4> QED BY <2>3, <2>4, <3>1, <3>3, <4>1, OutsideKept DEF OutOf
    <3>5. CASE b \notin out
      <4>1. b \in run[p].due /\ run[p].todo = {} /\ run[p].pc = "next"
        BY <2>2, <2>5, <3>5 DEF RevokesNextDoes
      <4>2. DueOf(p)
        BY DEF Due
      <4>3. OutOf(b)
        BY <4>1, <4>2 DEF DueOf, OutOf, Failing
      <4> QED BY <2>3, <2>4, <3>1, <3>3, <4>3, OutsideKept DEF OutOf
    <3> QED BY <3>4, <3>5
  <2> QED BY <2>5 DEF Outside, OutOf
<1>14. ASSUME NEW p \in Task,
             ListsNext(p)
      PROVE  Outside'
  <2>1. Fits(p) /\ run[p] \in Requests
    BY RunTyped DEF Shape
  <2>2. run' \in [Task -> Requests] /\ ListsNextDoes(p)
    BY <1>14, ListsNextWrites
  <2>3. Still(p)
    BY <2>2, StillOthers DEF ListsNextDoes
  <2>4. out' \subseteq out /\ cookie' = cookie /\ stored' \subseteq stored
    BY <2>2 DEF ListsNextDoes
  <2>5. ASSUME NEW b \in out'
        PROVE  OutOf(b)'
    <3>1. b \in Browser /\ OutOf(b)
      BY <2>4, <2>5 DEF TypeOK, Outside, OutOf
    <3>2. b \in Of(p)' => Failing(p)'
      <4>1. b \in Of(p) => Failing(p)
        BY <3>1 DEF OutOf
      <4>2. b \in Of(p)' => b \in Of(p)
        BY <2>2 DEF ListsNextDoes, IdleAt, TakesAt, LooksAt, Of
      <4> QED BY <2>1, <2>2, <4>1, <4>2 DEF ListsNextDoes, IdleAt, TakesAt, LooksAt, Failing, Fits
    <3> QED BY <2>3, <2>4, <3>1, <3>2, OutsideKept DEF OutOf
  <2> QED BY <2>5 DEF Outside, OutOf
<1>15. ASSUME NEW p \in Task,
             Drops(p)
      PROVE  Outside'
  <2>1. Fits(p) /\ run[p] \in Requests
    BY RunTyped DEF Shape
  <2>2. run' \in [Task -> Requests] /\ DropsDoes(p)
    BY <1>15, DropsWrites
  <2>3. Still(p)
    BY <2>2, StillOthers DEF DropsDoes
  <2>4. out' \subseteq out /\ cookie' = cookie /\ stored' \subseteq stored
    BY <2>2 DEF DropsDoes
  <2>5. ASSUME NEW b \in out'
        PROVE  OutOf(b)'
    <3>1. b \in Browser /\ OutOf(b)
      BY <2>4, <2>5 DEF TypeOK, Outside, OutOf
    <3>2. b \in Of(p)' => Failing(p)'
      <4>1. b \in Of(p) => Failing(p)
        BY <3>1 DEF OutOf
      <4>2. b \in Of(p)' => b \in Of(p)
        BY <2>2 DEF DropsDoes, IdleAt, Of
      <4> QED BY <2>1, <2>2, <4>1, <4>2 DEF DropsDoes, IdleAt, Failing, Fits
    <3> QED BY <2>3, <2>4, <3>1, <3>2, OutsideKept DEF OutOf
  <2> QED BY <2>5 DEF Outside, OutOf
<1>16. ASSUME NEW t \in Page, RefreshNothing(t)
      PROVE  Outside'
  BY <1>16 DEF RefreshNothing, Outside, Failing, Of
<1>17. ASSUME NEW k \in Token, Expires(k)
      PROVE  Outside'
  BY <1>17 DEF Expires, Outside, Failing, Of
<1>18. CASE UNCHANGED vars
  BY <1>18 DEF vars, Outside, Failing, Of
<1>19. ASSUME NEW b \in Browser, Forgets(b)
      PROVE  Outside'
  BY <1>19 DEF Forgets, Outside, Failing, Of, TypeOK
<1> QED
  BY <1>1, <1>2, <1>3, <1>4, <1>5, <1>6, <1>7, <1>8, <1>9, <1>10, <1>11, <1>12, <1>13, <1>14, <1>15, <1>16, <1>17, <1>18, <1>19
  DEF Next, Request, Handler

\* Seen from a request q: no token it holds stops being accounted for.
LEMMA ExcusedKept ==
  ASSUME NEW p \in Task, NEW q \in Task \ {p}, Excused(q), Still(p),
         run[q].old \in ended => run[q].old \in ended',
         run[q].new \in ended => run[q].new \in ended',
         \A k \in run[q].todo : k \in ended => k \in ended',
         run[q].new \in Token /\ run[q].new \in stored => run[q].new \in stored' \union ended',
         run[q].op = "refresh" /\ run[q].pc = "valid" /\ run[q].old \in stored =>
            run[q].old \in stored' \union ended',
         run'[p].op = "refresh" /\ run[q].op = "refresh" /\ run'[p].old = run[q].old =>
            run[q].old \in ended'
  PROVE  Excused(q)'
<1>1. Alike(q)
  BY DEF Still
<1>2. ASSUME run[q].op = "refresh", NEW r \in Task \ {q}, run'[r].op = "refresh",
             run'[r].old = run[q].old
      PROVE  run[q].old \in ended'
  <2>1. CASE r = p
    BY <1>2, <2>1
  <2>2. CASE r # p
    <3>1. Alike(r)
      BY <2>2 DEF Still
    <3> QED BY <1>2, <3>1 DEF Excused, Alike
  <2> QED BY <2>1, <2>2
<1>3. /\ run'[q].new \in Token => run'[q].new \in stored' \union ended'
      /\ run'[q].op = "refresh" /\ run'[q].pc = "valid" => run'[q].old \in stored' \union ended'
  BY <1>1 DEF Excused, Alike
<1>4. /\ run'[q].op \in {"revoke", "others"} /\ run'[q].pc = "del" => run'[q].old \in ended'
      /\ run'[q].op = "logout" => run'[q].old \in ended'
      /\ run'[q].op = "others" => run'[q].todo \subseteq ended'
  BY <1>1 DEF Excused, Alike
<1> QED BY <1>1, <1>2, <1>3, <1>4 DEF Excused, Alike

\* A step after which no cookie is left unaccounted for.
LEMMA AccountedKept ==
  ASSUME Accounted, NEW p \in Task, Still(p), cookie' = cookie,
         \A b \in Browser : cookie[b] \in Token /\ cookie[b] \in stored \union ended =>
            cookie[b] \in stored' \union ended' \/ Exchanged(cookie[b])',
         run[p].op = "refresh" =>
            \/ run'[p].op = "refresh" /\ run'[p].old = run[p].old
            \/ run[p].old \in stored' \union ended'
  PROVE  Accounted'
<1> SUFFICES ASSUME NEW b \in Browser, cookie[b] \in Token, cookie[b] \notin stored' \union ended'
             PROVE  Exchanged(cookie[b])'
  BY DEF Accounted
<1>1. CASE cookie[b] \in stored \union ended
  BY <1>1
<1>2. CASE cookie[b] \notin stored \union ended
  <2>1. PICK q \in Task : run[q].op = "refresh" /\ run[q].old = cookie[b]
    BY <1>2 DEF Accounted, Exchanged
  <2>2. CASE q = p
    BY <2>1, <2>2 DEF Exchanged
  <2>3. CASE q # p
    <3>1. Alike(q)
      BY <2>3 DEF Still
    <3> QED BY <2>1, <3>1 DEF Alike, Exchanged
  <2> QED BY <2>2, <2>3
<1> QED BY <1>1, <1>2

\* An exchange that is cut short is an excuse; one that is tried twice need not be, if
\* no two pages share a browser.
Excuses ==
    /\ "cut" \in Excuse
    /\ "twice" \in Excuse \/ \A t, u \in Page : Home[t] = Home[u] => t = u

\* What became of the tokens.
LEMMA FairStep ==
  ASSUME Excuses, TypeOK, Shape, Owners, Fair, [Next]_vars
  PROVE  Fair'
<1>1. ASSUME NEW p \in Task, NEW t \in Page,
             Login(p, t)
      PROVE  Fair'
  <2>1. Fits(p) /\ run[p] \in Requests
    BY RunTyped DEF Shape
  <2>2. run' \in [Task -> Requests] /\ LoginDoes(p, t)
    BY <1>1, LoginWrites
  <2>3. Still(p)
    BY <2>2, StillAside DEF LoginDoes, Ops
  <2>4. cookie' = cookie /\ stored' = stored /\ ended \subseteq ended'
    BY <2>2 DEF LoginDoes
  <2>5. Excused(p)
    BY DEF Fair
  <2>6. run'[p].op = "refresh" => run[p].op = "refresh" /\ run'[p].old = run[p].old
    BY <2>1, <2>2 DEF LoginDoes, StartsAt, Fits
  <2>7. run[p].op = "refresh" =>
           \/ run'[p].op = "refresh" /\ run'[p].old = run[p].old
           \/ run[p].old \in stored' \union ended'
    BY <2>1, <2>2, <2>5 DEF LoginDoes, StartsAt, Fits, Excused
  <2>8. Excused(p)'
    <3>1. \A q \in Task \ {p} : run'[q].op = run[q].op /\ run'[q].old = run[q].old
      BY <2>3 DEF Still, Alike
    <3>2. run'[p].op = "refresh" =>
             \A q \in Task \ {p} : run'[q].op = "refresh" /\ run'[q].old = run'[p].old => run'[p].old \in ended'
      BY <2>4, <2>5, <2>6, <3>1 DEF Excused
    <3>3. /\ run'[p].new \in Token => run'[p].new \in stored' \union ended'
          /\ run'[p].op = "refresh" /\ run'[p].pc = "valid" => run'[p].old \in stored' \union ended'
      BY <2>1, <2>2, <2>4, <2>5 DEF LoginDoes, StartsAt, Fits, Excused
    <3>4. /\ run'[p].op \in {"revoke", "others"} /\ run'[p].pc = "del" => run'[p].old \in ended'
          /\ run'[p].op = "logout" => run'[p].old \in ended'
          /\ run'[p].op = "others" => run'[p].todo \subseteq ended'
      BY <2>1, <2>2, <2>4, <2>5 DEF LoginDoes, StartsAt, Fits, Excused
    <3> QED BY <3>2, <3>3, <3>4 DEF Excused
  <2>9. ASSUME NEW q \in Task \ {p}
        PROVE  Excused(q)'
    <3>1. Excused(q)
      BY DEF Fair
    <3>2. run'[p].op = "refresh" /\ run[q].op = "refresh" /\ run'[p].old = run[q].old => run[q].old \in ended'
      BY <2>4, <2>6, <3>1 DEF Excused
    <3> QED BY <2>3, <2>4, <3>1, <3>2, ExcusedKept
  <2>10. Accounted'
    BY <2>3, <2>4, <2>7, AccountedKept DEF Fair
  <2> QED BY <2>8, <2>9, <2>10 DEF Fair
<1>2. ASSUME NEW p \in Task, NEW t \in Page,
             Refresh(p, t)
      PROVE  Fair'
  <2>1. Fits(p) /\ run[p] \in Requests
    BY RunTyped DEF Shape
  <2>2. run' \in [Task -> Requests] /\ RefreshDoes(p, t)
    BY <1>2, RefreshWrites
  <2>3. Still(p)
    BY <2>2, StillAside DEF RefreshDoes, Ops
  <2>4. cookie' = cookie /\ stored' = stored /\ ended \subseteq ended'
    BY <2>2 DEF RefreshDoes
  <2>5. Excused(p)
    BY DEF Fair
  <2>6. run[p].op = "idle" /\ run'[p].op = "refresh" /\ run'[p].old = cookie[Home[t]]
        /\ run'[p].new = None /\ cookie[Home[t]] \in Token /\ Home[t] \in Browser
    BY <2>2 DEF RefreshDoes, StartsAt, TypeOK
  <2>7. \A q \in Task \ {p} : run[q].op = "refresh" /\ run[q].old = cookie[Home[t]] => run[q].old \in ended'
    <3>1. CASE "twice" \in Excuse
      BY <2>2, <3>1 DEF RefreshDoes
    <3>2. ASSUME \A u \in Page : Home[t] = Home[u] => t = u,
                 NEW q \in Task, run[q].op = "refresh", run[q].old = cookie[Home[t]]
          PROVE  FALSE
      <4>1. PICK u \in Page : run[q].page = {u}
        BY <3>2 DEF Shape, Fits
      <4>2. Home[t] \in Of(q)
        BY <2>6, <3>2 DEF Owners, ItsOwn
      <4>3. run[q].page = {t}
        BY <3>2, <4>1, <4>2 DEF Of
      <4> QED BY <1>2, <3>2, <4>3 DEF Refresh, Starts
    <3> QED BY <3>1, <3>2 DEF Excuses
  <2>8. Excused(p)'
    <3>1. cookie[Home[t]] \in stored \union ended'
      <4>1. CASE cookie[Home[t]] \in stored \union ended
        BY <2>4, <4>1
      <4>2. CASE cookie[Home[t]] \notin stored \union ended
        <5>1. PICK q \in Task : run[q].op = "refresh" /\ run[q].old = cookie[Home[t]]
          BY <2>6, <4>2 DEF Fair, Accounted, Exchanged
        <5> QED BY <2>6, <2>7, <5>1
      <4> QED BY <4>1, <4>2
    <3>2. \A q \in Task \ {p} : run'[q].op = "refresh" /\ run'[q].old = cookie[Home[t]] => cookie[Home[t]] \in ended'
      BY <2>3, <2>7 DEF Still, Alike
    <3> QED BY <2>4, <2>6, <3>1, <3>2 DEF Excused
  <2>9. ASSUME NEW q \in Task \ {p}
        PROVE  Excused(q)'
    BY <2>3, <2>4, <2>6, <2>7, ExcusedKept DEF Fair
  <2>10. Accounted'
    BY <2>3, <2>4, <2>6, AccountedKept DEF Fair
  <2> QED BY <2>8, <2>9, <2>10 DEF Fair
<1>3. ASSUME NEW p \in Task, NEW t \in Page,
             Logout(p, t)
      PROVE  Fair'
  <2>1. Fits(p) /\ run[p] \in Requests
    BY RunTyped DEF Shape
  <2>2. run' \in [Task -> Requests] /\ LogoutDoes(p, t)
    BY <1>3, LogoutWrites
  <2>3. Still(p)
    BY <2>2, StillAside DEF LogoutDoes, Ops
  <2>4. cookie' = cookie /\ stored' = stored /\ ended \subseteq ended'
    BY <2>2 DEF LogoutDoes
  <2>5. Excused(p)
    BY DEF Fair
  <2>6. run'[p].op = "refresh" => run[p].op = "refresh" /\ run'[p].old = run[p].old
    BY <2>1, <2>2 DEF LogoutDoes, StartsAt, Fits
  <2>7. run[p].op = "refresh" =>
           \/ run'[p].op = "refresh" /\ run'[p].old = run[p].old
           \/ run[p].old \in stored' \union ended'
    BY <2>1, <2>2, <2>5 DEF LogoutDoes, StartsAt, Fits, Excused
  <2>8. Excused(p)'
    <3>1. \A q \in Task \ {p} : run'[q].op = run[q].op /\ run'[q].old = run[q].old
      BY <2>3 DEF Still, Alike
    <3>2. run'[p].op = "refresh" =>
             \A q \in Task \ {p} : run'[q].op = "refresh" /\ run'[q].old = run'[p].old => run'[p].old \in ended'
      BY <2>4, <2>5, <2>6, <3>1 DEF Excused
    <3>3. /\ run'[p].new \in Token => run'[p].new \in stored' \union ended'
          /\ run'[p].op = "refresh" /\ run'[p].pc = "valid" => run'[p].old \in stored' \union ended'
      BY <2>1, <2>2, <2>4, <2>5 DEF LogoutDoes, StartsAt, Fits, Excused
    <3>4. /\ run'[p].op \in {"revoke", "others"} /\ run'[p].pc = "del" => run'[p].old \in ended'
          /\ run'[p].op = "logout" => run'[p].old \in ended'
          /\ run'[p].op = "others" => run'[p].todo \subseteq ended'
      BY <2>1, <2>2, <2>4, <2>5 DEF LogoutDoes, StartsAt, Fits, Excused
    <3> QED BY <3>2, <3>3, <3>4 DEF Excused
  <2>9. ASSUME NEW q \in Task \ {p}
        PROVE  Excused(q)'
    <3>1. Excused(q)
      BY DEF Fair
    <3>2. run'[p].op = "refresh" /\ run[q].op = "refresh" /\ run'[p].old = run[q].old => run[q].old \in ended'
      BY <2>4, <2>6, <3>1 DEF Excused
    <3> QED BY <2>3, <2>4, <3>1, <3>2, ExcusedKept
  <2>10. Accounted'
    BY <2>3, <2>4, <2>7, AccountedKept DEF Fair
  <2> QED BY <2>8, <2>9, <2>10 DEF Fair
<1>4. ASSUME NEW p \in Task, NEW t \in Page,
             ListSessions(p, t)
      PROVE  Fair'
  <2>1. Fits(p) /\ run[p] \in Requests
    BY RunTyped DEF Shape
  <2>2. run' \in [Task -> Requests] /\ ListSessionsDoes(p, t)
    BY <1>4, ListSessionsWrites
  <2>3. Still(p)
    BY <2>2, StillAside DEF ListSessionsDoes, Ops
  <2>4. cookie' = cookie /\ stored' = stored /\ ended \subseteq ended'
    BY <2>2 DEF ListSessionsDoes
  <2>5. Excused(p)
    BY DEF Fair
  <2>6. run'[p].op = "refresh" => run[p].op = "refresh" /\ run'[p].old = run[p].old
    BY <2>1, <2>2 DEF ListSessionsDoes, StartsAt, Fits
  <2>7. run[p].op = "refresh" =>
           \/ run'[p].op = "refresh" /\ run'[p].old = run[p].old
           \/ run[p].old \in stored' \union ended'
    BY <2>1, <2>2, <2>5 DEF ListSessionsDoes, StartsAt, Fits, Excused
  <2>8. Excused(p)'
    <3>1. \A q \in Task \ {p} : run'[q].op = run[q].op /\ run'[q].old = run[q].old
      BY <2>3 DEF Still, Alike
    <3>2. run'[p].op = "refresh" =>
             \A q \in Task \ {p} : run'[q].op = "refresh" /\ run'[q].old = run'[p].old => run'[p].old \in ended'
      BY <2>4, <2>5, <2>6, <3>1 DEF Excused
    <3>3. /\ run'[p].new \in Token => run'[p].new \in stored' \union ended'
          /\ run'[p].op = "refresh" /\ run'[p].pc = "valid" => run'[p].old \in stored' \union ended'
      BY <2>1, <2>2, <2>4, <2>5 DEF ListSessionsDoes, StartsAt, Fits, Excused
    <3>4. /\ run'[p].op \in {"revoke", "others"} /\ run'[p].pc = "del" => run'[p].old \in ended'
          /\ run'[p].op = "logout" => run'[p].old \in ended'
          /\ run'[p].op = "others" => run'[p].todo \subseteq ended'
      BY <2>1, <2>2, <2>4, <2>5 DEF ListSessionsDoes, StartsAt, Fits, Excused
    <3> QED BY <3>2, <3>3, <3>4 DEF Excused
  <2>9. ASSUME NEW q \in Task \ {p}
        PROVE  Excused(q)'
    <3>1. Excused(q)
      BY DEF Fair
    <3>2. run'[p].op = "refresh" /\ run[q].op = "refresh" /\ run'[p].old = run[q].old => run[q].old \in ended'
      BY <2>4, <2>6, <3>1 DEF Excused
    <3> QED BY <2>3, <2>4, <3>1, <3>2, ExcusedKept
  <2>10. Accounted'
    BY <2>3, <2>4, <2>7, AccountedKept DEF Fair
  <2> QED BY <2>8, <2>9, <2>10 DEF Fair
<1>5. ASSUME NEW p \in Task, NEW t \in Page, NEW k \in Token,
             RevokeSession(p, t, k)
      PROVE  Fair'
  <2>1. Fits(p) /\ run[p] \in Requests
    BY RunTyped DEF Shape
  <2>2. run' \in [Task -> Requests] /\ RevokeSessionDoes(p, t, k)
    BY <1>5, RevokeSessionWrites
  <2>3. Still(p)
    BY <2>2, StillAside DEF RevokeSessionDoes, Ops
  <2>4. cookie' = cookie /\ stored' = stored /\ ended \subseteq ended'
    BY <2>2 DEF RevokeSessionDoes
  <2>5. Excused(p)
    BY DEF Fair
  <2>6. run'[p].op = "refresh" => run[p].op = "refresh" /\ run'[p].old = run[p].old
    BY <2>1, <2>2 DEF RevokeSessionDoes, StartsAt, Fits
  <2>7. run[p].op = "refresh" =>
           \/ run'[p].op = "refresh" /\ run'[p].old = run[p].old
           \/ run[p].old \in stored' \union ended'
    BY <2>1, <2>2, <2>5 DEF RevokeSessionDoes, StartsAt, Fits, Excused
  <2>8. Excused(p)'
    <3>1. \A q \in Task \ {p} : run'[q].op = run[q].op /\ run'[q].old = run[q].old
      BY <2>3 DEF Still, Alike
    <3>2. run'[p].op = "refresh" =>
             \A q \in Task \ {p} : run'[q].op = "refresh" /\ run'[q].old = run'[p].old => run'[p].old \in ended'
      BY <2>4, <2>5, <2>6, <3>1 DEF Excused
    <3>3. /\ run'[p].new \in Token => run'[p].new \in stored' \union ended'
          /\ run'[p].op = "refresh" /\ run'[p].pc = "valid" => run'[p].old \in stored' \union ended'
      BY <2>1, <2>2, <2>4, <2>5 DEF RevokeSessionDoes, StartsAt, Fits, Excused
    <3>4. /\ run'[p].op \in {"revoke", "others"} /\ run'[p].pc = "del" => run'[p].old \in ended'
          /\ run'[p].op = "logout" => run'[p].old \in ended'
          /\ run'[p].op = "others" => run'[p].todo \subseteq ended'
      BY <2>1, <2>2, <2>4, <2>5 DEF RevokeSessionDoes, StartsAt, Fits, Excused
    <3> QED BY <3>2, <3>3, <3>4 DEF Excused
  <2>9. ASSUME NEW q \in Task \ {p}
        PROVE  Excused(q)'
    <3>1. Excused(q)
      BY DEF Fair
    <3>2. run'[p].op = "refresh" /\ run[q].op = "refresh" /\ run'[p].old = run[q].old => run[q].old \in ended'
      BY <2>4, <2>6, <3>1 DEF Excused
    <3> QED BY <2>3, <2>4, <3>1, <3>2, ExcusedKept
  <2>10. Accounted'
    BY <2>3, <2>4, <2>7, AccountedKept DEF Fair
  <2> QED BY <2>8, <2>9, <2>10 DEF Fair
<1>6. ASSUME NEW p \in Task, NEW t \in Page, NEW k \in Token \union {None},
             RevokeOthers(p, t, k)
      PROVE  Fair'
  <2>1. Fits(p) /\ run[p] \in Requests
    BY RunTyped DEF Shape
  <2>2. run' \in [Task -> Requests] /\ RevokeOthersDoes(p, t, k)
    BY <1>6, RevokeOthersWrites
  <2>3. Still(p)
    BY <2>2, StillAside DEF RevokeOthersDoes, Ops
  <2>4. cookie' = cookie /\ stored' = stored /\ ended \subseteq ended'
    BY <2>2 DEF RevokeOthersDoes
  <2>5. Excused(p)
    BY DEF Fair
  <2>6. run'[p].op = "refresh" => run[p].op = "refresh" /\ run'[p].old = run[p].old
    BY <2>1, <2>2 DEF RevokeOthersDoes, StartsAt, Fits
  <2>7. run[p].op = "refresh" =>
           \/ run'[p].op = "refresh" /\ run'[p].old = run[p].old
           \/ run[p].old \in stored' \union ended'
    BY <2>1, <2>2, <2>5 DEF RevokeOthersDoes, StartsAt, Fits, Excused
  <2>8. Excused(p)'
    <3>1. \A q \in Task \ {p} : run'[q].op = run[q].op /\ run'[q].old = run[q].old
      BY <2>3 DEF Still, Alike
    <3>2. run'[p].op = "refresh" =>
             \A q \in Task \ {p} : run'[q].op = "refresh" /\ run'[q].old = run'[p].old => run'[p].old \in ended'
      BY <2>4, <2>5, <2>6, <3>1 DEF Excused
    <3>3. /\ run'[p].new \in Token => run'[p].new \in stored' \union ended'
          /\ run'[p].op = "refresh" /\ run'[p].pc = "valid" => run'[p].old \in stored' \union ended'
      BY <2>1, <2>2, <2>4, <2>5 DEF RevokeOthersDoes, StartsAt, Fits, Excused
    <3>4. /\ run'[p].op \in {"revoke", "others"} /\ run'[p].pc = "del" => run'[p].old \in ended'
          /\ run'[p].op = "logout" => run'[p].old \in ended'
          /\ run'[p].op = "others" => run'[p].todo \subseteq ended'
      BY <2>1, <2>2, <2>4, <2>5 DEF RevokeOthersDoes, StartsAt, Fits, Excused
    <3> QED BY <3>2, <3>3, <3>4 DEF Excused
  <2>9. ASSUME NEW q \in Task \ {p}
        PROVE  Excused(q)'
    <3>1. Excused(q)
      BY DEF Fair
    <3>2. run'[p].op = "refresh" /\ run[q].op = "refresh" /\ run'[p].old = run[q].old => run[q].old \in ended'
      BY <2>4, <2>6, <3>1 DEF Excused
    <3> QED BY <2>3, <2>4, <3>1, <3>2, ExcusedKept
  <2>10. Accounted'
    BY <2>3, <2>4, <2>7, AccountedKept DEF Fair
  <2> QED BY <2>8, <2>9, <2>10 DEF Fair
<1>7. ASSUME NEW p \in Task,
             Validates(p)
      PROVE  Fair'
  <2>1. Fits(p) /\ run[p] \in Requests
    BY RunTyped DEF Shape
  <2>2. run' \in [Task -> Requests] /\ ValidatesDoes(p)
    BY <1>7, ValidatesWrites
  <2>3. Still(p)
    BY <2>2, StillOthers DEF ValidatesDoes
  <2>4. cookie' = cookie /\ stored' = stored /\ ended \subseteq ended'
    BY <2>2 DEF ValidatesDoes
  <2>5. Excused(p)
    BY DEF Fair
  <2>6. run'[p].op = "refresh" => run[p].op = "refresh" /\ run'[p].old = run[p].old
    BY <2>1, <2>2 DEF ValidatesDoes, GoesTo, IdleAt, Fits
  <2>7. run[p].op = "refresh" =>
           \/ run'[p].op = "refresh" /\ run'[p].old = run[p].old
           \/ run[p].old \in stored' \union ended'
    BY <2>1, <2>2, <2>5 DEF ValidatesDoes, GoesTo, IdleAt, Fits, Excused
  <2>8. Excused(p)'
    <3>1. \A q \in Task \ {p} : run'[q].op = run[q].op /\ run'[q].old = run[q].old
      BY <2>3 DEF Still, Alike
    <3>2. run'[p].op = "refresh" =>
             \A q \in Task \ {p} : run'[q].op = "refresh" /\ run'[q].old = run'[p].old => run'[p].old \in ended'
      BY <2>4, <2>5, <2>6, <3>1 DEF Excused
    <3>3. /\ run'[p].new \in Token => run'[p].new \in stored' \union ended'
          /\ run'[p].op = "refresh" /\ run'[p].pc = "valid" => run'[p].old \in stored' \union ended'
      BY <2>1, <2>2, <2>4, <2>5 DEF ValidatesDoes, GoesTo, IdleAt, Fits, Excused
    <3>4. /\ run'[p].op \in {"revoke", "others"} /\ run'[p].pc = "del" => run'[p].old \in ended'
          /\ run'[p].op = "logout" => run'[p].old \in ended'
          /\ run'[p].op = "others" => run'[p].todo \subseteq ended'
      BY <2>1, <2>2, <2>4, <2>5 DEF ValidatesDoes, GoesTo, IdleAt, Fits, Excused
    <3> QED BY <3>2, <3>3, <3>4 DEF Excused
  <2>9. ASSUME NEW q \in Task \ {p}
        PROVE  Excused(q)'
    <3>1. Excused(q)
      BY DEF Fair
    <3>2. run'[p].op = "refresh" /\ run[q].op = "refresh" /\ run'[p].old = run[q].old => run[q].old \in ended'
      BY <2>4, <2>6, <3>1 DEF Excused
    <3> QED BY <2>3, <2>4, <3>1, <3>2, ExcusedKept
  <2>10. Accounted'
    BY <2>3, <2>4, <2>7, AccountedKept DEF Fair
  <2> QED BY <2>8, <2>9, <2>10 DEF Fair
<1>8. ASSUME NEW p \in Task,
             Deletes(p)
      PROVE  Fair'
  <2>1. Fits(p) /\ run[p] \in Requests
    BY RunTyped DEF Shape
  <2>2. run' \in [Task -> Requests] /\ DeletesDoes(p)
    BY <1>8, DeletesWrites
  <2>3. Still(p)
    BY <2>2, StillOthers DEF DeletesDoes
  <2>4. /\ cookie' = cookie /\ stored' = stored \ {run[p].old} /\ ended' = ended
        /\ run[p].pc = "del" /\ run[p].op \in {"refresh", "logout", "revoke", "others"}
        /\ run'[p].op = run[p].op /\ run'[p].old = run[p].old /\ run'[p].pc = "srem"
        /\ run'[p].new = run[p].new /\ run'[p].todo = run[p].todo
    BY <2>1, <2>2 DEF DeletesDoes, GoesTo, Fits
  <2>5. Excused(p) /\ ItsOwn(p)
    BY DEF Fair, Owners
  <2>6. run[p].op # "refresh" => run[p].old \in ended
    BY <2>4, <2>5 DEF Excused
  <2>7. run[p].new = None
    BY <2>1, <2>4 DEF Fits
  <2>8. Excused(p)'
    <3>1. \A q \in Task \ {p} : run'[q].op = run[q].op /\ run'[q].old = run[q].old
      BY <2>3 DEF Still, Alike
    <3>2. run'[p].op = "refresh" =>
             \A q \in Task \ {p} : run'[q].op = "refresh" /\ run'[q].old = run'[p].old => run'[p].old \in ended'
      BY <2>4, <2>5, <3>1 DEF Excused
    <3> QED BY <2>4, <2>5, <2>6, <2>7, <3>2 DEF Excused
  <2>9. ASSUME NEW q \in Task \ {p}
        PROVE  Excused(q)'
    <3>1. Excused(q)
      BY DEF Fair
    <3>2. run'[p].op = "refresh" /\ run[q].op = "refresh" /\ run'[p].old = run[q].old => run[q].old \in ended'
      BY <2>4, <3>1 DEF Excused
    <3>3. run[q].new \in Token /\ run[q].new \in stored => run[q].new \in stored' \union ended'
      <4>1. CASE run[p].op = "refresh"
        BY <2>4, <2>5, <4>1 DEF ItsOwn
      <4>2. CASE run[p].op # "refresh"
        BY <2>4, <2>6, <4>2
      <4> QED BY <4>1, <4>2
    <3>4. run[q].op = "refresh" /\ run[q].pc = "valid" /\ run[q].old \in stored =>
             run[q].old \in stored' \union ended'
      BY <2>4, <2>5, <2>6, <3>1 DEF Excused
    <3> QED BY <2>3, <2>4, <3>1, <3>2, <3>3, <3>4, ExcusedKept
  <2>10. Accounted'
    <3>1. run[p].op = "refresh" => Exchanged(run[p].old)'
      BY <2>4 DEF Exchanged
    <3>2. ASSUME NEW b \in Browser, cookie[b] \in stored \union ended
          PROVE  cookie[b] \in stored' \union ended' \/ Exchanged(cookie[b])'
      BY <2>4, <2>6, <3>1, <3>2
    <3> QED BY <2>3, <2>4, <3>2, AccountedKept DEF Fair
  <2> QED BY <2>8, <2>9, <2>10 DEF Fair
<1>9. ASSUME NEW p \in Task,
             Removes(p)
      PROVE  Fair'
  <2>1. Fits(p) /\ run[p] \in Requests
    BY RunTyped DEF Shape
  <2>2. run' \in [Task -> Requests] /\ RemovesDoes(p)
    BY <1>9, RemovesWrites
  <2>3. Still(p)
    BY <2>2, StillOthers DEF RemovesDoes
  <2>4. cookie' = cookie /\ stored' = stored /\ ended \subseteq ended'
    BY <2>2 DEF RemovesDoes
  <2>5. Excused(p)
    BY DEF Fair
  <2>6. run'[p].op = "refresh" => run[p].op = "refresh" /\ run'[p].old = run[p].old
    BY <2>1, <2>2 DEF RemovesDoes, GoesTo, IdleAt, BackAt, Fits
  <2>7. run[p].op = "refresh" =>
           \/ run'[p].op = "refresh" /\ run'[p].old = run[p].old
           \/ run[p].old \in stored' \union ended'
    BY <2>1, <2>2, <2>5 DEF RemovesDoes, GoesTo, IdleAt, BackAt, Fits, Excused
  <2>8. Excused(p)'
    <3>1. \A q \in Task \ {p} : run'[q].op = run[q].op /\ run'[q].old = run[q].old
      BY <2>3 DEF Still, Alike
    <3>2. run'[p].op = "refresh" =>
             \A q \in Task \ {p} : run'[q].op = "refresh" /\ run'[q].old = run'[p].old => run'[p].old \in ended'
      BY <2>4, <2>5, <2>6, <3>1 DEF Excused
    <3>3. /\ run'[p].new \in Token => run'[p].new \in stored' \union ended'
          /\ run'[p].op = "refresh" /\ run'[p].pc = "valid" => run'[p].old \in stored' \union ended'
      BY <2>1, <2>2, <2>4, <2>5 DEF RemovesDoes, GoesTo, IdleAt, BackAt, Fits, Excused
    <3>4. /\ run'[p].op \in {"revoke", "others"} /\ run'[p].pc = "del" => run'[p].old \in ended'
          /\ run'[p].op = "logout" => run'[p].old \in ended'
          /\ run'[p].op = "others" => run'[p].todo \subseteq ended'
      BY <2>1, <2>2, <2>4, <2>5 DEF RemovesDoes, GoesTo, IdleAt, BackAt, Fits, Excused
    <3> QED BY <3>2, <3>3, <3>4 DEF Excused
  <2>9. ASSUME NEW q \in Task \ {p}
        PROVE  Excused(q)'
    <3>1. Excused(q)
      BY DEF Fair
    <3>2. run'[p].op = "refresh" /\ run[q].op = "refresh" /\ run'[p].old = run[q].old => run[q].old \in ended'
      BY <2>4, <2>6, <3>1 DEF Excused
    <3> QED BY <2>3, <2>4, <3>1, <3>2, ExcusedKept
  <2>10. Accounted'
    BY <2>3, <2>4, <2>7, AccountedKept DEF Fair
  <2> QED BY <2>8, <2>9, <2>10 DEF Fair
<1>10. ASSUME NEW p \in Task,
             Registers(p), UNCHANGED <<cookie, page, out>>
      PROVE  Fair'
  <2>1. Fits(p) /\ run[p] \in Requests
    BY RunTyped DEF Shape
  <2>2. run' \in [Task -> Requests] /\ RegistersDoes(p)
    BY <1>10, RegistersWrites
  <2>3. Still(p)
    BY <2>2, StillOthers DEF RegistersDoes
  <2>4. /\ cookie' = cookie /\ stored \subseteq stored' /\ ended \ Fresh \subseteq ended'
        /\ run'[p].op = run[p].op /\ run'[p].old = run[p].old /\ run'[p].todo = run[p].todo
        /\ run'[p].pc \in {"add", "answer"} /\ run[p].pc \in {"set", "add"}
        /\ run'[p].new \in stored' \union {run[p].new}
    BY <2>2 DEF RegistersDoes, MakesAt, GoesTo
  <2>5. Excused(p) /\ run[p].op \in {"login", "refresh"}
    BY <2>1, <2>4 DEF Fair, Fits
  <2>6. \A q \in Task : /\ run[q].old \notin Fresh /\ run[q].new \notin Fresh
                         /\ run[q].todo \intersect Fresh = {}
    BY FreshIsNew
  <2>7. \A b \in Browser : cookie[b] \notin Fresh
    BY FreshIsNew
  <2>8. Excused(p)'
    <3>1. \A q \in Task \ {p} : run'[q].op = run[q].op /\ run'[q].old = run[q].old
      BY <2>3 DEF Still, Alike
    <3>2. run'[p].op = "refresh" =>
             \A q \in Task \ {p} : run'[q].op = "refresh" /\ run'[q].old = run'[p].old => run'[p].old \in ended'
      BY <2>4, <2>5, <2>6, <3>1 DEF Excused
    <3>3. run'[p].new \in Token => run'[p].new \in stored' \union ended'
      BY <2>4, <2>5, <2>6 DEF Excused
    <3> QED BY <2>4, <2>5, <3>2, <3>3 DEF Excused
  <2>9. ASSUME NEW q \in Task \ {p}
        PROVE  Excused(q)'
    <3>1. Excused(q)
      BY DEF Fair
    <3>2. run'[p].op = "refresh" /\ run[q].op = "refresh" /\ run'[p].old = run[q].old => run[q].old \in ended'
      BY <2>4, <2>6, <3>1 DEF Excused
    <3> QED BY <2>3, <2>4, <2>6, <3>1, <3>2, ExcusedKept
  <2>10. Accounted'
    BY <2>3, <2>4, <2>7, AccountedKept DEF Fair
  <2> QED BY <2>8, <2>9, <2>10 DEF Fair
<1>11. ASSUME NEW p \in Task,
             Answers(p)
      PROVE  Fair'
  <2>1. Fits(p) /\ run[p] \in Requests
    BY RunTyped DEF Shape
  <2>2. run' \in [Task -> Requests] /\ AnswersDoes(p)
    BY <1>11, <2>1, AnswersWrites
  <2>3. Still(p)
    BY <2>2, StillOthers DEF AnswersDoes
  <2>4. PICK t \in Page : run[p].page = {t}
    BY <2>1, <2>2 DEF Fits, AnswersDoes
  <2> DEFINE k == IF run[p].op = "logout" THEN None ELSE run[p].new
  <2>5. cookie' = [cookie EXCEPT ![Home[t]] = k]
    BY <2>2, <2>4 DEF AnswersDoes
  <2>6. /\ stored' = stored /\ ended' = ended
        /\ run'[p].op = "idle" /\ run'[p].new = None
        /\ run'[p].pc = "idle" /\ run'[p].todo = {} /\ run'[p].old = None
    BY <2>2 DEF AnswersDoes, IdleAt
  <2>14. Of(p) = {Home[t]}
    BY <2>4 DEF Of
  <2>7. Excused(p) /\ ItsOwn(p)
    BY DEF Fair, Owners
  <2>8. k \in Token => k \in stored \union ended
    BY <2>7 DEF Excused
  <2> HIDE DEF k
  <2>9. \A b \in Browser : cookie'[b] = IF b = Home[t] THEN k ELSE cookie[b]
    BY <2>5 DEF TypeOK
  <2>10. Excused(p)'
    BY <2>6 DEF Excused
  <2>11. ASSUME NEW q \in Task \ {p}
         PROVE  Excused(q)'
    BY <2>3, <2>6, ExcusedKept DEF Fair
  <2>12. ASSUME NEW b \in Browser, cookie'[b] \in Token, cookie'[b] \notin stored' \union ended'
         PROVE  \E q \in Task : run'[q].op = "refresh" /\ run'[q].old = cookie'[b]
    <3>1. b # Home[t]
      BY <2>6, <2>8, <2>9, <2>12
    <3>2. cookie'[b] = cookie[b]
      BY <2>9, <3>1
    <3>3. PICK q \in Task : run[q].op = "refresh" /\ run[q].old = cookie[b]
      BY <2>6, <2>12, <3>2 DEF Fair, Accounted, Exchanged
    <3>4. q # p
      BY <2>14, <2>7, <3>1, <3>3 DEF ItsOwn
    <3>5. Alike(q)
      BY <2>3, <3>4 DEF Still
    <3>6. run'[q].op = "refresh" /\ run'[q].old = cookie'[b]
      BY <3>2, <3>3, <3>5 DEF Alike
    <3> QED BY <3>6
  <2>13. Accounted'
    BY <2>12 DEF Accounted, Exchanged
  <2> QED BY <2>10, <2>11, <2>13 DEF Fair
<1>12. ASSUME NEW p \in Task,
             ReadsSet(p)
      PROVE  Fair'
  <2>1. Fits(p) /\ run[p] \in Requests
    BY RunTyped DEF Shape
  <2>2. run' \in [Task -> Requests] /\ ReadsSetDoes(p)
    BY <1>12, ReadsSetWrites
  <2>3. Still(p)
    BY <2>2, StillOthers DEF ReadsSetDoes
  <2>4. cookie' = cookie /\ stored' = stored /\ ended \subseteq ended'
    BY <2>2 DEF ReadsSetDoes
  <2>5. Excused(p)
    BY DEF Fair
  <2>6. run'[p].op = "refresh" => run[p].op = "refresh" /\ run'[p].old = run[p].old
    BY <2>1, <2>2 DEF ReadsSetDoes, ReadsAt, Fits
  <2>7. run[p].op = "refresh" =>
           \/ run'[p].op = "refresh" /\ run'[p].old = run[p].old
           \/ run[p].old \in stored' \union ended'
    BY <2>1, <2>2, <2>5 DEF ReadsSetDoes, ReadsAt, Fits, Excused
  <2>8. Excused(p)'
    <3>1. \A q \in Task \ {p} : run'[q].op = run[q].op /\ run'[q].old = run[q].old
      BY <2>3 DEF Still, Alike
    <3>2. run'[p].op = "refresh" =>
             \A q \in Task \ {p} : run'[q].op = "refresh" /\ run'[q].old = run'[p].old => run'[p].old \in ended'
      BY <2>4, <2>5, <2>6, <3>1 DEF Excused
    <3>3. /\ run'[p].new \in Token => run'[p].new \in stored' \union ended'
          /\ run'[p].op = "refresh" /\ run'[p].pc = "valid" => run'[p].old \in stored' \union ended'
      BY <2>1, <2>2, <2>4, <2>5 DEF ReadsSetDoes, ReadsAt, Fits, Excused
    <3>4. /\ run'[p].op \in {"revoke", "others"} /\ run'[p].pc = "del" => run'[p].old \in ended'
          /\ run'[p].op = "logout" => run'[p].old \in ended'
          /\ run'[p].op = "others" => run'[p].todo \subseteq ended'
      BY <2>1, <2>2, <2>4, <2>5 DEF ReadsSetDoes, ReadsAt, Fits, Excused
    <3> QED BY <3>2, <3>3, <3>4 DEF Excused
  <2>9. ASSUME NEW q \in Task \ {p}
        PROVE  Excused(q)'
    <3>1. Excused(q)
      BY DEF Fair
    <3>2. run'[p].op = "refresh" /\ run[q].op = "refresh" /\ run'[p].old = run[q].old => run[q].old \in ended'
      BY <2>4, <2>6, <3>1 DEF Excused
    <3> QED BY <2>3, <2>4, <3>1, <3>2, ExcusedKept
  <2>10. Accounted'
    BY <2>3, <2>4, <2>7, AccountedKept DEF Fair
  <2> QED BY <2>8, <2>9, <2>10 DEF Fair
<1>13. ASSUME NEW p \in Task,
             RevokesNext(p)
      PROVE  Fair'
  <2>1. Fits(p) /\ run[p] \in Requests
    BY RunTyped DEF Shape
  <2>2. run' \in [Task -> Requests] /\ RevokesNextDoes(p)
    BY <1>13, RevokesNextWrites
  <2>3. Still(p)
    BY <2>2, StillOthers DEF RevokesNextDoes
  <2>4. cookie' = cookie /\ stored' = stored /\ ended \subseteq ended'
    BY <2>2 DEF RevokesNextDoes
  <2>5. Excused(p)
    BY DEF Fair
  <2>6. run'[p].op = "refresh" => run[p].op = "refresh" /\ run'[p].old = run[p].old
    BY <2>1, <2>2 DEF RevokesNextDoes, IdleAt, TakesAt, Fits
  <2>7. run[p].op = "refresh" =>
           \/ run'[p].op = "refresh" /\ run'[p].old = run[p].old
           \/ run[p].old \in stored' \union ended'
    BY <2>1, <2>2, <2>5 DEF RevokesNextDoes, IdleAt, TakesAt, Fits, Excused
  <2>8. Excused(p)'
    <3>1. \A q \in Task \ {p} : run'[q].op = run[q].op /\ run'[q].old = run[q].old
      BY <2>3 DEF Still, Alike
    <3>2. run'[p].op = "refresh" =>
             \A q \in Task \ {p} : run'[q].op = "refresh" /\ run'[q].old = run'[p].old => run'[p].old \in ended'
      BY <2>4, <2>5, <2>6, <3>1 DEF Excused
    <3>3. /\ run'[p].new \in Token => run'[p].new \in stored' \union ended'
          /\ run'[p].op = "refresh" /\ run'[p].pc = "valid" => run'[p].old \in stored' \union ended'
      BY <2>1, <2>2, <2>4, <2>5 DEF RevokesNextDoes, IdleAt, TakesAt, Fits, Excused
    <3>4. /\ run'[p].op \in {"revoke", "others"} /\ run'[p].pc = "del" => run'[p].old \in ended'
          /\ run'[p].op = "logout" => run'[p].old \in ended'
          /\ run'[p].op = "others" => run'[p].todo \subseteq ended'
      BY <2>1, <2>2, <2>4, <2>5 DEF RevokesNextDoes, IdleAt, TakesAt, Fits, Excused
    <3> QED BY <3>2, <3>3, <3>4 DEF Excused
  <2>9. ASSUME NEW q \in Task \ {p}
        PROVE  Excused(q)'
    <3>1. Excused(q)
      BY DEF Fair
    <3>2. run'[p].op = "refresh" /\ run[q].op = "refresh" /\ run'[p].old = run[q].old => run[q].old \in ended'
      BY <2>4, <2>6, <3>1 DEF Excused
    <3> QED BY <2>3, <2>4, <3>1, <3>2, ExcusedKept
  <2>10. Accounted'
    BY <2>3, <2>4, <2>7, AccountedKept DEF Fair
  <2> QED BY <2>8, <2>9, <2>10 DEF Fair
<1>14. ASSUME NEW p \in Task,
             ListsNext(p)
      PROVE  Fair'
  <2>1. Fits(p) /\ run[p] \in Requests
    BY RunTyped DEF Shape
  <2>2. run' \in [Task -> Requests] /\ ListsNextDoes(p)
    BY <1>14, ListsNextWrites
  <2>3. Still(p)
    BY <2>2, StillOthers DEF ListsNextDoes
  <2>4. cookie' = cookie /\ stored' = stored /\ ended \subseteq ended'
    BY <2>2 DEF ListsNextDoes
  <2>5. Excused(p)
    BY DEF Fair
  <2>6. run'[p].op = "refresh" => run[p].op = "refresh" /\ run'[p].old = run[p].old
    BY <2>1, <2>2 DEF ListsNextDoes, IdleAt, TakesAt, LooksAt, Fits
  <2>7. run[p].op = "refresh" =>
           \/ run'[p].op = "refresh" /\ run'[p].old = run[p].old
           \/ run[p].old \in stored' \union ended'
    BY <2>1, <2>2, <2>5 DEF ListsNextDoes, IdleAt, TakesAt, LooksAt, Fits, Excused
  <2>8. Excused(p)'
    <3>1. \A q \in Task \ {p} : run'[q].op = run[q].op /\ run'[q].old = run[q].old
      BY <2>3 DEF Still, Alike
    <3>2. run'[p].op = "refresh" =>
             \A q \in Task \ {p} : run'[q].op = "refresh" /\ run'[q].old = run'[p].old => run'[p].old \in ended'
      BY <2>4, <2>5, <2>6, <3>1 DEF Excused
    <3>3. /\ run'[p].new \in Token => run'[p].new \in stored' \union ended'
          /\ run'[p].op = "refresh" /\ run'[p].pc = "valid" => run'[p].old \in stored' \union ended'
      BY <2>1, <2>2, <2>4, <2>5 DEF ListsNextDoes, IdleAt, TakesAt, LooksAt, Fits, Excused
    <3>4. /\ run'[p].op \in {"revoke", "others"} /\ run'[p].pc = "del" => run'[p].old \in ended'
          /\ run'[p].op = "logout" => run'[p].old \in ended'
          /\ run'[p].op = "others" => run'[p].todo \subseteq ended'
      BY <2>1, <2>2, <2>4, <2>5 DEF ListsNextDoes, IdleAt, TakesAt, LooksAt, Fits, Excused
    <3> QED BY <3>2, <3>3, <3>4 DEF Excused
  <2>9. ASSUME NEW q \in Task \ {p}
        PROVE  Excused(q)'
    <3>1. Excused(q)
      BY DEF Fair
    <3>2. run'[p].op = "refresh" /\ run[q].op = "refresh" /\ run'[p].old = run[q].old => run[q].old \in ended'
      BY <2>4, <2>6, <3>1 DEF Excused
    <3> QED BY <2>3, <2>4, <3>1, <3>2, ExcusedKept
  <2>10. Accounted'
    BY <2>3, <2>4, <2>7, AccountedKept DEF Fair
  <2> QED BY <2>8, <2>9, <2>10 DEF Fair
<1>15. ASSUME NEW p \in Task,
             Drops(p)
      PROVE  Fair'
  <2>1. Fits(p) /\ run[p] \in Requests
    BY RunTyped DEF Shape
  <2>2. run' \in [Task -> Requests] /\ DropsDoes(p)
    BY <1>15, DropsWrites
  <2>3. Still(p)
    BY <2>2, StillOthers DEF DropsDoes
  <2>4. cookie' = cookie /\ stored' = stored /\ ended \subseteq ended'
    BY <2>2 DEF DropsDoes
  <2>5. Excused(p)
    BY DEF Fair
  <2>6. run'[p].op = "refresh" => run[p].op = "refresh" /\ run'[p].old = run[p].old
    BY <2>1, <2>2 DEF DropsDoes, IdleAt, Fits
  <2>7. run[p].op = "refresh" =>
           \/ run'[p].op = "refresh" /\ run'[p].old = run[p].old
           \/ run[p].old \in stored' \union ended'
    BY <2>1, <2>2, <2>5 DEF DropsDoes, IdleAt, Fits, Excused, Excuses
  <2>8. Excused(p)'
    <3>1. \A q \in Task \ {p} : run'[q].op = run[q].op /\ run'[q].old = run[q].old
      BY <2>3 DEF Still, Alike
    <3>2. run'[p].op = "refresh" =>
             \A q \in Task \ {p} : run'[q].op = "refresh" /\ run'[q].old = run'[p].old => run'[p].old \in ended'
      BY <2>4, <2>5, <2>6, <3>1 DEF Excused
    <3>3. /\ run'[p].new \in Token => run'[p].new \in stored' \union ended'
          /\ run'[p].op = "refresh" /\ run'[p].pc = "valid" => run'[p].old \in stored' \union ended'
      BY <2>1, <2>2, <2>4, <2>5 DEF DropsDoes, IdleAt, Fits, Excused
    <3>4. /\ run'[p].op \in {"revoke", "others"} /\ run'[p].pc = "del" => run'[p].old \in ended'
          /\ run'[p].op = "logout" => run'[p].old \in ended'
          /\ run'[p].op = "others" => run'[p].todo \subseteq ended'
      BY <2>1, <2>2, <2>4, <2>5 DEF DropsDoes, IdleAt, Fits, Excused
    <3> QED BY <3>2, <3>3, <3>4 DEF Excused
  <2>9. ASSUME NEW q \in Task \ {p}
        PROVE  Excused(q)'
    <3>1. Excused(q)
      BY DEF Fair
    <3>2. run'[p].op = "refresh" /\ run[q].op = "refresh" /\ run'[p].old = run[q].old => run[q].old \in ended'
      BY <2>4, <2>6, <3>1 DEF Excused
    <3> QED BY <2>3, <2>4, <3>1, <3>2, ExcusedKept
  <2>10. Accounted'
    BY <2>3, <2>4, <2>7, AccountedKept DEF Fair
  <2> QED BY <2>8, <2>9, <2>10 DEF Fair
<1>16. ASSUME NEW t \in Page, RefreshNothing(t)
      PROVE  Fair'
  BY <1>16 DEF RefreshNothing, Fair, Accounted, Excused, Exchanged
<1>17. ASSUME NEW k \in Token, Expires(k)
      PROVE  Fair'
  BY <1>17 DEF Expires, Fair, Accounted, Excused, Exchanged
<1>18. CASE UNCHANGED vars
  BY <1>18 DEF vars, Fair, Accounted, Excused, Exchanged
<1>19. ASSUME NEW b \in Browser, Forgets(b)
      PROVE  Fair'
  BY <1>19 DEF Forgets, Fair, Accounted, Excused, Exchanged, TypeOK
<1> QED
  BY <1>1, <1>2, <1>3, <1>4, <1>5, <1>6, <1>7, <1>8, <1>9, <1>10, <1>11, <1>12, <1>13, <1>14, <1>15, <1>16, <1>17, <1>18, <1>19
  DEF Next, Request, Handler

-----------------------------------------------------------------------------
(* Where the layers begin.                                                  *)

LEMMA InitHolds ==
  ASSUME Init
  PROVE  /\ TypeOK /\ Shape /\ StruckOff /\ Listed
         /\ Owners /\ Due /\ Outside /\ Fair
<1>1. \A p \in Task : /\ run[p].op = "idle" /\ run[p].pc = "idle" /\ run[p].page = {}
                      /\ run[p].old = None /\ run[p].new = None
                      /\ run[p].todo = {} /\ run[p].due = {}
  BY DEF Init, Idle
<1>2. stored = {} /\ out = {} /\ \A b \in Browser : cookie[b] = None
  BY DEF Init
<1>3. TypeOK
  <2>1. Idle \in Requests
    BY DEF Idle, Requests, Ops, Steps
  <2> QED BY <2>1 DEF Init, TypeOK
<1>4. Shape
  BY <1>1 DEF Shape, Fits
<1>5. StruckOff /\ Listed /\ Outside
  BY <1>1, <1>2 DEF StruckOff, Listed, Outside
<1>6. Owners
  BY <1>1, <1>2 DEF Owners, Apart, OnItsWay, ItsOwn
<1>7. Due
  BY <1>1 DEF Due, DueOf
<1>8. Fair
  BY <1>1, <1>2 DEF Fair, Accounted, Excused
<1> QED BY <1>3, <1>4, <1>5, <1>6, <1>7, <1>8

\* The layers that need no assumption about what counts as an excuse.
Layers == TypeOK /\ Shape /\ StruckOff /\ Listed /\ Owners /\ Due /\ Outside

LEMMA LayersAlways == Spec => []Layers
<1>1. Init => Layers
  BY InitHolds DEF Layers
<1>2. Layers /\ [Next]_vars => Layers'
  BY TypeStep, ShapeStep, StruckOffStep, ListedStep, OwnersStep, DueStep, OutsideStep
  DEF Layers
<1> QED BY <1>1, <1>2, PTL DEF Spec

\* A page is sent out only by a refresh that is refused or by its own logout, and the
\* token of either was ended: a refused one is not stored, and a token that is neither
\* stored nor ended is being exchanged by the one request that holds it.
LEMMA LosesStep ==
  ASSUME TypeOK, Shape, Fair, [Next]_vars,
         NEW u \in Page, page[u] = "in", page'[u] = "out"
  PROVE  \/ cookie[Home[u]] = None
         \/ \E p \in Task : run[p].page = {u} /\ run[p].old \in ended
<1> DEFINE Goal == \/ cookie[Home[u]] = None
                   \/ \E p \in Task : run[p].page = {u} /\ run[p].old \in ended
<1> SUFFICES Goal
  OBVIOUS
<1>1. page' # page
  OBVIOUS
<1>2. ASSUME NEW p \in Task, Request(p)
      PROVE  Goal
  BY <1>1, <1>2 DEF Request, Login, Refresh, Logout, ListSessions, RevokeSession, RevokeOthers
<1>3. ASSUME NEW p \in Task, Validates(p)
      PROVE  Goal
  <2>1. ValidatesDoes(p)
    BY <1>3, ValidatesWrites
  <2>2. run[p].op = "refresh" /\ run[p].pc = "valid" /\ u \in run[p].page /\ run[p].old \notin stored
    BY <2>1 DEF ValidatesDoes
  <2>3. run[p].page = {u}
    BY <2>2 DEF Shape, Fits
  <2>4. run[p].old \in ended
    BY <2>2 DEF Fair, Excused
  <2> QED BY <2>3, <2>4
<1>4. ASSUME NEW p \in Task, Answers(p)
      PROVE  Goal
  <2>1. AnswersDoes(p)
    BY <1>4, AnswersWrites DEF Shape
  <2>2. run[p].op = "logout" /\ run[p].page = {u}
    BY <2>1 DEF AnswersDoes
  <2> QED BY <2>2 DEF Fair, Excused
<1>5. ASSUME NEW p \in Task, Drops(p)
      PROVE  Goal
  <2>1. DropsDoes(p)
    BY <1>5, DropsWrites
  <2>2. run[p].op = "logout" /\ u \in run[p].page
    BY <2>1 DEF DropsDoes
  <2>3. run[p].page = {u}
    BY <2>2 DEF Shape, Fits
  <2> QED BY <2>2, <2>3 DEF Fair, Excused
<1>6. ASSUME NEW p \in Task,
             \/ Deletes(p) \/ Removes(p)
             \/ Registers(p) /\ UNCHANGED <<cookie, page, out>>
             \/ ReadsSet(p) \/ RevokesNext(p) \/ ListsNext(p)
      PROVE  Goal
  BY <1>1, <1>6 DEF Deletes, Removes, ReadsSet, RevokesNext, ListsNext
<1>7. ASSUME NEW t \in Page, RefreshNothing(t)
      PROVE  Goal
  BY <1>7 DEF RefreshNothing, TypeOK
<1>8. ASSUME NEW k \in Token, Expires(k)
      PROVE  Goal
  BY <1>1, <1>8 DEF Expires
<1>9. CASE UNCHANGED vars
  BY <1>1, <1>9 DEF vars
<1>11. ASSUME NEW b \in Browser, Forgets(b)
       PROVE  Goal
  BY <1>1, <1>11 DEF Forgets
<1> HIDE DEF Goal
<1>10. ASSUME NEW p \in Task, Handler(p)
       PROVE  Goal
  BY <1>3, <1>4, <1>6, <1>10 DEF Handler
<1> QED
  BY <1>2, <1>5, <1>7, <1>8, <1>9, <1>10, <1>11 DEF Next

-----------------------------------------------------------------------------
(* The theorems.                                                            *)

\* Whatever requests overlap, lose their connection half way or find a session expired,
\* a session a browser uses is on the list of the account as long as it is alive.
THEOREM SessionsAreListed == Spec => []Inv
<1>1. Layers => Inv
  BY DEF Layers, Inv
<1> QED BY <1>1, LayersAlways, PTL

\* When revoke_all_refresh_tokens has returned, every browser it was not to keep and
\* that asked for no new token meanwhile holds a dead session, although the sessions
\* are read in one command and revoked one after the other.
THEOREM OthersAreSignedOut == Spec => []SignedOut
<1>1. Layers => SignedOut
  BY DEF Layers, Outside, SignedOut
<1> QED BY <1>1, LayersAlways, PTL

\* A page loses its session only when it has no token, or when its token was ended, ran
\* out, lost the answer of its exchange or, where pages share a browser, was exchanged
\* twice.
THEOREM SessionsEndFairly ==
  ASSUME Excuses
  PROVE  Spec => LosesItFairly
<1>1. Init => Layers /\ Fair
  BY InitHolds DEF Layers
<1>2. Layers /\ Fair /\ [Next]_vars => Fair'
  BY FairStep DEF Layers
<1>3. Layers /\ Fair /\ [Next]_vars =>
        [\A t \in Page :
           page[t] = "in" /\ page'[t] = "out" =>
              \/ cookie[Home[t]] = None
              \/ \E p \in Task : /\ run[p].page = {t}
                                 /\ run[p].old \in ended]_vars
  BY LosesStep DEF Layers
<1> QED BY <1>1, <1>2, <1>3, LayersAlways, PTL DEF Spec, LosesItFairly
=============================================================================
