-------------------------- MODULE KeyErasureProofs --------------------------
(***************************************************************************)
(* Proofs about DeviceLog and KeyErasure, for every set of handlers,       *)
(* transfers, requests and erasing processes and every limit.              *)
(*                                                                         *)
(* Of DeviceLog: the inductive invariant IInv, the safety properties that  *)
(* follow from it, and the refinement of DeviceRegistry.  Of KeyErasure:   *)
(* one request waits at a time, a request that was called off is not       *)
(* carried out by anything but the sweep that already held it, and a       *)
(* request that was carried out has seen every device go.                  *)
(***************************************************************************)
EXTENDS KeyErasure, FiniteSetTheorems, WellFoundedInduction, TLAPS

USE MaxDevicesAssumption, MaxGrantsAssumption, NoneAssumption

(***************************************************************************)
(* The head of the log.                                                    *)
(***************************************************************************)

\* In a log that is not empty, Head is the entry check_chain compares with.
LEMMA HeadIsHead ==
  ASSUME Dense, log # {}
  PROVE  IsHead(Head)
BY DEF Dense, Head

\* There is only one such entry, so the choice in Head is none.
LEMMA HeadUnique ==
  ASSUME log \subseteq Rows, OneChain, NEW r, IsHead(r)
  PROVE  Head = r
<1>1. IsHead(Head)
  <2>1. r \in log
    BY DEF IsHead
  <2> QED BY <2>1 DEF Head
<1>2. Head \in Rows /\ r \in Rows
  BY <1>1 DEF IsHead
<1>3. Head.seq \in Nat /\ r.seq \in Nat
  BY <1>2 DEF Rows
<1>4. Head.seq <= r.seq /\ r.seq <= Head.seq
  BY <1>1 DEF IsHead
<1>5. Head.seq = r.seq
  BY <1>3, <1>4
<1> QED BY <1>1, <1>5 DEF OneChain, IsHead

\* The seq a handler computes is a natural number, and nobody has it.
LEMMA NextSeqFree ==
  ASSUME log \subseteq Rows, Dense
  PROVE  /\ NextSeq \in Nat
         /\ \A r \in log : r.seq < NextSeq
<1>1. CASE log = {}
  BY <1>1 DEF NextSeq
<1>2. CASE log # {}
  <2>1. IsHead(Head)
    BY <1>2, HeadIsHead
  <2>2. Head \in log /\ \A r \in log : r.seq <= Head.seq
    BY <2>1 DEF IsHead
  <2>3. \A r \in log : r.seq \in Nat
    BY DEF Rows
  <2>4. NextSeq = Head.seq + 1
    BY <1>2 DEF NextSeq
  <2> QED BY <2>2, <2>3, <2>4
<1> QED BY <1>1, <1>2

\* A handler that inserts, and meets no row of its seq, inserts right after
\* the head, and its statement names that head.  This is where the comparison
\* made earlier and the unique index come together.
LEMMA InsertsAtHead ==
  ASSUME TypeOK, OneChain, Dense, InsertsAfterPrev,
         NEW h \in Handlers, pc[h] = "insert", ~ SeqTaken(seq[h])
  PROVE  /\ seq[h] = NextSeq
         /\ ChainAccepts(stmt[h].prev)
         /\ log = {} <=> stmt[h].prev = None
         /\ log # {} => /\ IsHead(Head)
                        /\ Head.seq = seq[h] - 1
                        /\ Head.hash = stmt[h].prev
<1> USE DEF SeqTaken
<1>0. seq[h] \in Nat /\ \A r \in log : r.seq \in Nat /\ r.hash \in Handlers
  BY DEF TypeOK, Rows
<1>1. CASE seq[h] = 0 /\ stmt[h].prev = None
  <2>1. log = {}
    <3> SUFFICES ASSUME NEW r \in log PROVE FALSE
      OBVIOUS
    <3>1. 0 \in 0..r.seq
      BY <1>0
    <3> QED BY <3>1, <1>1 DEF Dense
  <2> QED BY <1>1, <2>1 DEF NextSeq, ChainAccepts, HeadHash
<1>2. CASE \E q \in log : q.seq = seq[h] - 1 /\ q.hash = stmt[h].prev
  <2>1. PICK q \in log : q.seq = seq[h] - 1 /\ q.hash = stmt[h].prev
    BY <1>2
  <2>2. \A r \in log : r.seq <= q.seq
    <3> SUFFICES ASSUME NEW r \in log, ~ (r.seq <= q.seq) PROVE FALSE
      OBVIOUS
    <3>1. seq[h] \in 0..r.seq
      BY <1>0, <2>1
    <3> QED BY <3>1 DEF Dense
  <2>3. IsHead(q)
    BY <2>1, <2>2 DEF IsHead
  <2>4. Head = q
    BY <2>3, HeadUnique DEF TypeOK
  <2>5. stmt[h].prev # None
    BY <1>0, <2>1
  <2>6. seq[h] = q.seq + 1
    BY <1>0, <2>1
  <2> QED BY <2>1, <2>3, <2>4, <2>5, <2>6 DEF NextSeq, ChainAccepts, HeadHash
<1> QED BY <1>1, <1>2 DEF InsertsAfterPrev

(***************************************************************************)
(* Steps that leave the tables alone.                                      *)
(***************************************************************************)

\* Whatever only talks about the tables survives a step that does not touch
\* them.
LEMMA TablesUnchanged ==
  ASSUME IInv, UNCHANGED db
  PROVE  /\ OneChain' /\ Dense' /\ AcceptedOnce'
         /\ RowsMatchLog' /\ SignedByAuthorized' /\ SomeDeviceLeft'
         /\ IsFiniteSet(enrolled)' /\ DeviceLimit' /\ OneDevicePerGrant'
         /\ HeadHash' = HeadHash /\ Active' = Active
<1> USE DEF IInv, ChainInv, DeviceInv, GrantInv
<1>1. log' = log /\ enrolled' = enrolled /\ revoked' = revoked
  BY DEF db
<1>2. Active' = Active
  BY <1>1 DEF Active
<1>3. HeadHash' = HeadHash
  BY <1>1 DEF HeadHash, Head, IsHead
<1>4. OneChain' /\ AcceptedOnce' /\ OneDevicePerGrant'
  BY <1>1 DEF OneChain, AcceptedOnce, OneDevicePerGrant
<1>5. Dense'
  BY <1>1 DEF Dense, IsHead, SeqTaken
<1>6. RowsMatchLog' /\ SignedByAuthorized'
  BY <1>1 DEF RowsMatchLog, SignedByAuthorized, AuthorizedAt
<1>7. SomeDeviceLeft' /\ DeviceLimit' /\ IsFiniteSet(enrolled)'
  BY <1>1, <1>2 DEF SomeDeviceLeft, DeviceLimit
<1> QED BY <1>2, <1>3, <1>4, <1>5, <1>6, <1>7

\* A handler only moves to another label: nothing was stored, and what the new
\* label promises has just been read.
LEMMA LabelMoves ==
  ASSUME IInv, NEW h \in Handlers, NEW label \in Labels \ {"unsent"},
         UNCHANGED << db, grants, stmt, seq >>,
         pc[h] # "unsent", pc[h] # "done", Goto(h, label),
         label \notin {"done", "insert"},
         label \in {"grant", "take"} => stmt[h].kind = "add-device",
         label = "signer" => stmt[h].kind = "revoke",
         label = "take" => stmt[h].token # 0,
         label = "head" => stmt[h].kind # "add-device",
         ChainAccepts(stmt[h].prev) =>
           /\ stmt[h].kind = "add-device" /\ label \in {"grant", "take"} => AddAllowed(h)
           /\ stmt[h].kind = "revoke" /\ label \in {"signer", "head"}
                => stmt[h].target \in Active
           /\ stmt[h].kind = "revoke" /\ label = "head" => stmt[h].signer \in Active
  PROVE  IInv'
<1> USE DEF IInv, ChainInv, DeviceInv, GrantInv
<1>0. /\ log' = log /\ enrolled' = enrolled /\ revoked' = revoked
      /\ grant' = grant /\ issued' = issued /\ stmt' = stmt /\ seq' = seq
  BY DEF db, grants
<1>1. /\ OneChain' /\ Dense' /\ AcceptedOnce'
      /\ RowsMatchLog' /\ SignedByAuthorized' /\ SomeDeviceLeft'
      /\ IsFiniteSet(enrolled)' /\ DeviceLimit' /\ OneDevicePerGrant'
      /\ HeadHash' = HeadHash /\ Active' = Active
  BY <1>0, TablesUnchanged DEF db
<1>2. /\ pc \in [Handlers -> Labels]
      /\ pc' = [pc EXCEPT ![h] = label]
      /\ \A g \in Handlers : pc'[g] = IF g = h THEN label ELSE pc[g]
  BY DEF TypeOK, Goto
<1>3. TypeOK'
  BY <1>0, <1>2 DEF TypeOK
<1>4. OneStatementPerHash' /\ SignedOnTheLog' /\ InsertsAfterPrev'
  BY <1>0, <1>2 DEF OneStatementPerHash, SignedOnTheLog, InsertsAfterPrev
<1>5. RowsCarryStatements'
  <2>1. \A r \in log : r.device \in Handlers
    BY DEF TypeOK, Rows
  <2> QED BY <1>0, <1>2, <2>1 DEF RowsCarryStatements
<1>6. LabelsMatchKinds'
  BY <1>0, <1>2 DEF LabelsMatchKinds
<1>7. ReadsStillHold'
  BY <1>0, <1>1, <1>2 DEF ReadsStillHold, ChainAccepts, AddAllowed
<1>8. GrantsTakenOnce'
  <2>1. \A g \in Handlers : HoldsGrant(g)' => HoldsGrant(g)
    BY <1>0, <1>2 DEF HoldsGrant
  <2> QED BY <1>0, <1>2, <2>1 DEF GrantsTakenOnce
<1> QED BY <1>1, <1>3, <1>4, <1>5, <1>6, <1>7, <1>8

\* The head matches, or does not, and the handler keeps the next seq.
LEMMA ReadsHeadStep ==
  ASSUME IInv, NEW h \in Handlers, ReadsHead(h)
  PROVE  IInv'
<1> DEFINE label == IF ChainAccepts(stmt[h].prev) THEN "insert" ELSE "refused"
<1> USE DEF IInv, ChainInv, DeviceInv, GrantInv
<1>0. /\ log' = log /\ enrolled' = enrolled /\ revoked' = revoked
      /\ grant' = grant /\ issued' = issued /\ stmt' = stmt
      /\ pc[h] = "head"
  BY DEF ReadsHead, At, db, grants
<1>1. /\ OneChain' /\ Dense' /\ AcceptedOnce'
      /\ RowsMatchLog' /\ SignedByAuthorized' /\ SomeDeviceLeft'
      /\ IsFiniteSet(enrolled)' /\ DeviceLimit' /\ OneDevicePerGrant'
      /\ HeadHash' = HeadHash /\ Active' = Active
  BY <1>0, TablesUnchanged DEF db
<1>2. /\ label \in {"insert", "refused"}
      /\ \A g \in Handlers : pc'[g] = IF g = h THEN label ELSE pc[g]
      /\ \A g \in Handlers : seq'[g] = IF g = h THEN NextSeq ELSE seq[g]
  BY DEF ReadsHead, Goto, TypeOK
<1>3. NextSeq \in Nat /\ log \subseteq Rows
  BY NextSeqFree DEF TypeOK
<1>4. TypeOK'
  BY <1>0, <1>2, <1>3 DEF TypeOK, ReadsHead, Goto, Labels
<1>5. OneStatementPerHash' /\ SignedOnTheLog'
  BY <1>0, <1>2 DEF OneStatementPerHash, SignedOnTheLog
<1>6. InsertsAfterPrev'
  <2> SUFFICES ASSUME NEW g \in Handlers, pc'[g] = "insert"
               PROVE  \/ seq'[g] = 0 /\ stmt[g].prev = None
                      \/ \E q \in log : q.seq = seq'[g] - 1 /\ q.hash = stmt[g].prev
    BY <1>0 DEF InsertsAfterPrev
  <2>1. CASE g # h
    BY <1>2, <2>1 DEF InsertsAfterPrev
  <2>2. CASE g = h
    <3>1. ChainAccepts(stmt[h].prev) /\ seq'[h] = NextSeq
      BY <1>2, <2>2
    <3>2. CASE log = {}
      BY <2>2, <3>1, <3>2 DEF ChainAccepts, HeadHash, NextSeq
    <3>3. CASE log # {}
      <4>1. Head \in log /\ Head.seq \in Nat
        BY <1>3, <3>3, HeadIsHead DEF IsHead, Rows
      <4>2. Head.hash = stmt[h].prev /\ NextSeq - 1 = Head.seq
        BY <3>1, <3>3, <4>1 DEF ChainAccepts, HeadHash, NextSeq
      <4> QED BY <2>2, <3>1, <4>1, <4>2
    <3> QED BY <3>2, <3>3
  <2> QED BY <2>1, <2>2
<1>7. RowsCarryStatements'
  <2>1. \A r \in log : r.device \in Handlers
    BY DEF TypeOK, Rows
  <2> QED BY <1>0, <1>2, <2>1 DEF RowsCarryStatements
<1>8. LabelsMatchKinds'
  BY <1>0, <1>2 DEF LabelsMatchKinds
<1>9. ReadsStillHold'
  BY <1>0, <1>1, <1>2 DEF ReadsStillHold, ChainAccepts, AddAllowed
<1>10. GrantsTakenOnce'
  <2>1. \A g \in Handlers : HoldsGrant(g)' => HoldsGrant(g)
    BY <1>0, <1>2 DEF HoldsGrant
  <2>2. \A g \in Handlers : pc'[g] = "take" => pc[g] = "take"
    BY <1>0, <1>2
  <2> QED BY <1>0, <2>1, <2>2 DEF GrantsTakenOnce
<1> QED BY <1>1, <1>4, <1>5, <1>6, <1>7, <1>8, <1>9, <1>10

\* GETDEL: the handler that gets its token back is the only one to hold it.
LEMMA AddTakesGrantStep ==
  ASSUME IInv, NEW h \in Handlers, AddTakesGrant(h)
  PROVE  IInv'
<1> DEFINE t == stmt[h].transfer
           label == IF grant[t] = stmt[h].token THEN "head" ELSE "unauthorized"
<1> USE DEF IInv, ChainInv, DeviceInv, GrantInv
<1>0. /\ log' = log /\ enrolled' = enrolled /\ revoked' = revoked
      /\ issued' = issued /\ stmt' = stmt /\ seq' = seq
      /\ pc[h] = "take"
  BY DEF AddTakesGrant, At, db
<1>1. /\ OneChain' /\ Dense' /\ AcceptedOnce'
      /\ RowsMatchLog' /\ SignedByAuthorized' /\ SomeDeviceLeft'
      /\ IsFiniteSet(enrolled)' /\ DeviceLimit' /\ OneDevicePerGrant'
      /\ HeadHash' = HeadHash /\ Active' = Active
  BY <1>0, TablesUnchanged DEF db
<1>2. stmt[h].kind = "add-device" /\ t \in Transfers
  BY <1>0 DEF LabelsMatchKinds
<1>3. /\ label \in {"head", "unauthorized"}
      /\ \A g \in Handlers : pc'[g] = IF g = h THEN label ELSE pc[g]
      /\ \A u \in Transfers : grant'[u] = IF u = t THEN 0 ELSE grant[u]
  BY DEF AddTakesGrant, Goto, TypeOK
<1>4. TypeOK'
  <2>1. pc' \in [Handlers -> Labels]
    BY DEF TypeOK, AddTakesGrant, Goto, Labels
  <2>2. grant' \in [Transfers -> 0..MaxGrants]
    <3>1. grant \in [Transfers -> 0..MaxGrants] /\ 0 \in 0..MaxGrants
      BY DEF TypeOK
    <3>2. grant' = [grant EXCEPT ![stmt[h].transfer] = 0]
      BY DEF AddTakesGrant
    <3> QED BY <3>1, <3>2
  <2> QED BY <1>0, <2>1, <2>2 DEF TypeOK
<1>5. OneStatementPerHash' /\ SignedOnTheLog' /\ InsertsAfterPrev'
  BY <1>0, <1>3 DEF OneStatementPerHash, SignedOnTheLog, InsertsAfterPrev
<1>6. RowsCarryStatements'
  <2>1. \A r \in log : r.device \in Handlers
    BY DEF TypeOK, Rows
  <2> QED BY <1>0, <1>3, <2>1 DEF RowsCarryStatements
<1>7. LabelsMatchKinds'
  BY <1>0, <1>3 DEF LabelsMatchKinds
<1>8. ReadsStillHold'
  BY <1>0, <1>1, <1>2, <1>3 DEF ReadsStillHold, ChainAccepts, AddAllowed
<1>9. GrantsTakenOnce'
  <2> DEFINE token(g) == stmt[g].token
  <2>1. \A g \in Handlers : token(g) \in Nat
    BY DEF TypeOK, Statements, Unsent
  <2>2. \A u \in Transfers : grant[u] \in Nat
    BY DEF TypeOK
  <2>3. \A g \in Handlers : HoldsGrant(g)' => HoldsGrant(g) \/ (g = h /\ grant[t] = token(h))
    BY <1>0, <1>3 DEF HoldsGrant
  <2>4. grant[t] = token(h) =>
          /\ token(h) # 0
          /\ \A u \in Transfers : grant'[u] # token(h)
          /\ \A g \in Handlers : HoldsGrant(g) => token(g) # token(h)
    BY <1>0, <1>2, <1>3 DEF GrantsTakenOnce
  <2>5. \A g \in Handlers : HoldsGrant(g) =>
          token(g) # 0 /\ \A u \in Transfers : grant'[u] # token(g)
    BY <1>3 DEF GrantsTakenOnce
  <2>6. \A f, g \in Handlers : HoldsGrant(f)' /\ HoldsGrant(g)' /\ token(f) = token(g) => f = g
    BY <2>3, <2>4 DEF GrantsTakenOnce
  <2>7. /\ \A u \in Transfers : grant'[u] <= issued
        /\ \A u, v \in Transfers : grant'[u] = grant'[v] /\ grant'[u] # 0 => u = v
    <3>1. issued \in Nat
      BY DEF TypeOK
    <3> QED BY <1>3, <3>1 DEF GrantsTakenOnce
  <2>8. \A g \in Handlers : pc'[g] = "take" => pc[g] = "take"
    BY <1>0, <1>3
  <2> QED BY <1>0, <2>3, <2>4, <2>5, <2>6, <2>7, <2>8 DEF GrantsTakenOnce
<1> QED BY <1>1, <1>4, <1>5, <1>6, <1>7, <1>8, <1>9

\* A new token is one nobody has.
LEMMA IssueGrantStep ==
  ASSUME IInv, NEW t \in Transfers, IssueGrant(t) \/ GrantExpires(t)
  PROVE  IInv'
<1> USE DEF IInv, ChainInv, DeviceInv, GrantInv
<1>0. /\ log' = log /\ enrolled' = enrolled /\ revoked' = revoked
      /\ stmt' = stmt /\ pc' = pc /\ seq' = seq
  BY DEF IssueGrant, GrantExpires, db
<1>1. /\ OneChain' /\ Dense' /\ AcceptedOnce'
      /\ RowsMatchLog' /\ SignedByAuthorized' /\ SomeDeviceLeft'
      /\ IsFiniteSet(enrolled)' /\ DeviceLimit' /\ OneDevicePerGrant'
      /\ HeadHash' = HeadHash /\ Active' = Active
  BY <1>0, TablesUnchanged DEF db
<1>2. /\ issued \in Nat /\ issued' \in 0..MaxGrants /\ issued <= issued'
      /\ grant' \in [Transfers -> 0..MaxGrants]
  <2>1. CASE IssueGrant(t)
    <3>1. issued \in 0..MaxGrants /\ issued < MaxGrants /\ issued' = issued + 1
      BY <2>1 DEF IssueGrant, TypeOK
    <3>2. issued + 1 \in 0..MaxGrants
      BY <3>1
    <3> QED BY <2>1, <3>1, <3>2 DEF IssueGrant, TypeOK
  <2>2. CASE GrantExpires(t)
    BY <2>2 DEF GrantExpires, TypeOK
  <2> QED BY <2>1, <2>2
<1>3. TypeOK'
  BY <1>0, <1>2 DEF TypeOK
<1>4. /\ OneStatementPerHash' /\ SignedOnTheLog' /\ InsertsAfterPrev'
      /\ RowsCarryStatements' /\ LabelsMatchKinds'
  BY <1>0 DEF OneStatementPerHash, SignedOnTheLog, InsertsAfterPrev,
              RowsCarryStatements, LabelsMatchKinds
<1>5. ReadsStillHold'
  BY <1>0, <1>1 DEF ReadsStillHold, ChainAccepts, AddAllowed
<1>6. GrantsTakenOnce'
  <2>1. \A g \in Handlers : stmt[g].token \in Nat /\ stmt[g].token <= issued
    BY DEF TypeOK, Statements, Unsent, GrantsTakenOnce
  <2>2. \A u \in Transfers : grant[u] \in Nat /\ grant[u] <= issued
    BY DEF TypeOK, GrantsTakenOnce
  <2>3. \A u \in Transfers : \/ grant'[u] = grant[u]
                             \/ u = t /\ grant'[u] = 0
                             \/ u = t /\ grant'[u] = issued + 1 /\ issued' = issued + 1
    BY DEF IssueGrant, GrantExpires, TypeOK
  <2>4. \A u \in Transfers : grant'[u] <= issued'
    BY <1>2, <2>2, <2>3
  <2>5. \A u, v \in Transfers : grant'[u] = grant'[v] /\ grant'[u] # 0 => u = v
    BY <1>2, <2>2, <2>3 DEF GrantsTakenOnce
  <2>6. \A g \in Handlers : HoldsGrant(g) =>
          \A u \in Transfers : grant'[u] # stmt[g].token
    BY <1>2, <2>1, <2>3 DEF GrantsTakenOnce
  <2>7. \A g \in Handlers : stmt[g].token <= issued'
    BY <1>2, <2>1
  <2>8. \A g \in Handlers : HoldsGrant(g)' <=> HoldsGrant(g)
    BY <1>0 DEF HoldsGrant
  <2> QED BY <1>0, <2>4, <2>5, <2>6, <2>7, <2>8 DEF GrantsTakenOnce
<1> QED BY <1>1, <1>3, <1>4, <1>5, <1>6

(***************************************************************************)
(* The client's steps.                                                     *)
(***************************************************************************)

\* A handler is sent a statement: a new one, named after the handler and built
\* on the log, or the very one another handler had answered 401 to.
LEMMA PostStep ==
  ASSUME IInv, NEW h \in Handlers, NEW s \in Statements, Post(h, s),
         \/ s.hash = h
         \/ \E g \in Handlers : pc[g] # "unsent" /\ s = stmt[g],
         IF s.kind = "genesis" THEN s.prev = None ELSE \E q \in log : q.hash = s.prev,
         s.kind # "genesis" => s.signer \in Handlers,
         s.kind = "revoke" => s.target \in Handlers \ {s.signer},
         s.kind = "add-device" => s.transfer \in Transfers,
         s.token <= issued
  PROVE  IInv'
<1> USE DEF IInv, ChainInv, DeviceInv, GrantInv
<1>0. /\ log' = log /\ enrolled' = enrolled /\ revoked' = revoked
      /\ issued' = issued /\ grant' = grant /\ seq' = seq
      /\ pc[h] = "unsent"
  BY DEF Post, At, db, grants
<1>1. /\ OneChain' /\ Dense' /\ AcceptedOnce'
      /\ RowsMatchLog' /\ SignedByAuthorized' /\ SomeDeviceLeft'
      /\ IsFiniteSet(enrolled)' /\ DeviceLimit' /\ OneDevicePerGrant'
      /\ HeadHash' = HeadHash /\ Active' = Active
  BY <1>0, TablesUnchanged DEF db
<1>2. /\ \A g \in Handlers : pc'[g] = IF g = h THEN "posted" ELSE pc[g]
      /\ \A g \in Handlers : stmt'[g] = IF g = h THEN s ELSE stmt[g]
  BY DEF Post, Goto, TypeOK
<1>3. TypeOK'
  <2>1. pc' \in [Handlers -> Labels] /\ stmt' \in [Handlers -> Statements \cup {Unsent}]
    BY DEF TypeOK, Post, Goto, Labels
  <2> QED BY <1>0, <2>1 DEF TypeOK
<1>4. stmt[h].hash = None /\ s.hash \in Handlers
  BY <1>0 DEF OneStatementPerHash, Statements
<1>5. \A g \in Handlers : stmt[g].hash # h
  BY <1>4 DEF OneStatementPerHash
<1>6. OneStatementPerHash'
  <2>1. \A g \in Handlers : stmt[g].hash \in Handlers \cup {None}
    BY DEF TypeOK, Statements, Unsent
  <2>2. stmt'[s.hash] = s
    BY <1>0, <1>2, <1>4, <1>5 DEF OneStatementPerHash
  <2>3. s.hash # None
    BY <1>4
  <2> QED BY <1>0, <1>2, <1>5, <2>1, <2>2, <2>3 DEF OneStatementPerHash
<1>7. SignedOnTheLog' /\ InsertsAfterPrev'
  BY <1>0, <1>2 DEF SignedOnTheLog, InsertsAfterPrev
<1>8. RowsCarryStatements'
  <2>1. \A r \in log : r.device \in Handlers
    BY DEF TypeOK, Rows
  <2>2. \A r \in log : r.hash # h
    BY <1>4, <1>5 DEF RowsCarryStatements
  <2>3. \A r \in log : r.kind # "revoke" => r.device # h
    BY <1>0 DEF RowsCarryStatements
  <2> QED BY <1>0, <1>2, <2>1, <2>2, <2>3 DEF RowsCarryStatements
<1>9. LabelsMatchKinds'
  BY <1>0, <1>2 DEF LabelsMatchKinds
<1>10. ReadsStillHold'
  BY <1>0, <1>1, <1>2 DEF ReadsStillHold, ChainAccepts, AddAllowed
<1>11. GrantsTakenOnce'
  <2>1. \A g \in Handlers : HoldsGrant(g)' => HoldsGrant(g) /\ g # h
    BY <1>0, <1>2 DEF HoldsGrant
  <2> QED BY <1>0, <1>2, <2>1 DEF GrantsTakenOnce
<1> QED BY <1>1, <1>3, <1>6, <1>7, <1>8, <1>9, <1>10, <1>11

(***************************************************************************)
(* The insertions, the only steps that change the tables.                  *)
(***************************************************************************)

\* What both insertions do to the log.  s is the row's seq, and the row goes
\* right after the head it was signed on.
LEMMA Appended ==
  ASSUME IInv, NEW h \in Handlers, pc[h] = "insert", ~ SeqTaken(seq[h]),
         NEW row \in Rows, log' = log \cup {row},
         row.seq = seq[h], row.hash = stmt[h].hash, row.prev = stmt[h].prev,
         row.kind = stmt[h].kind, stmt' = stmt
  PROVE  /\ \A r \in log : r.seq < row.seq /\ r.hash # row.hash
         /\ row.hash \in Handlers /\ stmt[row.hash] = stmt[h]
         /\ log = {} <=> row.kind = "genesis"
         /\ OneChain' /\ Dense' /\ AcceptedOnce'
         /\ HeadHash' = row.hash
         /\ \A g \in Handlers : pc[g] # "unsent" => ~ ChainAccepts(stmt[g].prev)'
<1> USE DEF IInv, ChainInv
<1>1. /\ seq[h] = NextSeq
      /\ log = {} <=> stmt[h].prev = None
      /\ log # {} => IsHead(Head) /\ Head.seq = seq[h] - 1 /\ Head.hash = stmt[h].prev
  BY InsertsAtHead
<1>2. seq[h] \in Nat /\ \A r \in log : r.seq \in Nat /\ r.seq < seq[h]
  BY <1>1, NextSeqFree DEF TypeOK, Rows
<1>3. row.hash \in Handlers /\ row.hash # None /\ stmt[row.hash] = stmt[h]
  BY DEF OneStatementPerHash, Rows
<1>4. log = {} <=> row.kind = "genesis"
  <2>1. \A q \in log : q.hash # None
    BY DEF TypeOK, Rows
  <2> QED BY <1>1, <2>1 DEF SignedOnTheLog
<1>5. \A r \in log : r.hash # row.hash
  <2> SUFFICES ASSUME NEW r \in log, r.hash = row.hash PROVE FALSE
    OBVIOUS
  <2>1. r.prev = stmt[h].prev
    BY <1>3 DEF RowsCarryStatements
  <2>2. IsHead(Head) /\ Head.seq = seq[h] - 1 /\ Head.hash = r.prev /\ r.prev # None
    BY <1>1, <2>1
  <2>3. PICK q \in log : q.seq = r.seq - 1 /\ q.hash = r.prev
    BY <2>2 DEF OneChain
  <2>4. Head \in log
    BY <2>2 DEF IsHead
  <2>5. q = Head
    BY <2>2, <2>3, <2>4 DEF AcceptedOnce
  <2> QED BY <1>2, <2>2, <2>3, <2>5
<1>6. AcceptedOnce'
  BY <1>5 DEF AcceptedOnce
<1>7. OneChain'
  <2>1. \A r, q \in log' : r.seq = q.seq => r = q
    BY <1>2 DEF OneChain
  <2>2. \A r \in log : IF r.seq = 0 THEN r.prev = None
                       ELSE \E q \in log' : q.seq = r.seq - 1 /\ q.hash = r.prev
    BY DEF OneChain
  <2>3. IF row.seq = 0 THEN row.prev = None
                       ELSE \E q \in log' : q.seq = row.seq - 1 /\ q.hash = row.prev
    <3>1. CASE log = {}
      BY <1>1, <3>1 DEF NextSeq
    <3>2. CASE log # {}
      <4>1. Head \in log /\ Head.seq \in Nat
        BY <1>1, <1>2, <3>2 DEF IsHead
      <4> QED BY <1>1, <1>2, <3>2, <4>1
    <3> QED BY <3>1, <3>2
  <2> QED BY <2>1, <2>2, <2>3 DEF OneChain
<1>8. IsHead(row)'
  BY <1>2 DEF IsHead
<1>9. Dense'
  <2>1. \A r \in log : \A s \in 0..r.seq : SeqTaken(s)'
    BY DEF Dense, SeqTaken
  <2>2. \A s \in 0..row.seq : SeqTaken(s)'
    <3> SUFFICES ASSUME NEW s \in 0..seq[h], s # seq[h] PROVE SeqTaken(s)'
      BY DEF SeqTaken
    <3>1. CASE log = {}
      BY <1>1, <3>1 DEF NextSeq
    <3>2. CASE log # {}
      <4>1. Head \in log /\ s \in 0..Head.seq
        BY <1>1, <1>2, <3>2 DEF IsHead
      <4> QED BY <2>1, <4>1
    <3> QED BY <3>1, <3>2
  <2>3. \E r \in log' : IsHead(r)'
    BY <1>8
  <2> QED BY <2>1, <2>2, <2>3 DEF Dense
<1>10. HeadHash' = row.hash
  <2>1. log' # {} /\ IsHead(Head)'
    BY <1>8 DEF Head, IsHead
  <2>2. Head' = row
    <3>1. Head' \in log' /\ row.seq <= Head'.seq
      BY <2>1, <1>8 DEF IsHead
    <3> QED BY <1>2, <3>1
  <2> QED BY <2>1, <2>2 DEF HeadHash
<1>11. \A g \in Handlers : pc[g] # "unsent" => ~ ChainAccepts(stmt[g].prev)'
  BY <1>3, <1>5, <1>10 DEF ChainAccepts, SignedOnTheLog
<1> QED BY <1>2, <1>3, <1>4, <1>5, <1>6, <1>7, <1>9, <1>10, <1>11

\* What an insertion leaves in order among the handlers: whoever has read the
\* tables before it was signed on an older head, and will be refused.
LEMMA InsertKeepsHandlers ==
  ASSUME IInv, NEW h \in Handlers, pc[h] = "insert", ~ SeqTaken(seq[h]),
         NEW row \in Rows, log' = log \cup {row},
         row.seq = seq[h], row.hash = stmt[h].hash, row.prev = stmt[h].prev,
         row.kind = stmt[h].kind, row.token = stmt[h].token,
         row.kind # "revoke" => row.device = h,
         Goto(h, "done"), UNCHANGED << grants, stmt, seq >>
  PROVE  /\ OneStatementPerHash' /\ SignedOnTheLog' /\ InsertsAfterPrev'
         /\ RowsCarryStatements' /\ LabelsMatchKinds' /\ ReadsStillHold'
         /\ GrantsTakenOnce'
<1> USE DEF IInv, ChainInv, DeviceInv, GrantInv
<1>0. grant' = grant /\ issued' = issued /\ stmt' = stmt /\ seq' = seq
  BY DEF grants
<1>1. \A g \in Handlers : pc'[g] = IF g = h THEN "done" ELSE pc[g]
  BY DEF Goto, TypeOK
<1>2. /\ row.hash \in Handlers /\ stmt[row.hash] = stmt[h]
      /\ \A g \in Handlers : pc[g] # "unsent" => ~ ChainAccepts(stmt[g].prev)'
  BY <1>0, Appended
<1>3. OneStatementPerHash' /\ SignedOnTheLog' /\ InsertsAfterPrev'
  BY <1>0, <1>1 DEF OneStatementPerHash, SignedOnTheLog, InsertsAfterPrev
<1>4. RowsCarryStatements'
  <2>1. \A r \in log : r.device \in Handlers
    BY DEF TypeOK, Rows
  <2> QED BY <1>0, <1>1, <1>2, <2>1 DEF RowsCarryStatements
<1>5. LabelsMatchKinds'
  BY <1>0, <1>1 DEF LabelsMatchKinds
<1>6. ReadsStillHold'
  <2>1. \A g \in Handlers :
          pc'[g] \in {"grant", "take", "signer", "head", "insert"} => pc[g] # "unsent"
    BY <1>1
  <2> QED BY <1>0, <1>2, <2>1 DEF ReadsStillHold
<1>7. GrantsTakenOnce'
  <2>1. \A g \in Handlers : HoldsGrant(g)' <=> HoldsGrant(g)
    BY <1>0, <1>1 DEF HoldsGrant
  <2>2. \A g \in Handlers : pc'[g] = "take" => pc[g] = "take"
    BY <1>1
  <2> QED BY <1>0, <2>1, <2>2 DEF GrantsTakenOnce
<1> QED BY <1>3, <1>4, <1>5, <1>6, <1>7

\* A device that is enrolled by h is new, and the log grows with a row of it.
LEMMA InsertDeviceStep ==
  ASSUME IInv, NEW h \in Handlers, InsertDevice(h)
  PROVE  /\ IInv'
         /\ h \notin enrolled
         /\ IF stmt[h].kind = "genesis" THEN enrolled = {}
            ELSE stmt[h].signer \in Active /\ Cardinality(Active) < MaxDevices
<1> DEFINE signer == IF stmt[h].kind = "genesis" THEN h ELSE stmt[h].signer
<1> PICK row : row = Row(h, signer, h)
  OBVIOUS
<1> USE DEF IInv, ChainInv, DeviceInv, GrantInv
<1>0. /\ log' = log \cup {row} /\ enrolled' = enrolled \cup {h} /\ revoked' = revoked
      /\ grant' = grant /\ issued' = issued /\ stmt' = stmt /\ seq' = seq
      /\ pc[h] = "insert" /\ stmt[h].kind # "revoke" /\ ~ SeqTaken(seq[h])
      /\ Goto(h, "done")
  BY DEF InsertDevice, At, grants
<1>1. /\ row.seq = seq[h] /\ row.kind = stmt[h].kind /\ row.hash = stmt[h].hash
      /\ row.prev = stmt[h].prev /\ row.signer = signer /\ row.device = h
      /\ row.token = stmt[h].token
  BY DEF Row
<1>2. row \in Rows
  <2>1. stmt[h] \in Statements
    BY <1>0 DEF TypeOK, OneStatementPerHash, Unsent
  <2>2. stmt[h].hash \in Handlers /\ signer \in Handlers
    BY <1>0, <2>1 DEF LabelsMatchKinds, Statements
  <2>3. seq[h] \in Nat
    BY DEF TypeOK
  <2> HIDE DEF IInv, ChainInv, DeviceInv, GrantInv, signer
  <2> QED BY <2>1, <2>2, <2>3 DEF Row, Rows, Statements
<1>3. /\ OneStatementPerHash' /\ SignedOnTheLog' /\ InsertsAfterPrev'
      /\ RowsCarryStatements' /\ LabelsMatchKinds' /\ ReadsStillHold'
      /\ GrantsTakenOnce'
  BY <1>0, <1>1, <1>2, InsertKeepsHandlers DEF grants
<1>4. /\ \A r \in log : r.seq < row.seq /\ r.hash # row.hash
      /\ log = {} <=> row.kind = "genesis"
      /\ OneChain' /\ Dense' /\ AcceptedOnce'
  BY <1>0, <1>1, <1>2, Appended
<1>5. ChainAccepts(stmt[h].prev)
  BY <1>0, InsertsAtHead
<1>6. h \notin enrolled
  <2>1. \A r \in log : r.kind # "revoke" => r.device # h
    BY <1>0 DEF RowsCarryStatements
  <2> QED BY <2>1 DEF RowsMatchLog
<1>7. log = {} => enrolled = {} /\ revoked = {}
  BY DEF RowsMatchLog
<1>8. stmt[h].kind # "genesis" =>
        /\ stmt[h].kind = "add-device" /\ signer = stmt[h].signer
        /\ signer \in Active /\ Cardinality(Active) < MaxDevices
  <2>1. stmt[h].kind \in Kinds
    BY DEF TypeOK, Statements, Unsent, Kinds
  <2> QED BY <1>0, <1>5, <2>1 DEF ReadsStillHold, AddAllowed, Kinds
<1>9. Active' = Active \cup {h} /\ h \notin Active
  BY <1>0, <1>6 DEF Active, TypeOK
<1>10. TypeOK'
  <2>1. pc' \in [Handlers -> Labels]
    BY <1>0 DEF TypeOK, Goto, Labels
  <2> QED BY <1>0, <1>2, <2>1 DEF TypeOK
<1>11. RowsMatchLog'
  <2>1. \A d : d \in enrolled' <=> \E r \in log' : r.kind # "revoke" /\ r.device = d
    BY <1>0, <1>1 DEF RowsMatchLog
  <2>2. \A d : d \in revoked' <=> \E r \in log' : r.kind = "revoke" /\ r.device = d
    BY <1>0, <1>1 DEF RowsMatchLog
  <2> QED BY <2>1, <2>2 DEF RowsMatchLog
<1>12. SignedByAuthorized'
  <2>0. log \subseteq Rows /\ row.seq \in Nat /\ \A r \in log : r.seq \in Nat
    BY <1>2 DEF TypeOK, Rows
  <2>2. ASSUME NEW r \in log, r.kind # "genesis"
        PROVE  AuthorizedAt(r.signer, r.seq)'
    BY <1>0, <1>4, <2>0, <2>2 DEF SignedByAuthorized, AuthorizedAt
  <2>3. ASSUME row.kind # "genesis"
        PROVE  AuthorizedAt(row.signer, row.seq)'
    <3>1. signer \in enrolled /\ signer \notin revoked
      BY <1>1, <1>8, <2>3 DEF Active
    <3>2. \E q \in log : q.kind # "revoke" /\ q.device = signer
      BY <3>1 DEF RowsMatchLog
    <3>3. \A q \in log : ~ (q.kind = "revoke" /\ q.device = signer)
      BY <3>1 DEF RowsMatchLog
    <3> QED BY <1>0, <1>1, <1>4, <2>0, <3>2, <3>3 DEF AuthorizedAt
  <2> QED BY <1>0, <2>2, <2>3 DEF SignedByAuthorized
<1>13. SomeDeviceLeft'
  BY <1>9 DEF SomeDeviceLeft
<1>14. IsFiniteSet(enrolled)'
  BY <1>0, FS_AddElement
<1>15. DeviceLimit'
  <2>1. IsFiniteSet(Active)
    BY FS_Subset DEF Active
  <2>2. Cardinality(Active \cup {h}) = Cardinality(Active) + 1
    BY <1>9, <2>1, FS_AddElement
  <2>3. Cardinality(Active) \in Nat
    BY <2>1, FS_CardinalityType
  <2>4. CASE stmt[h].kind = "genesis"
    <3>1. Active = {}
      BY <1>1, <1>4, <1>7, <2>4 DEF Active
    <3>2. Cardinality(Active) = 0
      BY <3>1, FS_EmptySet
    <3> QED BY <1>9, <2>2, <3>2 DEF DeviceLimit
  <2>5. CASE stmt[h].kind # "genesis"
    BY <1>8, <1>9, <2>2, <2>3, <2>5 DEF DeviceLimit
  <2> QED BY <2>4, <2>5
<1>16. OneDevicePerGrant'
  <2>1. ASSUME NEW r \in log, r.kind = "add-device", row.kind = "add-device",
               r.token = row.token
        PROVE  FALSE
    <3>1. r.device \in Handlers
      BY DEF TypeOK, Rows
    <3>2. /\ pc[r.device] = "done" /\ stmt[r.device].kind = "add-device"
          /\ stmt[r.device].token = r.token
      BY <2>1 DEF RowsCarryStatements
    <3>3. HoldsGrant(r.device) /\ HoldsGrant(h)
      BY <1>0, <1>1, <2>1, <3>2 DEF HoldsGrant
    <3>4. r.device = h
      BY <1>1, <2>1, <3>1, <3>2, <3>3 DEF GrantsTakenOnce
    <3> QED BY <1>0, <3>2, <3>4
  <2> QED BY <1>0, <2>1 DEF OneDevicePerGrant
<1>17. stmt[h].kind = "genesis" => enrolled = {}
  BY <1>1, <1>4, <1>7
<1>18. IInv'
  BY <1>3, <1>4, <1>10, <1>11, <1>12, <1>13, <1>14, <1>15, <1>16
<1> QED BY <1>6, <1>8, <1>17, <1>18

\* A device is revoked by another one that is still active, and stays so.
LEMMA InsertRevocationStep ==
  ASSUME IInv, NEW h \in Handlers, InsertRevocation(h)
  PROVE  /\ IInv'
         /\ stmt[h].target # stmt[h].signer
         /\ stmt[h].target \in Active /\ stmt[h].signer \in Active
         /\ revoked' = revoked \cup {stmt[h].target} /\ enrolled' = enrolled
<1> USE DEF IInv, ChainInv, DeviceInv, GrantInv
<1> PICK row : row = Row(h, stmt[h].signer, stmt[h].target)
  OBVIOUS
<1> DEFINE signer == stmt[h].signer
           other == stmt[h].target
<1>0. /\ log' = log \cup {row} /\ enrolled' = enrolled
      /\ revoked' = revoked \cup ({other} \cap enrolled)
      /\ grant' = grant /\ issued' = issued /\ stmt' = stmt /\ seq' = seq
      /\ pc[h] = "insert" /\ stmt[h].kind = "revoke" /\ ~ SeqTaken(seq[h])
      /\ Goto(h, "done")
  BY DEF InsertRevocation, At, grants
<1>1. /\ row.seq = seq[h] /\ row.kind = "revoke" /\ row.hash = stmt[h].hash
      /\ row.prev = stmt[h].prev /\ row.signer = signer /\ row.device = other
      /\ row.token = stmt[h].token
  BY <1>0 DEF Row
<1>2. signer \in Handlers /\ other \in Handlers /\ other # signer
  BY <1>0 DEF LabelsMatchKinds
<1>3. row \in Rows
  <2>1. stmt[h] \in Statements
    BY <1>0 DEF TypeOK, OneStatementPerHash, Unsent
  <2>2. stmt[h].hash \in Handlers
    BY <1>0, <2>1 DEF OneStatementPerHash, Statements, NullHash
  <2>3. seq[h] \in Nat
    BY DEF TypeOK
  <2> HIDE DEF IInv, ChainInv, DeviceInv, GrantInv
  <2> QED BY <1>2, <2>1, <2>2, <2>3 DEF Row, Rows, Statements
<1>4. /\ OneStatementPerHash' /\ SignedOnTheLog' /\ InsertsAfterPrev'
      /\ RowsCarryStatements' /\ LabelsMatchKinds' /\ ReadsStillHold'
      /\ GrantsTakenOnce'
  BY <1>0, <1>1, <1>3, InsertKeepsHandlers DEF grants
<1>5. /\ \A r \in log : r.seq < row.seq
      /\ OneChain' /\ Dense' /\ AcceptedOnce'
  BY <1>0, <1>1, <1>3, Appended
<1>6. ChainAccepts(stmt[h].prev)
  BY <1>0, InsertsAtHead
<1>7. signer \in Active /\ other \in Active
  BY <1>0, <1>6 DEF ReadsStillHold
<1>8. revoked' = revoked \cup {other} /\ Active' = Active \ {other}
  BY <1>0, <1>7 DEF Active
<1>9. TypeOK'
  <2>1. pc' \in [Handlers -> Labels]
    BY <1>0 DEF TypeOK, Goto, Labels
  <2> QED BY <1>0, <1>3, <2>1 DEF TypeOK
<1>10. RowsMatchLog'
  <2>1. \A d : d \in enrolled' <=> \E r \in log' : r.kind # "revoke" /\ r.device = d
    BY <1>0, <1>1 DEF RowsMatchLog
  <2>2. \A d : d \in revoked' <=> \E r \in log' : r.kind = "revoke" /\ r.device = d
    BY <1>0, <1>1, <1>8 DEF RowsMatchLog
  <2> QED BY <2>1, <2>2 DEF RowsMatchLog
<1>11. SignedByAuthorized'
  <2>0. row.seq \in Nat /\ \A r \in log : r.seq \in Nat
    BY <1>3 DEF TypeOK, Rows
  <2>1. ASSUME NEW r \in log, r.kind # "genesis"
        PROVE  AuthorizedAt(r.signer, r.seq)'
    BY <1>0, <1>5, <2>0, <2>1 DEF SignedByAuthorized, AuthorizedAt
  <2>2. AuthorizedAt(row.signer, row.seq)'
    <3>1. signer \in enrolled /\ signer \notin revoked
      BY <1>7 DEF Active
    <3>2. \E q \in log : q.kind # "revoke" /\ q.device = signer
      BY <3>1 DEF RowsMatchLog
    <3>3. \A q \in log : ~ (q.kind = "revoke" /\ q.device = signer)
      BY <3>1 DEF RowsMatchLog
    <3> QED BY <1>0, <1>1, <1>5, <2>0, <3>2, <3>3 DEF AuthorizedAt
  <2> QED BY <1>0, <2>1, <2>2 DEF SignedByAuthorized
<1>12. SomeDeviceLeft'
  BY <1>2, <1>7, <1>8 DEF SomeDeviceLeft
<1>13. IsFiniteSet(enrolled)'
  BY <1>0
<1>14. DeviceLimit'
  <2>1. IsFiniteSet(Active)
    BY FS_Subset DEF Active
  <2>2. IsFiniteSet(Active') /\ Cardinality(Active') <= Cardinality(Active)
    BY <1>8, <2>1, FS_Subset
  <2>3. Cardinality(Active) \in Nat /\ Cardinality(Active') \in Nat
    BY <2>1, <2>2, FS_CardinalityType
  <2> QED BY <2>2, <2>3 DEF DeviceLimit
<1>15. OneDevicePerGrant'
  BY <1>0, <1>1 DEF OneDevicePerGrant
<1>16. IInv'
  BY <1>4, <1>5, <1>9, <1>10, <1>11, <1>12, <1>13, <1>14, <1>15
<1> QED BY <1>0, <1>2, <1>7, <1>8, <1>16

(***************************************************************************)
(* The inductive invariant.                                                *)
(***************************************************************************)

\* Nothing is stored and nothing was sent.
LEMMA InitInv == Init => IInv
<1> SUFFICES ASSUME Init PROVE IInv
  OBVIOUS
<1> USE DEF Init
<1>1. Active = {} /\ IsFiniteSet(enrolled) /\ Cardinality(Active) = 0
  BY FS_EmptySet DEF Active
<1>2. None \notin Handlers
  OBVIOUS
<1>3. TypeOK
  BY DEF TypeOK, Labels
<1>4. OneChain /\ Dense /\ AcceptedOnce /\ OneDevicePerGrant
  BY DEF OneChain, Dense, AcceptedOnce, OneDevicePerGrant
<1>5. OneStatementPerHash /\ SignedOnTheLog /\ RowsCarryStatements /\ InsertsAfterPrev
  BY DEF OneStatementPerHash, SignedOnTheLog, RowsCarryStatements, InsertsAfterPrev, Unsent
<1>6. RowsMatchLog /\ SignedByAuthorized /\ SomeDeviceLeft /\ DeviceLimit
  BY <1>1 DEF RowsMatchLog, SignedByAuthorized, SomeDeviceLeft, DeviceLimit
<1>7. LabelsMatchKinds /\ ReadsStillHold
  BY DEF LabelsMatchKinds, ReadsStillHold, Unsent
<1>8. GrantsTakenOnce
  BY DEF GrantsTakenOnce, HoldsGrant, Unsent
<1> QED BY <1>1, <1>3, <1>4, <1>5, <1>6, <1>7, <1>8
        DEF IInv, ChainInv, DeviceInv, GrantInv

\* The head an account with devices has is an entry of its log.
LEMMA HeadIsInLog ==
  ASSUME IInv, enrolled # {}
  PROVE  \E q \in log : q.hash = HeadHash
<1>1. log # {}
  BY DEF IInv, DeviceInv, RowsMatchLog
<1>2. Head \in log
  BY <1>1, HeadIsHead DEF IInv, ChainInv, IsHead
<1> QED BY <1>1, <1>2 DEF HeadHash

\* Every client action sends a statement PostStep takes.
LEMMA ClientStep ==
  ASSUME IInv, NEW h \in Handlers, Client(h)
  PROVE  IInv'
<1>0. /\ issued \in 0..MaxGrants /\ enrolled \subseteq Handlers
      /\ \A g \in Handlers : stmt[g] \in Statements \cup {Unsent} /\ stmt[g].token <= issued
  BY DEF IInv, ChainInv, GrantInv, TypeOK, GrantsTakenOnce
<1>1. CASE PostGenesis(h)
  <2> PICK s : s = [ kind |-> "genesis", hash |-> h, prev |-> None, signer |-> None,
                     target |-> None, transfer |-> None, token |-> 0 ]
    OBVIOUS
  <2>1. /\ s \in Statements
        /\ s.hash = h /\ s.kind = "genesis" /\ s.prev = None /\ s.token = 0
    BY <1>0 DEF Statements, Kinds, NullHash
  <2>2. Post(h, s)
    BY <1>1 DEF PostGenesis
  <2> QED BY <1>0, <2>1, <2>2, PostStep
<1>2. ASSUME NEW signer \in enrolled, NEW t \in Transfers, NEW token \in 1..issued,
             PostAddDevice(h, signer, t, token)
      PROVE  IInv'
  <2> PICK s : s = [ kind |-> "add-device", hash |-> h, prev |-> HeadHash,
                     signer |-> signer, target |-> None,
                     transfer |-> t, token |-> token ]
    OBVIOUS
  <2>1. PICK q \in log : q.hash = HeadHash
    BY <1>2, HeadIsInLog
  <2>2. HeadHash \in Handlers
    BY <2>1 DEF IInv, ChainInv, TypeOK, Rows
  <2>3. s \in Statements
    BY <1>0, <2>2 DEF Statements, Kinds, NullHash
  <2>4. Post(h, s)
    BY <1>2 DEF PostAddDevice
  <2>5. /\ s.hash = h /\ s.kind = "add-device" /\ s.prev = HeadHash
        /\ s.signer \in Handlers /\ s.transfer \in Transfers /\ s.token <= issued
    BY <1>0
  <2> QED BY <2>1, <2>3, <2>4, <2>5, PostStep
<1>3. ASSUME NEW signer \in enrolled, NEW other \in enrolled,
             PostRevoke(h, signer, other)
      PROVE  IInv'
  <2> PICK s : s = [ kind |-> "revoke", hash |-> h, prev |-> HeadHash,
                     signer |-> signer, target |-> other,
                     transfer |-> None, token |-> 0 ]
    OBVIOUS
  <2>1. PICK q \in log : q.hash = HeadHash
    BY <1>3, HeadIsInLog
  <2>2. HeadHash \in Handlers
    BY <2>1 DEF IInv, ChainInv, TypeOK, Rows
  <2>3. s \in Statements
    BY <1>0, <2>2 DEF Statements, Kinds, NullHash
  <2>4. Post(h, s) /\ signer # other
    BY <1>3 DEF PostRevoke
  <2>5. /\ s.hash = h /\ s.kind = "revoke" /\ s.prev = HeadHash
        /\ s.signer \in Handlers /\ s.target \in Handlers \ {s.signer}
        /\ s.token <= issued
    BY <1>0, <2>4
  <2> QED BY <2>1, <2>3, <2>4, <2>5, PostStep
<1>4. ASSUME NEW again \in Handlers, Resend(h, again)
      PROVE  IInv'
  <2> PICK s : s = stmt[h]
    OBVIOUS
  <2>1. Post(again, s) /\ pc[h] = "unauthorized"
    BY <1>4 DEF Resend, At
  <2>2. s \in Statements
    BY <1>0, <2>1 DEF IInv, ChainInv, OneStatementPerHash, Unsent
  <2>3. /\ IF s.kind = "genesis" THEN s.prev = None ELSE \E q \in log : q.hash = s.prev
        /\ s.kind # "genesis" => s.signer \in Handlers
        /\ s.kind = "revoke" => s.target \in Handlers \ {s.signer}
        /\ s.kind = "add-device" => s.transfer \in Transfers
    BY <2>1 DEF IInv, ChainInv, DeviceInv, SignedOnTheLog, LabelsMatchKinds
  <2> QED BY <1>0, <2>1, <2>2, <2>3, PostStep
<1> QED BY <1>1, <1>2, <1>3, <1>4 DEF Client

\* And every step of a handler keeps the invariant.
LEMMA ServerStep ==
  ASSUME IInv, NEW h \in Handlers, Server(h)
  PROVE  IInv'
<1> USE DEF ReadThen, Answer, At, Labels
<1>0. stmt[h].hash # None => stmt[h] \in Statements
  BY DEF IInv, ChainInv, TypeOK, Unsent
<1>1. CASE GenesisReadsDevices(h)
  BY <1>1, LabelMoves DEF GenesisReadsDevices
<1>2. CASE AddReadsDevices(h)
  BY <1>2, LabelMoves DEF AddReadsDevices
<1>3. CASE AddReadsGrant(h)
  <2>1. stmt[h].kind = "add-device" /\ (ChainAccepts(stmt[h].prev) => AddAllowed(h))
    BY <1>3 DEF AddReadsGrant, IInv, DeviceInv, LabelsMatchKinds, ReadsStillHold
  <2> QED BY <1>3, <2>1, LabelMoves DEF AddReadsGrant
<1>4. CASE AddTakesGrant(h)
  BY <1>4, AddTakesGrantStep
<1>5. CASE RevokeReadsTarget(h)
  BY <1>5, LabelMoves DEF RevokeReadsTarget
<1>6. CASE RevokeReadsSigner(h)
  <2>1. /\ stmt[h].kind = "revoke"
        /\ ChainAccepts(stmt[h].prev) => stmt[h].target \in Active
    BY <1>6 DEF RevokeReadsSigner, IInv, DeviceInv, LabelsMatchKinds, ReadsStillHold
  <2> QED BY <1>6, <2>1, LabelMoves DEF RevokeReadsSigner
<1>7. CASE ReadsHead(h)
  BY <1>7, ReadsHeadStep
<1>8. CASE SeqConflict(h)
  BY <1>8, LabelMoves DEF SeqConflict
<1>9. CASE InsertDevice(h)
  BY <1>9, InsertDeviceStep
<1>10. CASE InsertRevocation(h)
  BY <1>10, InsertRevocationStep
<1> QED BY <1>1, <1>2, <1>3, <1>4, <1>5, <1>6, <1>7, <1>8, <1>9, <1>10 DEF Server

\* IInv is inductive.
LEMMA NextInv == IInv /\ [Next]_vars => IInv'
<1> SUFFICES ASSUME IInv, [Next]_vars PROVE IInv'
  OBVIOUS
<1>1. CASE UNCHANGED vars
  <2>1. /\ log' = log /\ enrolled' = enrolled /\ revoked' = revoked
        /\ grant' = grant /\ issued' = issued /\ stmt' = stmt /\ pc' = pc /\ seq' = seq
    BY <1>1 DEF vars
  <2>2. /\ OneChain' /\ Dense' /\ AcceptedOnce'
        /\ RowsMatchLog' /\ SignedByAuthorized' /\ SomeDeviceLeft'
        /\ IsFiniteSet(enrolled)' /\ DeviceLimit' /\ OneDevicePerGrant'
        /\ HeadHash' = HeadHash /\ Active' = Active
    BY <2>1, TablesUnchanged DEF db
  <2> QED BY <2>1, <2>2
          DEF IInv, ChainInv, DeviceInv, GrantInv, TypeOK, OneStatementPerHash,
              SignedOnTheLog, RowsCarryStatements, InsertsAfterPrev,
              LabelsMatchKinds, ReadsStillHold, ChainAccepts, AddAllowed,
              GrantsTakenOnce, HoldsGrant
<1>2. ASSUME NEW h \in Handlers, Server(h) PROVE IInv'
  BY <1>2, ServerStep
<1>3. ASSUME NEW h \in Handlers, Client(h) PROVE IInv'
  BY <1>3, ClientStep
<1>4. ASSUME NEW t \in Transfers, IssueGrant(t) \/ GrantExpires(t) PROVE IInv'
  BY <1>4, IssueGrantStep
<1> QED BY <1>1, <1>2, <1>3, <1>4 DEF Next

\* Every state a client or a handler can bring the account to satisfies the
\* inductive invariant.
THEOREM InductiveInvariant == Spec => []IInv
BY InitInv, NextInv, PTL DEF Spec

(***************************************************************************)
(* The properties.                                                         *)
(***************************************************************************)

\* The tables, the Redis keys and the handlers' locals hold what they should.
THEOREM TypeCorrect == Spec => []TypeOK
<1>1. IInv => TypeOK
  BY DEF IInv, ChainInv
<1> QED BY <1>1, InductiveInvariant, PTL

\* The log is one hash chain without gaps, whatever requests race.
THEOREM ChainIsOne == Spec => []OneChain
<1>1. IInv => OneChain
  BY DEF IInv, ChainInv
<1> QED BY <1>1, InductiveInvariant, PTL

\* No entry is signed by a device that had been revoked by then.
THEOREM SignersAuthorized == Spec => []SignedByAuthorized
<1>1. IInv => SignedByAuthorized
  BY DEF IInv, DeviceInv
<1> QED BY <1>1, InductiveInvariant, PTL

\* No race of revocations takes the last device from an account.
THEOREM NeverLockedOut == Spec => []SomeDeviceLeft
<1>1. IInv => SomeDeviceLeft
  BY DEF IInv, DeviceInv
<1> QED BY <1>1, InductiveInvariant, PTL

\* No race of additions exceeds MAX_DEVICES_PER_USER.
THEOREM LimitHolds == Spec => []DeviceLimit
<1>1. IInv => DeviceLimit
  BY DEF IInv, DeviceInv
<1> QED BY <1>1, InductiveInvariant, PTL

\* One second-factor code, one device.
THEOREM GrantsAreSingleUse == Spec => []OneDevicePerGrant
<1>1. IInv => OneDevicePerGrant
  BY DEF IInv, GrantInv
<1> QED BY <1>1, InductiveInvariant, PTL

\* The Device table and the log never disagree.
THEOREM TablesAgree == Spec => []RowsMatchLog
<1>1. IInv => RowsMatchLog
  BY DEF IInv, DeviceInv
<1> QED BY <1>1, InductiveInvariant, PTL

\* A request that is sent again is not carried out again.
THEOREM NoReplay == Spec => []AcceptedOnce
<1>1. IInv => AcceptedOnce
  BY DEF IInv, ChainInv
<1> QED BY <1>1, InductiveInvariant, PTL

\* Whatever a step does, it writes the tables by one of the two insertions.
LEMMA OnlyInsertionsWrite ==
  ASSUME [Next]_vars
  PROVE  \/ UNCHANGED db
         \/ \E h \in Handlers : InsertDevice(h) \/ InsertRevocation(h)
<1>1. ASSUME NEW h \in Handlers, Client(h) PROVE UNCHANGED db
  BY <1>1 DEF Client, PostGenesis, PostAddDevice, PostRevoke, Resend, Post
<1>2. ASSUME NEW t \in Transfers, IssueGrant(t) \/ GrantExpires(t) PROVE UNCHANGED db
  BY <1>2 DEF IssueGrant, GrantExpires
<1>3. ASSUME NEW h \in Handlers, Server(h)
      PROVE  UNCHANGED db \/ InsertDevice(h) \/ InsertRevocation(h)
  BY <1>3 DEF Server, GenesisReadsDevices, AddReadsDevices, AddReadsGrant, AddTakesGrant,
              RevokeReadsTarget, RevokeReadsSigner, ReadsHead, SeqConflict, ReadThen, Answer
<1>4. CASE UNCHANGED vars
  BY <1>4 DEF vars, db
<1> QED BY <1>1, <1>2, <1>3, <1>4 DEF Next

\* No entry is ever removed, rewritten or overtaken.
THEOREM LogAppendOnly == Spec => AppendOnly
<1> DEFINE Grows == /\ log \subseteq log'
                    /\ \A r \in log' \ log : \A q \in log : q.seq < r.seq
<1>1. ASSUME IInv, [Next]_vars PROVE Grows
  <2>1. CASE UNCHANGED db
    BY <2>1 DEF db
  <2>2. ASSUME NEW h \in Handlers, InsertDevice(h) \/ InsertRevocation(h)
        PROVE  Grows
    <3>1. /\ pc[h] = "insert" /\ ~ SeqTaken(seq[h])
          /\ \E signer, device : log' = log \cup {Row(h, signer, device)}
      BY <2>2 DEF InsertDevice, InsertRevocation, At
    <3>2. \A q \in log : q.seq < seq[h]
      BY <1>1, <3>1, InsertsAtHead, NextSeqFree DEF IInv, ChainInv, TypeOK
    <3> QED BY <3>1, <3>2 DEF Row
  <2> QED BY <1>1, <2>1, <2>2, OnlyInsertionsWrite
<1> QED BY <1>1, InductiveInvariant, PTL DEF Spec, AppendOnly

\* The interleaved handlers implement the registry that decides and acts in
\* one step: an insertion is the registry's step, everything else a stutter.
THEOREM Refinement == Spec => ImplementsRegistry
<1>1. Init => Registry!Init
  BY DEF Init, Registry!Init
<1>2. ASSUME IInv, [Next]_vars
      PROVE  [Registry!Next]_<< enrolled, revoked >>
  <2>0. Registry!Active = Active
    BY DEF Registry!Active, Active
  <2>00. Registry!Cardinality(Active) = Cardinality(Active)
    BY DEF Registry!Cardinality, Cardinality
  <2>1. CASE UNCHANGED db
    BY <2>1 DEF db
  <2>2. ASSUME NEW h \in Handlers, InsertDevice(h)
        PROVE  Registry!Next
    <3>1. /\ h \notin enrolled
          /\ IF stmt[h].kind = "genesis" THEN enrolled = {}
             ELSE stmt[h].signer \in Active /\ Cardinality(Active) < MaxDevices
      BY <1>2, <2>2, InsertDeviceStep
    <3>2. enrolled' = enrolled \cup {h} /\ revoked' = revoked
      BY <2>2 DEF InsertDevice
    <3>3. CASE stmt[h].kind = "genesis"
      <4>1. Registry!Found(h)
        BY <3>1, <3>2, <3>3 DEF Registry!Found
      <4> QED BY <4>1 DEF Registry!Next
    <3>4. CASE stmt[h].kind # "genesis"
      <4>1. stmt[h].signer \in Handlers
        BY <1>2, <3>1, <3>4 DEF Active, IInv, ChainInv, TypeOK
      <4>2. Registry!Add(h, stmt[h].signer)
        BY <2>0, <2>00, <3>1, <3>2, <3>4 DEF Registry!Add
      <4> QED BY <4>1, <4>2 DEF Registry!Next
    <3> QED BY <3>3, <3>4
  <2>3. ASSUME NEW h \in Handlers, InsertRevocation(h)
        PROVE  Registry!Next
    <3>1. /\ stmt[h].target # stmt[h].signer
          /\ stmt[h].target \in Active /\ stmt[h].signer \in Active
          /\ revoked' = revoked \cup {stmt[h].target} /\ enrolled' = enrolled
      BY <1>2, <2>3, InsertRevocationStep
    <3>2. stmt[h].target \in Handlers /\ stmt[h].signer \in Handlers
      BY <1>2, <3>1 DEF Active, IInv, ChainInv, TypeOK
    <3>3. Registry!Revoke(stmt[h].target, stmt[h].signer)
      BY <2>0, <3>1 DEF Registry!Revoke
    <3> QED BY <3>2, <3>3 DEF Registry!Next
  <2> QED BY <1>2, <2>1, <2>2, <2>3, OnlyInsertionsWrite
<1> QED BY <1>1, <1>2, InductiveInvariant, PTL DEF Spec, ImplementsRegistry, Registry!Spec

-----------------------------------------------------------------------------
(***************************************************************************)
(* KeyErasure: the rows of requests.                                       *)
(***************************************************************************)
USE ErasersAssumption

\* The rows of requests, whose fields the steps below take apart.
RequestRows == [ made : BOOLEAN, due : BOOLEAN, cancelled : BOOLEAN,
                 aborted : BOOLEAN, executed : BOOLEAN, seen : SUBSET Handlers ]

\* Noting who was seen changes no other field of a row.
SeenRows(D) ==
  /\ SeenBy(D) \in [Requests -> RequestRows]
  /\ \A q \in Requests :
       /\ SeenBy(D)[q].made      = request[q].made
       /\ SeenBy(D)[q].due       = request[q].due
       /\ SeenBy(D)[q].cancelled = request[q].cancelled
       /\ SeenBy(D)[q].aborted   = request[q].aborted
       /\ SeenBy(D)[q].executed  = request[q].executed
       /\ ~ request[q].made => SeenBy(D)[q] = Absent

\* SeenBy does what its rows say of it, whoever was seen.
LEMMA SeenByTyped ==
  ASSUME FilingInv, NEW D \in SUBSET Handlers
  PROVE  SeenRows(D)
<1>1. request \in [Requests -> RequestRows]
  BY DEF FilingInv, FilingTypeOK, RequestRows
<1>2. Absent \in RequestRows
  BY DEF Absent, RequestRows
<1>3. ASSUME NEW p \in Requests
      PROVE  [request[p] EXCEPT !.seen = @ \cup D] \in RequestRows
  <2>1. request[p] \in RequestRows
    BY <1>1
  <2> QED BY <2>1 DEF RequestRows
<1>4. SeenBy(D) \in [Requests -> RequestRows]
  BY <1>2, <1>3 DEF SeenBy
<1>5. ASSUME NEW q \in Requests
      PROVE  /\ SeenBy(D)[q].made      = request[q].made
             /\ SeenBy(D)[q].due       = request[q].due
             /\ SeenBy(D)[q].cancelled = request[q].cancelled
             /\ SeenBy(D)[q].aborted   = request[q].aborted
             /\ SeenBy(D)[q].executed  = request[q].executed
             /\ ~ request[q].made => SeenBy(D)[q] = Absent
  <2>1. SeenBy(D)[q] = IF request[q].made
                       THEN [request[q] EXCEPT !.seen = @ \cup D] ELSE Absent
    BY DEF SeenBy
  <2>2. request[q] \in RequestRows
    BY <1>1
  <2>3. ~ request[q].made => request[q] = Absent
    BY DEF FilingInv
  <2> QED BY <2>1, <2>2, <2>3 DEF RequestRows
<1> QED BY <1>4, <1>5 DEF SeenRows

\* A step that only sets timestamps, of rows that are there and whose mail is
\* not on its way, keeps the invariant.
LEMMA OnlyTimestamps ==
  ASSUME FilingInv, rpc' = rpc, target' \in {target, None},
         enrolled' \subseteq Handlers,
         request' \in [Requests -> RequestRows],
         \A q \in Requests :
           /\ request'[q].made = request[q].made
           /\ request'[q].due  = request[q].due
           /\ ~ request[q].made => request'[q] = Absent
           /\ request[q].cancelled => request'[q].cancelled
           /\ request[q].aborted   => request'[q].aborted
           /\ request[q].executed  => request'[q].executed
  PROVE  FilingInv'
<1>1. FilingTypeOK'
  BY DEF FilingInv, FilingTypeOK, RequestRows
<1>2. OnePending'
  BY DEF FilingInv, OnePending, Pending
<1> QED BY <1>1, <1>2 DEF FilingInv

\* A step that leaves the requests alone, and does not make the sweep take one.
LEMMA RowsUnchanged ==
  ASSUME FilingInv, UNCHANGED << request, rpc >>, target' \in {target, None},
         enrolled' \subseteq Handlers
  PROVE  FilingInv'
BY DEF FilingInv, FilingTypeOK, OnePending, Pending

\* The awaits of the filing of a request.
FilingLabels == {"idle", "devices", "pending", "insert", "mail", "done", "refused"}

\* A step that writes one row and moves the request it belongs to: what the
\* invariant asks of that row, and that a row starts to wait only when none does.
LEMMA OneRowWritten ==
  ASSUME FilingInv, NEW q \in Requests, NEW row \in RequestRows, NEW label \in FilingLabels,
         request' = [request EXCEPT ![q] = row],
         rpc' = [rpc EXCEPT ![q] = label],
         enrolled' = enrolled, target' = target,
         target = q => row.made /\ label \in {"done", "refused"},
         row.made => label \in {"mail", "done", "refused"},
         ~ row.made => row = Absent,
         row.due => row.made /\ label # "mail",
         \/ ~ row.made \/ row.cancelled \/ row.aborted \/ row.executed
         \/ Pending(q)
         \/ \A p \in Requests : ~ Pending(p)
  PROVE  FilingInv'
<1>1. request \in [Requests -> RequestRows] /\ rpc \in [Requests -> FilingLabels]
  BY DEF FilingInv, FilingTypeOK, RequestRows, FilingLabels
<1>2. /\ request' \in [Requests -> RequestRows] /\ rpc' \in [Requests -> FilingLabels]
      /\ request'[q] = row /\ rpc'[q] = label
      /\ \A p \in Requests \ {q} : request'[p] = request[p] /\ rpc'[p] = rpc[p]
  BY <1>1
<1>3. FilingTypeOK'
  BY <1>2 DEF FilingTypeOK, RequestRows, FilingLabels
<1>4. OnePending'
  BY <1>2 DEF FilingInv, OnePending, Pending
<1>5. ASSUME NEW p \in Requests
      PROVE  (/\ request[p].made => rpc[p] \in {"mail", "done", "refused"}
              /\ ~ request[p].made => request[p] = Absent
              /\ request[p].due => request[p].made /\ rpc[p] # "mail")'
  <2>1. CASE p = q
    BY <1>2, <2>1 DEF Absent
  <2>2. CASE p # q
    BY <1>2, <2>2 DEF Absent, FilingInv
  <2> QED BY <2>1, <2>2
<1>6. (target # None => /\ target \in Requests
                        /\ request[target].made
                        /\ rpc[target] \in {"done", "refused"})'
  BY <1>2 DEF FilingInv
<1>7. (enrolled \subseteq Handlers)'
  BY DEF FilingInv
<1> QED BY <1>3, <1>4, <1>5, <1>6, <1>7 DEF FilingInv

\* No handler of DeviceLog takes a device away, and none adds one that is not
\* a handler.
LEMMA HandlersEnrolThemselves ==
  ASSUME enrolled \subseteq Handlers,
         \/ \E h \in Handlers : Server(h) \/ Client(h)
         \/ \E t \in Transfers : IssueGrant(t) \/ GrantExpires(t)
  PROVE  enrolled' \subseteq Handlers
<1>1. ASSUME NEW h \in Handlers, Server(h)
      PROVE  enrolled' \subseteq Handlers
  BY <1>1 DEF Server, GenesisReadsDevices, AddReadsDevices, AddReadsGrant,
       AddTakesGrant, RevokeReadsTarget, RevokeReadsSigner, ReadsHead,
       SeqConflict, InsertDevice, InsertRevocation, ReadThen, Answer, db
<1>2. ASSUME NEW h \in Handlers, Client(h)
      PROVE  enrolled' \subseteq Handlers
  BY <1>2 DEF Client, PostGenesis, PostAddDevice, PostRevoke, Resend, Post, db
<1>3. ASSUME NEW t \in Transfers, IssueGrant(t) \/ GrantExpires(t)
      PROVE  enrolled' \subseteq Handlers
  BY <1>3 DEF IssueGrant, GrantExpires, db
<1> QED BY <1>1, <1>2, <1>3

LEMMA InitFiling == KInit => FilingInv
BY DEF KInit, Init, FilingInv, FilingTypeOK, OnePending, Pending, Absent

(***************************************************************************)
(* The steps, one lemma for each actor.                                    *)
(***************************************************************************)
LEMMA DeviceStepFiling ==
  ASSUME FilingInv, DeviceStep
  PROVE  FilingInv'
<1>1. /\ request' = SeenBy(enrolled' \ enrolled)
      /\ rpc' = rpc /\ target' = target
  BY DEF DeviceStep, erasing
<1>2. enrolled' \subseteq Handlers
  BY HandlersEnrolThemselves DEF DeviceStep, FilingInv
<1>3. enrolled' \ enrolled \in SUBSET Handlers
  BY <1>2
<1>4. SeenRows(enrolled' \ enrolled)
  BY <1>3, SeenByTyped DEF SeenRows
<1> QED BY <1>1, <1>2, <1>4, OnlyTimestamps DEF FilingInv, SeenRows

LEMMA FilingStep ==
  ASSUME FilingInv, NEW q \in Requests, Filing(q)
  PROVE  FilingInv'
<1>1. CASE RequestReadsUser(q)
  BY <1>1 DEF RequestReadsUser, Files, erasing, vars, FilingInv, FilingTypeOK, OnePending, Pending
<1>2. CASE RequestReadsDevices(q)
  BY <1>2 DEF RequestReadsDevices, Files, erasing, vars, FilingInv, FilingTypeOK, OnePending, Pending
<1>3. CASE RequestReadsPending(q)
  BY <1>3 DEF RequestReadsPending, Files, erasing, vars, FilingInv, FilingTypeOK, OnePending, Pending
<1>4. CASE RequestInserts(q)
  <2>1. CASE ~ IndexAccepts
    BY <1>4, <2>1 DEF RequestInserts, Files, erasing, vars, FilingInv, FilingTypeOK, OnePending, Pending
  <2>2. CASE IndexAccepts
    <3> DEFINE row == [Absent EXCEPT !.made = TRUE]
    <3>1. /\ request' = [request EXCEPT ![q] = row] /\ rpc' = [rpc EXCEPT ![q] = "mail"]
          /\ enrolled' = enrolled /\ target' = target /\ rpc[q] = "insert"
      BY <1>4, <2>2 DEF RequestInserts, Files, erasing, vars
    <3>2. /\ row \in RequestRows /\ row.made /\ ~ row.due
          /\ ~ row.cancelled /\ ~ row.aborted
      BY DEF RequestRows, Absent
    <3>3. target # q
      BY <3>1 DEF FilingInv
    <3>4. \A p \in Requests : ~ Pending(p)
      BY <2>2 DEF IndexAccepts
    <3>5. "mail" \in FilingLabels
      BY DEF FilingLabels
    <3> HIDE DEF row
    <3> QED BY <3>1, <3>2, <3>3, <3>4, <3>5, OneRowWritten
  <2> QED BY <2>1, <2>2
<1>5. CASE RequestMails(q)
  <2>1. CASE UNCHANGED request
    BY <1>5, <2>1 DEF RequestMails, Files, erasing, vars, FilingInv, FilingTypeOK, OnePending, Pending
  <2>2. CASE request' = [request EXCEPT ![q] = Absent] /\ Files(q, "mail", "refused")
    <3>1. /\ rpc' = [rpc EXCEPT ![q] = "refused"]
          /\ enrolled' = enrolled /\ target' = target
      BY <2>2 DEF Files, erasing, vars
    <3>2. Absent \in RequestRows /\ ~ Absent.made /\ ~ Absent.due
      BY DEF RequestRows, Absent
    <3>3. "refused" \in FilingLabels
      BY DEF FilingLabels
    <3>4. target # q
      BY <2>2 DEF Files, FilingInv
    <3> QED BY <2>2, <3>1, <3>2, <3>3, <3>4, OneRowWritten
  <2> QED BY <1>5, <2>1, <2>2 DEF RequestMails
<1> QED BY <1>1, <1>2, <1>3, <1>4, <1>5 DEF Filing

LEMMA ElapsesFiling ==
  ASSUME FilingInv, NEW q \in Requests, Elapses(q)
  PROVE  FilingInv'
<1> DEFINE row == [request[q] EXCEPT !.due = TRUE]
<1>1. request[q] \in RequestRows /\ rpc \in [Requests -> FilingLabels]
  BY DEF FilingInv, FilingTypeOK, RequestRows, FilingLabels
<1>2. /\ row \in RequestRows /\ row.made = request[q].made
      /\ row.cancelled = request[q].cancelled /\ row.aborted = request[q].aborted
      /\ row.executed = request[q].executed
  BY <1>1 DEF RequestRows
<1>3. /\ request' = [request EXCEPT ![q] = row] /\ rpc' = [rpc EXCEPT ![q] = rpc[q]]
      /\ request[q].made /\ rpc[q] # "mail"
      /\ enrolled' = enrolled /\ target' = target
  BY <1>1 DEF Elapses, erasing, vars
<1> HIDE DEF row
<1> QED BY <1>1, <1>2, <1>3, OneRowWritten DEF FilingInv, Pending

LEMMA CancelFiling ==
  ASSUME FilingInv, NEW q \in Requests, Cancel(q)
  PROVE  FilingInv'
<1> DEFINE row == [request[q] EXCEPT !.cancelled = TRUE]
<1>1. request[q] \in RequestRows /\ rpc \in [Requests -> FilingLabels]
  BY DEF FilingInv, FilingTypeOK, RequestRows, FilingLabels
<1>2. /\ row \in RequestRows /\ row.made = request[q].made /\ row.due = request[q].due
      /\ row.cancelled /\ row.executed = request[q].executed
  BY <1>1 DEF RequestRows
<1>3. /\ request' = [request EXCEPT ![q] = row] /\ rpc' = [rpc EXCEPT ![q] = rpc[q]]
      /\ request[q].made /\ ~ request[q].executed
      /\ enrolled' = enrolled /\ target' = target
  BY <1>1 DEF Cancel, Pending, erasing, vars
<1> HIDE DEF row
<1> QED BY <1>1, <1>2, <1>3, OneRowWritten DEF FilingInv

LEMMA CheckInFiling ==
  ASSUME FilingInv, NEW d \in Handlers, CheckIn(d)
  PROVE  FilingInv'
<1>1. request' = SeenBy({d}) /\ UNCHANGED << rpc, target, enrolled >>
  BY DEF CheckIn, erasing, vars
<1>2. {d} \in SUBSET Handlers
  OBVIOUS
<1>3. SeenRows({d})
  BY <1>2, SeenByTyped DEF SeenRows
<1> QED BY <1>1, <1>3, OnlyTimestamps DEF FilingInv, SeenRows

LEMMA AbortFiling ==
  ASSUME FilingInv, NEW d \in Handlers, AbortOnDeviceSeen(d)
  PROVE  FilingInv'
<1>1. request' = AbortPending /\ UNCHANGED << rpc, target, enrolled >>
  BY DEF AbortOnDeviceSeen, erasing, vars
<1>2. request \in [Requests -> RequestRows]
  BY DEF FilingInv, FilingTypeOK, RequestRows
<1>3. ASSUME NEW q \in Requests
      PROVE  /\ request'[q] \in RequestRows
             /\ request'[q].made = request[q].made
             /\ request'[q].due  = request[q].due
             /\ ~ request[q].made => request'[q] = Absent
             /\ request'[q].cancelled = request[q].cancelled
             /\ request[q].aborted => request'[q].aborted
             /\ request'[q].executed = request[q].executed
  <2>1. request'[q] = IF Pending(q) THEN [request[q] EXCEPT !.aborted = TRUE] ELSE request[q]
    BY <1>1 DEF AbortPending
  <2>2. request[q] \in RequestRows
    BY <1>2
  <2>3. ~ request[q].made => request[q] = Absent
    BY DEF FilingInv
  <2> QED BY <2>1, <2>2, <2>3 DEF RequestRows, Pending
<1>4. request' \in [Requests -> RequestRows]
  BY <1>1, <1>3 DEF AbortPending
<1> QED BY <1>1, <1>3, <1>4, OnlyTimestamps DEF FilingInv

LEMMA MarkFiling ==
  ASSUME FilingInv, NEW e \in Erasers, EraseNowMarks(e)
  PROVE  FilingInv'
<1>1. request' = MarkPending /\ UNCHANGED << rpc, target, enrolled >>
  BY DEF EraseNowMarks, Moves, db
<1>2. request \in [Requests -> RequestRows]
  BY DEF FilingInv, FilingTypeOK, RequestRows
<1>3. ASSUME NEW q \in Requests
      PROVE  /\ request'[q] \in RequestRows
             /\ request'[q].made = request[q].made
             /\ request'[q].due  = request[q].due
             /\ ~ request[q].made => request'[q] = Absent
             /\ request'[q].cancelled = request[q].cancelled
             /\ request'[q].aborted = request[q].aborted
             /\ request[q].executed => request'[q].executed
  <2>1. request'[q] = IF Pending(q) THEN [request[q] EXCEPT !.executed = TRUE] ELSE request[q]
    BY <1>1 DEF MarkPending
  <2>2. request[q] \in RequestRows
    BY <1>2
  <2>3. ~ request[q].made => request[q] = Absent
    BY DEF FilingInv
  <2> QED BY <2>1, <2>2, <2>3 DEF RequestRows, Pending
<1>4. request' \in [Requests -> RequestRows]
  BY <1>1, <1>3 DEF MarkPending
<1> QED BY <1>1, <1>3, <1>4, OnlyTimestamps DEF FilingInv

\* The two updates of the sweep, which name the row by its id alone.
LEMMA SweepEndFiling ==
  ASSUME FilingInv, SweepAborts \/ SweepMarksExecuted
  PROVE  FilingInv'
<1>1. PICK row \in {[request[target] EXCEPT !.aborted = TRUE],
                    [request[target] EXCEPT !.executed = TRUE]} :
        /\ request' = [request EXCEPT ![target] = row]
        /\ target' = None /\ rpc' = rpc /\ enrolled' = enrolled
  BY DEF SweepAborts, SweepMarksExecuted, SweepEnds, Moves, db
<1>2. request \in [Requests -> RequestRows] /\ rpc \in [Requests -> FilingLabels]
  BY DEF FilingInv, FilingTypeOK, RequestRows, FilingLabels
<1>3. CASE target = None
  <2>1. request' = request
    BY <1>1, <1>2, <1>3
  <2> QED BY <1>1, <2>1, RowsUnchanged DEF FilingInv
<1>4. CASE target # None
  <2>1. target \in Requests /\ rpc[target] \in {"done", "refused"}
    BY <1>4 DEF FilingInv
  <2>2. request[target] \in RequestRows
    BY <1>2, <2>1
  <2>3. /\ row \in RequestRows /\ row.made = request[target].made
        /\ row.due = request[target].due
        /\ request[target].cancelled => row.cancelled
        /\ request[target].aborted => row.aborted
        /\ request[target].executed => row.executed
    BY <2>2 DEF RequestRows
  <2>4. request[target].made
    BY <2>1, <1>4 DEF FilingInv
  <2> QED BY <1>1, <1>2, <2>1, <2>3, <2>4, OnlyTimestamps DEF FilingInv
<1> QED BY <1>3, <1>4

LEMMA EraseFiling ==
  ASSUME FilingInv, NEW p \in Processes, Erase(p)
  PROVE  FilingInv'
<1>1. UNCHANGED << request, rpc >> /\ target' \in {target, None} /\ enrolled' \in {enrolled, {}}
  BY DEF Erase, EraseDeletesLog, EraseCommits, EraseFails, Moves, db
<1> QED BY <1>1, RowsUnchanged DEF FilingInv

\* The sweep takes a row whose delay is over, so whose mail was dealt with.
LEMMA SweepFiling ==
  ASSUME FilingInv, Sweep
  PROVE  FilingInv'
<1>1. ASSUME NEW q \in Requests, SweepSelects(q)
      PROVE  FilingInv'
  <2>1. /\ request[q].made /\ request[q].due /\ target' = q
        /\ UNCHANGED << request, rpc, enrolled >>
    BY <1>1 DEF SweepSelects, Pending, Moves, db
  <2>2. rpc[q] \in {"done", "refused"}
    BY <2>1 DEF FilingInv
  <2> QED BY <2>1, <2>2 DEF FilingInv, FilingTypeOK, OnePending, Pending
<1>2. CASE SweepCountsAlive
  <2>1. UNCHANGED << request, rpc, target, enrolled >>
    BY <1>2 DEF SweepCountsAlive, Moves, db
  <2> QED BY <2>1, RowsUnchanged DEF FilingInv
<1>3. CASE SweepAborts \/ SweepMarksExecuted
  BY <1>3, SweepEndFiling
<1>4. CASE Erase(Sweeper)
  BY <1>4, EraseFiling DEF Processes
<1> QED BY <1>1, <1>2, <1>3, <1>4 DEF Sweep

LEMMA EraseNowFiling ==
  ASSUME FilingInv, NEW e \in Erasers, EraseNow(e)
  PROVE  FilingInv'
<1>1. CASE EraseNowReadsUser(e) \/ EraseNowReadsDevice(e)
  <2>1. UNCHANGED << request, rpc, target, enrolled >>
    BY <1>1 DEF EraseNowReadsUser, EraseNowReadsDevice, Moves, db
  <2> QED BY <2>1, RowsUnchanged DEF FilingInv
<1>2. CASE Erase(e)
  BY <1>2, EraseFiling DEF Processes
<1>3. CASE EraseNowMarks(e)
  BY <1>3, MarkFiling
<1> QED BY <1>1, <1>2, <1>3 DEF EraseNow

\* A restart loses the calls that were being answered, and no row.
LEMMA RestartFiling ==
  ASSUME FilingInv, Restart
  PROVE  FilingInv'
<1>1. /\ UNCHANGED << request, enrolled >> /\ target' = None
      /\ rpc' = [q \in Requests |-> IF rpc[q] \in {"idle", "done"} THEN rpc[q] ELSE "refused"]
  BY DEF Restart, db
<1>2. FilingTypeOK'
  BY <1>1 DEF FilingInv, FilingTypeOK
<1>3. OnePending'
  BY <1>1 DEF FilingInv, OnePending, Pending
<1> QED BY <1>1, <1>2, <1>3 DEF FilingInv, Absent

(***************************************************************************)
(* The inductive invariant and what follows from it.                       *)
(***************************************************************************)
LEMMA NextFiling == FilingInv /\ [KNext]_kvars => FilingInv'
<1> SUFFICES ASSUME FilingInv, [KNext]_kvars
             PROVE  FilingInv'
  OBVIOUS
<1>1. CASE DeviceStep
  BY <1>1, DeviceStepFiling
<1>2. ASSUME NEW q \in Requests, Filing(q) \/ Elapses(q) \/ Cancel(q)
      PROVE  FilingInv'
  BY <1>2, FilingStep, ElapsesFiling, CancelFiling
<1>3. ASSUME NEW d \in Handlers, CheckIn(d) \/ AbortOnDeviceSeen(d)
      PROVE  FilingInv'
  BY <1>3, CheckInFiling, AbortFiling
<1>4. ASSUME NEW e \in Erasers, EraseNow(e)
      PROVE  FilingInv'
  BY <1>4, EraseNowFiling
<1>5. CASE Sweep
  BY <1>5, SweepFiling
<1>6. CASE SetLockdown
  <2>1. UNCHANGED << request, rpc, target, enrolled >>
    BY <1>6 DEF SetLockdown, vars, filing, erasing
  <2> QED BY <2>1, RowsUnchanged DEF FilingInv
<1>7. CASE Restart
  BY <1>7, RestartFiling
<1>8. CASE UNCHANGED kvars
  <2>1. UNCHANGED << request, rpc, target, enrolled >>
    BY <1>8 DEF kvars, vars, filing, erasing
  <2> QED BY <2>1, RowsUnchanged DEF FilingInv
<1> QED BY <1>1, <1>2, <1>3, <1>4, <1>5, <1>6, <1>7, <1>8 DEF KNext

\* Where the filing of a request stands, and what its row is, always agree.
THEOREM FilingInvariant == KSpec => []FilingInv
<1>1. KInit => FilingInv
  BY InitFiling
<1>2. FilingInv /\ [KNext]_kvars => FilingInv'
  BY NextFiling
<1> QED BY <1>1, <1>2, PTL DEF KSpec

\* However many requests are filed at once, one of them waits.
THEOREM OneRequestWaits == KSpec => []OnePending
<1>1. FilingInv => OnePending
  BY DEF FilingInv
<1> QED BY <1>1, FilingInvariant, PTL

(***************************************************************************)
(* Types.  An erasure may leave gaps in the log, so that what IInv of       *)
(* DeviceLog says of it is lost; that it has a last entry is not.           *)
(***************************************************************************)
Bounded == \E n \in Nat : \A r \in log : r.seq <= n

\* A log that is not empty has a last entry, gaps or not.
LEMMA LastEntry ==
  ASSUME log \subseteq Rows, log # {}, Bounded
  PROVE  \E r \in log : IsHead(r)
<1> DEFINE After(x) == {r.seq : r \in {q \in log : q.seq > x.seq}}
           Afters == {After(x) : x \in log}
<1>1. PICK n \in Nat : \A r \in log : r.seq <= n
  BY DEF Bounded
<1> DEFINE Fin  == FiniteSubsetsOf(0..n)
           Less == StrictSubsetOrdering(0..n)
<1>2. \A r \in log : r.seq \in Nat /\ r.seq \in 0..n
  BY <1>1 DEF Rows
<1>3. IsFiniteSet(0..n) /\ IsWellFoundedOn(Less, Fin)
  BY FS_Interval, FS_StrictSubsetOrderingWellFounded
<1>4. \A x \in log : After(x) \in Fin
  <2>1. \A x \in log : After(x) \in SUBSET (0..n)
    BY <1>2
  <2>2. \A x \in log : IsFiniteSet(After(x))
    BY <1>3, <2>1, FS_Subset
  <2>3. QED
    BY <2>1, <2>2 DEF FiniteSubsetsOf
<1>5. Afters \subseteq Fin /\ Afters # {}
  <2> HIDE DEF After, Fin
  <2>1. QED
    BY <1>4
<1>6. PICK L \in Afters : \A M \in Afters : ~ (<< M, L >> \in Less)
  <2> HIDE DEF Less, Fin, Afters
  <2>1. QED
    BY <1>3, <1>5, WFMin
<1>7. PICK h \in log : L = After(h)
  BY <1>6
<1>8. ASSUME NEW r \in log, ~ (r.seq <= h.seq)
      PROVE  FALSE
  <2>1. r.seq \in Nat /\ h.seq \in Nat /\ r.seq > h.seq
    BY <1>2, <1>8
  <2>2. r.seq \in After(h) /\ r.seq \notin After(r)
    BY <1>2, <2>1
  <2>3. \A q \in log : q.seq > r.seq => q.seq > h.seq
    BY <1>2, <2>1
  <2>4. After(r) \subseteq After(h) /\ After(r) # After(h)
    BY <2>2, <2>3
  <2>5. After(r) \in SUBSET (0..n) /\ After(h) \in SUBSET (0..n)
    BY <1>2
  <2> HIDE DEF After
  <2>6. << After(r), After(h) >> \in Less
    BY <2>4, <2>5 DEF StrictSubsetOrdering
  <2>7. QED
    BY <1>6, <1>7, <2>6
<1>9. QED
  BY <1>8 DEF IsHead

\* The seq and the hash a handler computes of whatever log it finds.
LEMMA HeadTyped ==
  ASSUME log \subseteq Rows, Bounded
  PROVE  NextSeq \in Nat /\ HeadHash \in NullHash
<1>1. CASE log = {}
  BY <1>1 DEF NextSeq, HeadHash, NullHash
<1>2. CASE log # {}
  <2>1. Head \in log
    BY <1>2, LastEntry DEF Head
  <2>2. Head.seq \in Nat /\ Head.hash \in Handlers
    BY <2>1 DEF Rows
  <2>3. QED
    BY <1>2, <2>2 DEF NextSeq, HeadHash, NullHash
<1>3. QED
  BY <1>1, <1>2

\* A handler that runs was sent a statement that names the devices its kind needs.
Sent(h) ==
  pc[h] # "unsent" =>
    /\ stmt[h] \in Statements
    /\ stmt[h].kind # "genesis" => stmt[h].signer \in Handlers
    /\ stmt[h].kind = "revoke"  => stmt[h].target \in Handlers

LogTyped == TypeOK /\ Bounded /\ \A h \in Handlers : Sent(h)

LEMMA UnsentOrStatement ==
  ASSUME NEW s \in Statements
  PROVE  s # Unsent
BY NoneAssumption DEF Statements, Unsent

\* One more entry.
LEMMA StillBounded ==
  ASSUME Bounded, log \subseteq Rows, NEW row \in Rows, log' = log \cup {row}
  PROVE  Bounded' /\ log' \subseteq Rows
<1>1. PICK n \in Nat : \A r \in log : r.seq <= n
  BY DEF Bounded
<1>2. row.seq \in Nat /\ \A r \in log : r.seq \in Nat
  BY DEF Rows
<1>3. PICK m \in Nat : n <= m /\ row.seq <= m
  <2>1. n <= n + row.seq /\ row.seq <= n + row.seq /\ n + row.seq \in Nat
    BY <1>2
  <2>2. QED
    BY <2>1
<1>4. \A r \in log' : r.seq <= m
  BY <1>1, <1>2, <1>3
<1>5. QED
  BY <1>3, <1>4 DEF Bounded

LEMMA RowTyped ==
  ASSUME LogTyped, NEW h \in Handlers, pc[h] # "unsent", NEW s \in Handlers, NEW d \in Handlers
  PROVE  Row(h, s, d) \in Rows
BY DEF LogTyped, TypeOK, Sent, Row, Rows, Statements

LEMMA ServerTyped ==
  ASSUME LogTyped, NEW h \in Handlers, Server(h)
  PROVE  LogTyped'
<1>1. /\ pc \in [Handlers -> Labels] /\ seq \in [Handlers -> Nat]
      /\ grant \in [Transfers -> 0..MaxGrants]
  BY DEF LogTyped, TypeOK
<1>2. ASSUME NEW label \in Labels, label # "unsent", pc[h] # "unsent", Answer(h, label)
      PROVE  LogTyped'
  BY <1>1, <1>2 DEF LogTyped, TypeOK, Bounded, Sent, Answer, Goto, db, grants
<1>3. CASE GenesisReadsDevices(h) \/ AddReadsDevices(h) \/ RevokeReadsTarget(h) \/ RevokeReadsSigner(h)
  <2>1. PICK label \in {"head", "grant", "signer", "refused"} : pc[h] # "unsent" /\ Answer(h, label)
    BY <1>3 DEF GenesisReadsDevices, AddReadsDevices, RevokeReadsTarget, RevokeReadsSigner, ReadThen, At
  <2>2. QED
    BY <1>2, <2>1 DEF Labels
<1>4. CASE AddReadsGrant(h) \/ SeqConflict(h)
  <2>1. PICK label \in {"take", "unauthorized", "refused"} : pc[h] # "unsent" /\ Answer(h, label)
    BY <1>4 DEF AddReadsGrant, SeqConflict, At
  <2>2. QED
    BY <1>2, <2>1 DEF Labels
<1>5. CASE AddTakesGrant(h)
  <2>1. PICK label \in {"head", "unauthorized"} : pc[h] # "unsent" /\ Goto(h, label)
    BY <1>5 DEF AddTakesGrant, At
  <2>2. pc' \in [Handlers -> Labels] /\ \A g \in Handlers : pc'[g] # "unsent" => pc[g] # "unsent"
    BY <1>1, <2>1 DEF Goto, Labels
  <2>3. grant' \in [Transfers -> 0..MaxGrants]
    <3>1. grant' = [grant EXCEPT ![stmt[h].transfer] = 0] /\ 0 \in 0..MaxGrants
      BY <1>5, MaxGrantsAssumption DEF AddTakesGrant
    <3>2. QED
      BY <1>1, <3>1
  <2>4. UNCHANGED << log, enrolled, revoked, issued, stmt, seq >>
    BY <1>5 DEF AddTakesGrant, db
  <2>5. QED
    BY <2>2, <2>3, <2>4 DEF LogTyped, TypeOK, Bounded, Sent
<1>6. CASE ReadsHead(h)
  <2>1. PICK label \in {"insert", "refused"} : pc[h] # "unsent" /\ Goto(h, label)
    BY <1>6 DEF ReadsHead, At
  <2>2. pc' \in [Handlers -> Labels] /\ \A g \in Handlers : pc'[g] # "unsent" => pc[g] # "unsent"
    BY <1>1, <2>1 DEF Goto, Labels
  <2>3. NextSeq \in Nat
    BY HeadTyped DEF LogTyped, TypeOK
  <2>4. seq' \in [Handlers -> Nat]
    BY <1>1, <1>6, <2>3 DEF ReadsHead
  <2>5. UNCHANGED << log, enrolled, revoked, grant, issued, stmt >>
    BY <1>6 DEF ReadsHead, db, grants
  <2>6. QED
    BY <2>2, <2>4, <2>5 DEF LogTyped, TypeOK, Bounded, Sent
<1>7. CASE InsertDevice(h) \/ InsertRevocation(h)
  <2>1. pc[h] # "unsent" /\ pc' = [pc EXCEPT ![h] = "done"] /\ UNCHANGED << grant, issued, stmt, seq >>
    BY <1>7 DEF InsertDevice, InsertRevocation, At, Goto, grants
  <2>2. pc' \in [Handlers -> Labels] /\ \A g \in Handlers : pc'[g] # "unsent" => pc[g] # "unsent"
    BY <1>1, <2>1 DEF Labels
  <2>3. PICK s \in Handlers, d \in Handlers : log' = log \cup {Row(h, s, d)}
    BY <1>7, <2>1 DEF InsertDevice, InsertRevocation, LogTyped, Sent
  <2>4. Bounded' /\ log' \subseteq Rows
    BY <2>1, <2>3, RowTyped, StillBounded DEF LogTyped, TypeOK
  <2>5. enrolled' \subseteq Handlers /\ revoked' \subseteq enrolled'
    BY <1>7 DEF InsertDevice, InsertRevocation, LogTyped, TypeOK
  <2>6. QED
    BY <2>1, <2>2, <2>4, <2>5 DEF LogTyped, TypeOK, Sent
<1>8. QED
  BY <1>3, <1>4, <1>5, <1>6, <1>7 DEF Server

LEMMA ClientTyped ==
  ASSUME LogTyped, NEW h \in Handlers, Client(h)
  PROVE  LogTyped'
<1>1. /\ pc \in [Handlers -> Labels] /\ stmt \in [Handlers -> Statements \cup {Unsent}]
      /\ enrolled \subseteq Handlers /\ issued \in 0..MaxGrants
  BY DEF LogTyped, TypeOK
<1>2. HeadHash \in NullHash
  BY HeadTyped DEF LogTyped, TypeOK
<1>3. ASSUME NEW g \in Handlers, NEW s \in Statements, Post(g, s),
             s.kind # "genesis" => s.signer \in Handlers,
             s.kind = "revoke"  => s.target \in Handlers
      PROVE  LogTyped'
  <2>1. stmt' = [stmt EXCEPT ![g] = s] /\ pc' = [pc EXCEPT ![g] = "posted"]
    BY <1>3 DEF Post, Goto
  <2>2. stmt' \in [Handlers -> Statements \cup {Unsent}] /\ pc' \in [Handlers -> Labels]
    BY <1>1, <2>1 DEF Labels
  <2>3. UNCHANGED << log, enrolled, revoked, grant, issued, seq >>
    BY <1>3 DEF Post, db, grants
  <2>4. \A f \in Handlers : Sent(f)'
    BY <1>1, <1>3, <2>1 DEF LogTyped, Sent
  <2>5. QED
    BY <2>2, <2>3, <2>4 DEF LogTyped, TypeOK, Bounded
<1>4. CASE PostGenesis(h)
  <2>1. [ kind |-> "genesis", hash |-> h, prev |-> None, signer |-> None,
          target |-> None, transfer |-> None, token |-> 0 ] \in Statements
    BY MaxGrantsAssumption DEF Statements, Kinds, NullHash
  <2>2. QED
    BY <1>3, <1>4, <2>1 DEF PostGenesis
<1>5. ASSUME NEW signer \in enrolled, NEW t \in Transfers, NEW token \in 1..issued,
             PostAddDevice(h, signer, t, token)
      PROVE  LogTyped'
  <2>1. [ kind |-> "add-device", hash |-> h, prev |-> HeadHash, signer |-> signer,
          target |-> None, transfer |-> t, token |-> token ] \in Statements
    <3>1. token \in 0..MaxGrants /\ signer \in Handlers
      BY <1>1, MaxGrantsAssumption
    <3>2. QED
      BY <1>2, <3>1 DEF Statements, Kinds, NullHash
  <2>2. QED
    BY <1>1, <1>3, <1>5, <2>1 DEF PostAddDevice
<1>6. ASSUME NEW signer \in enrolled, NEW target_ \in enrolled, PostRevoke(h, signer, target_)
      PROVE  LogTyped'
  <2>1. [ kind |-> "revoke", hash |-> h, prev |-> HeadHash, signer |-> signer,
          target |-> target_, transfer |-> None, token |-> 0 ] \in Statements
    BY <1>1, <1>2, MaxGrantsAssumption DEF Statements, Kinds, NullHash
  <2>2. QED
    BY <1>1, <1>3, <1>6, <2>1 DEF PostRevoke
<1>7. ASSUME NEW again \in Handlers, Resend(h, again)
      PROVE  LogTyped'
  <2>1. pc[h] # "unsent"
    BY <1>7 DEF Resend, At
  <2>2. /\ stmt[h] \in Statements
        /\ stmt[h].kind # "genesis" => stmt[h].signer \in Handlers
        /\ stmt[h].kind = "revoke"  => stmt[h].target \in Handlers
    BY <2>1 DEF LogTyped, Sent
  <2>3. QED
    BY <1>3, <1>7, <2>2 DEF Resend
<1>8. QED
  BY <1>4, <1>5, <1>6, <1>7 DEF Client

LEMMA TransferTyped ==
  ASSUME LogTyped, NEW t \in Transfers, IssueGrant(t) \/ GrantExpires(t)
  PROVE  LogTyped'
<1>1. grant \in [Transfers -> 0..MaxGrants] /\ issued \in 0..MaxGrants
  BY DEF LogTyped, TypeOK
<1>2. grant' \in [Transfers -> 0..MaxGrants] /\ issued' \in 0..MaxGrants
  BY <1>1, MaxGrantsAssumption DEF IssueGrant, GrantExpires
<1>3. UNCHANGED << log, enrolled, revoked, stmt, pc, seq >>
  BY DEF IssueGrant, GrantExpires, db
<1>4. QED
  BY <1>2, <1>3 DEF LogTyped, TypeOK, Bounded, Sent

(***************************************************************************)
(* The erasing processes.                                                  *)
(***************************************************************************)
ErasingTyped ==
  /\ checkin \subseteq Handlers
  /\ epc     \in [Processes ->
       {"idle", "alive", "device", "abort", "erase", "erasing", "mark", "done"}]
  /\ doomed  \in [Processes -> SUBSET Rows]
  /\ locked  \in BOOLEAN
  /\ faults  \in 0..MaxFaults

KInv == LogTyped /\ FilingInv /\ ErasingTyped

\* What only talks about the log survives a step that leaves it alone.
LEMMA LogUnchanged ==
  ASSUME LogTyped, UNCHANGED vars
  PROVE  LogTyped'
BY DEF LogTyped, TypeOK, Bounded, Sent, vars

LEMMA InitTyped == KInit => LogTyped /\ ErasingTyped
<1> SUFFICES ASSUME KInit PROVE LogTyped /\ ErasingTyped
  OBVIOUS
<1>1. 0 \in 0..MaxGrants /\ 0 \in 0..MaxFaults
  BY MaxGrantsAssumption, MaxFaultsAssumption
<1>2. TypeOK
  BY <1>1 DEF KInit, Init, TypeOK, Labels
<1>3. Bounded /\ \A h \in Handlers : Sent(h)
  BY DEF KInit, Init, Bounded, Sent
<1>4. ErasingTyped
  BY <1>1 DEF KInit, ErasingTyped
<1>5. QED
  BY <1>2, <1>3, <1>4 DEF LogTyped

LEMMA DeviceStepTyped ==
  ASSUME LogTyped, ErasingTyped, DeviceStep
  PROVE  LogTyped' /\ ErasingTyped'
<1>1. LogTyped'
  BY ServerTyped, ClientTyped, TransferTyped DEF DeviceStep
<1>2. ErasingTyped'
  BY DEF DeviceStep, ErasingTyped, erasing
<1>3. QED
  BY <1>1, <1>2

LEMMA EraseTyped ==
  ASSUME LogTyped, ErasingTyped, NEW p \in Processes, Erase(p)
  PROVE  LogTyped' /\ ErasingTyped'
<1>1. log \subseteq Rows /\ faults \in 0..MaxFaults
  BY DEF LogTyped, TypeOK, ErasingTyped
<1>2. CASE EraseDeletesLog(p)
  <2>1. UNCHANGED vars
    BY <1>2 DEF EraseDeletesLog, Moves, db, grants, vars
  <2>2. ErasingTyped'
    BY <1>1, <1>2 DEF EraseDeletesLog, Moves, ErasingTyped
  <2>3. QED
    BY <2>1, <2>2, LogUnchanged
<1>3. CASE EraseCommits(p)
  <2>1. ErasingTyped'
    BY <1>3 DEF EraseCommits, Moves, ErasingTyped
  <2>2. log' \subseteq log /\ enrolled' = {} /\ revoked' = {}
        /\ UNCHANGED << grant, issued, stmt, pc, seq >>
    BY <1>3 DEF EraseCommits, Moves, grants
  <2>3. QED
    BY <2>1, <2>2 DEF LogTyped, TypeOK, Bounded, Sent
<1>4. CASE EraseFails(p)
  <2>1. UNCHANGED vars
    BY <1>4 DEF EraseFails, Moves, db, grants, vars
  <2>2. faults' \in 0..MaxFaults
    BY <1>1, <1>4, MaxFaultsAssumption DEF EraseFails
  <2>3. ErasingTyped'
    BY <1>4, <2>2 DEF EraseFails, Moves, ErasingTyped
  <2>4. QED
    BY <2>1, <2>3, LogUnchanged
<1>5. QED
  BY <1>2, <1>3, <1>4 DEF Erase

LEMMA SweepTyped ==
  ASSUME LogTyped, ErasingTyped, Sweep \/ \E e \in Erasers : EraseNow(e)
  PROVE  LogTyped' /\ ErasingTyped'
<1>1. ASSUME NEW p \in Processes, Erase(p)
      PROVE  LogTyped' /\ ErasingTyped'
  BY <1>1, EraseTyped
<1>2. ASSUME NEW p \in Processes, NEW from, NEW to \in {"idle", "alive", "device", "abort", "erase", "done"},
             Moves(p, from, to), UNCHANGED << db, doomed, faults >>
      PROVE  LogTyped' /\ ErasingTyped'
  <2>1. UNCHANGED vars
    BY <1>2 DEF Moves, db, grants, vars
  <2>2. ErasingTyped'
    BY <1>2 DEF Moves, ErasingTyped
  <2>3. QED
    BY <2>1, <2>2, LogUnchanged
<1>3. Sweeper \in Processes /\ \A e \in Erasers : e \in Processes
  BY DEF Processes
<1>4. CASE Sweep
  <2>1. Erase(Sweeper) \/ \E from, to \in {"idle", "alive", "abort", "erase", "mark"} :
          to # "mark" /\ Moves(Sweeper, from, to) /\ UNCHANGED << db, doomed, faults >>
    BY <1>4 DEF Sweep, SweepSelects, SweepCountsAlive, SweepAborts, SweepMarksExecuted, SweepEnds
  <2>2. QED
    BY <1>1, <1>2, <1>3, <2>1
<1>5. ASSUME NEW e \in Erasers, EraseNow(e)
      PROVE  LogTyped' /\ ErasingTyped'
  <2>1. Erase(e) \/ \E from, to \in {"idle", "device", "erase", "mark", "done"} :
          to # "mark" /\ Moves(e, from, to) /\ UNCHANGED << db, doomed, faults >>
    BY <1>5 DEF EraseNow, EraseNowReadsUser, EraseNowReadsDevice, EraseNowMarks
  <2>2. QED
    BY <1>1, <1>2, <1>3, <2>1
<1>6. QED
  BY <1>4, <1>5

LEMMA RestartTyped ==
  ASSUME LogTyped, ErasingTyped, Restart
  PROVE  LogTyped' /\ ErasingTyped'
<1>1. pc \in [Handlers -> Labels] /\ faults \in 0..MaxFaults
  BY DEF LogTyped, TypeOK, ErasingTyped
<1>2. faults' \in 0..MaxFaults
  BY <1>1, MaxFaultsAssumption DEF Restart
<1>3. pc' \in [Handlers -> Labels] /\ \A h \in Handlers : pc'[h] # "unsent" => pc[h] # "unsent"
  BY <1>1 DEF Restart, Labels
<1>4. LogTyped'
  BY <1>3 DEF Restart, LogTyped, TypeOK, Bounded, Sent, db, grants
<1>5. ErasingTyped'
  BY <1>2 DEF Restart, ErasingTyped
<1>6. QED
  BY <1>4, <1>5

LEMMA NextTyped == KInv /\ [KNext]_kvars => KInv'
<1> SUFFICES ASSUME KInv, [KNext]_kvars PROVE LogTyped' /\ ErasingTyped'
  BY NextFiling DEF KInv
<1>1. LogTyped /\ ErasingTyped
  BY DEF KInv
<1>2. CASE DeviceStep
  BY <1>1, <1>2, DeviceStepTyped
<1>3. CASE Sweep \/ \E e \in Erasers : EraseNow(e)
  BY <1>1, <1>3, SweepTyped
<1>4. CASE Restart
  BY <1>1, <1>4, RestartTyped
<1>5. ASSUME UNCHANGED << vars, epc, doomed, faults >>, checkin' \subseteq Handlers, locked' \in BOOLEAN
      PROVE  LogTyped' /\ ErasingTyped'
  BY <1>1, <1>5, LogUnchanged DEF ErasingTyped
<1>6. ASSUME NEW q \in Requests, Filing(q) \/ Elapses(q) \/ Cancel(q)
      PROVE  LogTyped' /\ ErasingTyped'
  BY <1>1, <1>5, <1>6 DEF Filing, RequestReadsUser, RequestReadsDevices, RequestReadsPending,
     RequestInserts, RequestMails, Files, Elapses, Cancel, erasing, ErasingTyped
<1>7. ASSUME NEW d \in Handlers, CheckIn(d) \/ AbortOnDeviceSeen(d)
      PROVE  LogTyped' /\ ErasingTyped'
  BY <1>1, <1>5, <1>7 DEF CheckIn, AbortOnDeviceSeen, erasing, ErasingTyped
<1>8. CASE SetLockdown
  BY <1>1, <1>5, <1>8 DEF SetLockdown, erasing, ErasingTyped
<1>9. CASE UNCHANGED kvars
  BY <1>1, <1>5, <1>9 DEF kvars, erasing, ErasingTyped
<1>10. QED
  BY <1>2, <1>3, <1>4, <1>6, <1>7, <1>8, <1>9 DEF KNext

LEMMA ErasureInvariant == KSpec => []KInv
<1>1. KInit => KInv
  BY InitFiling, InitTyped DEF KInv
<1>2. QED
  BY <1>1, NextTyped, PTL DEF KSpec

\* Every variable keeps its type, whatever erasures do to the log.
THEOREM ErasureTypeCorrect == KSpec => []KTypeOK
<1>1. KInv => KTypeOK
  BY DEF KInv, LogTyped, FilingInv, ErasingTyped, KTypeOK
<1>2. QED
  BY <1>1, ErasureInvariant, PTL

(***************************************************************************)
(* What the sweep reports done is done.                                    *)
(***************************************************************************)

\* From its first await to its last the sweep holds a row, and when it comes to
\* mark that row no device is left but those seen after the request.
SweepHolds ==
  /\ epc[Sweeper] \in {"alive", "abort", "erase", "erasing", "mark"} => target # None
  /\ epc[Sweeper] = "mark" => enrolled \subseteq request[target].seen

HoldInv == KInv /\ SweepHolds

\* Devices that come count as seen, in every row there is.
LEMMA NewcomersAreSeen ==
  ASSUME KInv, DeviceStep, NEW q \in Requests, request[q].made, enrolled \subseteq request[q].seen
  PROVE  enrolled' \subseteq request'[q].seen
<1>1. request[q] \in RequestRows
  BY DEF KInv, FilingInv, FilingTypeOK, RequestRows
<1>2. request'[q] = [request[q] EXCEPT !.seen = @ \cup (enrolled' \ enrolled)]
  BY DEF DeviceStep, SeenBy
<1>3. request'[q].seen = request[q].seen \cup (enrolled' \ enrolled)
  BY <1>1, <1>2 DEF RequestRows
<1>4. QED
  BY <1>3

\* Nobody seen is forgotten, unless the request is withdrawn.
LEMMA SeenGrows ==
  ASSUME KInv, [KNext]_kvars, NEW q \in Requests, request[q].made, rpc[q] # "mail"
  PROVE  request[q].seen \subseteq request'[q].seen
<1>1. request \in [Requests -> RequestRows]
  BY DEF KInv, FilingInv, FilingTypeOK, RequestRows
<1>2. ASSUME NEW D, request' = SeenBy(D)
      PROVE  request[q].seen \subseteq request'[q].seen
  BY <1>1, <1>2 DEF SeenBy, RequestRows
<1>3. ASSUME NEW p, NEW row, request' = [request EXCEPT ![p] = row],
             p = q => row.seen = request[q].seen
      PROVE  request[q].seen \subseteq request'[q].seen
  BY <1>1, <1>3
<1>4. CASE DeviceStep \/ \E d \in Handlers : CheckIn(d)
  BY <1>2, <1>4 DEF DeviceStep, CheckIn
<1>5. CASE request' = AbortPending \/ request' = MarkPending
  BY <1>1, <1>5 DEF AbortPending, MarkPending, RequestRows
<1>6. ASSUME NEW p \in Requests, Filing(p)
      PROVE  request[q].seen \subseteq request'[q].seen
  <2>1. \/ UNCHANGED request
        \/ rpc[p] = "insert" /\ \E row : request' = [request EXCEPT ![p] = row]
        \/ rpc[p] = "mail" /\ \E row : request' = [request EXCEPT ![p] = row]
    BY <1>6 DEF Filing, RequestReadsUser, RequestReadsDevices, RequestReadsPending,
       RequestInserts, RequestMails, Files
  <2>2. rpc[q] # "insert"
    BY DEF KInv, FilingInv
  <2>3. QED
    BY <1>3, <2>1, <2>2
<1>7. ASSUME NEW p \in Requests, Elapses(p) \/ Cancel(p)
      PROVE  request[q].seen \subseteq request'[q].seen
  <2>1. PICK row \in {[request[p] EXCEPT !.due = TRUE], [request[p] EXCEPT !.cancelled = TRUE]} :
          request' = [request EXCEPT ![p] = row]
    BY <1>7 DEF Elapses, Cancel
  <2>2. row.seen = request[p].seen
    BY <1>1, <2>1 DEF RequestRows
  <2>3. QED
    BY <1>3, <2>1, <2>2
<1>8. CASE SweepAborts \/ SweepMarksExecuted
  <2>1. PICK row \in {[request[target] EXCEPT !.aborted = TRUE],
                      [request[target] EXCEPT !.executed = TRUE]} :
          request' = [request EXCEPT ![target] = row]
    BY <1>8 DEF SweepAborts, SweepMarksExecuted, SweepEnds
  <2>2. target = q => row.seen = request[q].seen
    BY <1>1, <2>1 DEF RequestRows
  <2>3. QED
    BY <1>3, <2>1, <2>2
<1>9. CASE UNCHANGED request
  BY <1>9
<1>10. DeviceStep \/ (\E d \in Handlers : CheckIn(d)) \/ request' = AbortPending
        \/ request' = MarkPending \/ (\E p \in Requests : Filing(p) \/ Elapses(p) \/ Cancel(p))
        \/ SweepAborts \/ SweepMarksExecuted \/ UNCHANGED request
  BY DEF KNext, AbortOnDeviceSeen, Sweep, SweepSelects, SweepCountsAlive, Erase,
     EraseDeletesLog, EraseCommits, EraseFails, EraseNow, EraseNowReadsUser,
     EraseNowReadsDevice, EraseNowMarks, SetLockdown, Restart, filing, kvars
<1>11. QED
  BY <1>4, <1>5, <1>6, <1>7, <1>8, <1>9, <1>10

\* Steps that are not the devices' own take no device in.
LEMMA OnlyDevicesEnrol ==
  ASSUME [KNext]_kvars, ~ DeviceStep
  PROVE  enrolled' \subseteq enrolled
BY DEF KNext, Filing, RequestReadsUser, RequestReadsDevices, RequestReadsPending, RequestInserts,
   RequestMails, Files, Elapses, Cancel, CheckIn, AbortOnDeviceSeen, Sweep, SweepSelects,
   SweepCountsAlive, SweepAborts, SweepMarksExecuted, SweepEnds, EraseNow, EraseNowReadsUser,
   EraseNowReadsDevice, EraseNowMarks, Erase, EraseDeletesLog, EraseCommits, EraseFails,
   SetLockdown, Restart, vars, kvars, db

\* A row that leaves nobody out goes on leaving nobody out.
LEMMA ErasedStaysErased ==
  ASSUME KInv, [KNext]_kvars, NEW q \in Requests, request[q].made, rpc[q] # "mail",
         enrolled \subseteq request[q].seen
  PROVE  enrolled' \subseteq request'[q].seen
<1>1. CASE DeviceStep
  BY <1>1, NewcomersAreSeen
<1>2. CASE ~ DeviceStep
  BY <1>2, OnlyDevicesEnrol, SeenGrows
<1>3. QED
  BY <1>1, <1>2

\* What a step does to the sweep: it leaves it where it is, with its row; it puts
\* it to rest; or it is one of the sweep's own steps.
LEMMA SweepMoves ==
  ASSUME KInv, [KNext]_kvars
  PROVE  \/ epc'[Sweeper] = epc[Sweeper] /\ target' = target
         \/ epc'[Sweeper] = "idle"
         \/ epc'[Sweeper] = "alive" /\ target' # None
         \/ /\ epc[Sweeper] \in {"alive", "erase", "erasing"} /\ target' = target
            /\ epc'[Sweeper] \in {"abort", "erase", "erasing"}
         \/ EraseCommits(Sweeper)
<1>1. Sweeper \in Processes /\ epc \in [Processes ->
        {"idle", "alive", "device", "abort", "erase", "erasing", "mark", "done"}]
  BY DEF Processes, KInv, ErasingTyped
<1>2. ASSUME NEW e \in Erasers, EraseNow(e)
      PROVE  epc'[Sweeper] = epc[Sweeper] /\ target' = target
  <2>1. e # Sweeper
    BY ErasersAssumption
  <2>2. target' = target /\ \E to : epc' = [epc EXCEPT ![e] = to]
    BY <1>2, <2>1 DEF EraseNow, EraseNowReadsUser, EraseNowReadsDevice, EraseNowMarks, Erase,
       EraseDeletesLog, EraseCommits, EraseFails, Moves
  <2>3. QED
    BY <1>1, <2>1, <2>2
<1>3. CASE Sweep
  <2>1. CASE SweepAborts \/ SweepMarksExecuted \/ EraseFails(Sweeper)
    BY <1>1, <2>1 DEF SweepAborts, SweepMarksExecuted, SweepEnds, EraseFails, Moves
  <2>2. CASE SweepCountsAlive \/ EraseDeletesLog(Sweeper)
    BY <1>1, <2>2 DEF SweepCountsAlive, EraseDeletesLog, Moves
  <2>3. ASSUME NEW q \in Requests, SweepSelects(q)
        PROVE  epc'[Sweeper] = "alive" /\ target' # None
    BY <1>1, <2>3, ErasersAssumption DEF SweepSelects, Moves
  <2>4. QED
    BY <1>3, <2>1, <2>2, <2>3 DEF Sweep, Erase
<1>4. CASE Restart
  BY <1>1, <1>4 DEF Restart
<1>5. CASE UNCHANGED << epc, target >>
  BY <1>5
<1>6. Sweep \/ Restart \/ (\E e \in Erasers : EraseNow(e)) \/ UNCHANGED << epc, target >>
  BY DEF KNext, DeviceStep, Filing, RequestReadsUser, RequestReadsDevices, RequestReadsPending,
     RequestInserts, RequestMails, Files, Elapses, Cancel, CheckIn, AbortOnDeviceSeen,
     SetLockdown, erasing, kvars
<1>7. QED
  BY <1>2, <1>3, <1>4, <1>5, <1>6

LEMMA NextHolds == HoldInv /\ [KNext]_kvars => HoldInv'
<1> SUFFICES ASSUME HoldInv, [KNext]_kvars PROVE SweepHolds'
  BY NextTyped DEF HoldInv
<1>1. KInv /\ SweepHolds
  BY DEF HoldInv
<1>2. CASE EraseCommits(Sweeper)
  <2>1. epc[Sweeper] = "erasing" /\ target' = target /\ enrolled' = {}
    BY <1>2 DEF EraseCommits, Moves
  <2>2. QED
    BY <1>1, <2>1 DEF SweepHolds
<1>3. CASE epc'[Sweeper] = "mark" /\ epc[Sweeper] = "mark" /\ target' = target
  <2>1. /\ target \in Requests /\ request[target].made /\ rpc[target] # "mail"
        /\ enrolled \subseteq request[target].seen
    BY <1>1, <1>3 DEF SweepHolds, KInv, FilingInv
  <2>2. enrolled' \subseteq request'[target].seen
    BY <1>1, <2>1, ErasedStaysErased
  <2>3. QED
    BY <1>1, <1>3, <2>2 DEF SweepHolds
<1>4. CASE epc'[Sweeper] # "mark" /\ ~ EraseCommits(Sweeper)
  <2>1. epc'[Sweeper] \in {"alive", "abort", "erase", "erasing"} => target' # None
    BY <1>1, <1>4, SweepMoves DEF SweepHolds
  <2>2. QED
    BY <1>4, <2>1 DEF SweepHolds
<1>5. QED
  BY <1>1, <1>2, <1>3, <1>4, SweepMoves

LEMMA HoldInvariant == KSpec => []HoldInv
<1>1. KInit => HoldInv
  <2>1. KInit => epc[Sweeper] = "idle"
    BY DEF KInit, Processes
  <2>2. QED
    BY <2>1, InitFiling, InitTyped DEF HoldInv, KInv, SweepHolds
<1>2. QED
  BY <1>1, NextHolds, PTL DEF KSpec

\* Whoever erases besides it, the sweep reports an erasure done when no device is
\* left that was there before the request and was not heard of since.
THEOREM SweepMeansErased == KSpec => []SweepErased
<1>1. HoldInv => SweepErased
  BY DEF HoldInv, SweepHolds, SweepErased
<1>2. QED
  BY <1>1, HoldInvariant, PTL

\* What the handlers of DeviceLog do to the two tables: nothing, or a device and
\* its entry come together, or the entry of a revocation comes.
LEMMA DevicesComeLogged ==
  ASSUME KInv, EnrolledAreLogged, DeviceStep
  PROVE  EnrolledAreLogged'
<1>1. CASE UNCHANGED << log, enrolled >>
  BY <1>1 DEF EnrolledAreLogged
<1>2. ASSUME NEW h \in Handlers, InsertDevice(h)
      PROVE  EnrolledAreLogged'
  <2>1. PICK signer : log' = log \cup {Row(h, signer, h)}
    BY <1>2 DEF InsertDevice
  <2> DEFINE r == Row(h, signer, h)
  <2>2. r.kind # "revoke" /\ r.device = h /\ enrolled' = enrolled \cup {h}
    BY <1>2 DEF InsertDevice, Row
  <2> HIDE DEF r
  <2>3. log' = log \cup {r}
    BY <2>1 DEF r
  <2>4. QED
    BY <2>2, <2>3 DEF EnrolledAreLogged
<1>3. ASSUME NEW h \in Handlers, InsertRevocation(h)
      PROVE  EnrolledAreLogged'
  BY <1>3 DEF InsertRevocation, EnrolledAreLogged
<1>4. \/ UNCHANGED << log, enrolled >>
      \/ \E h \in Handlers : InsertDevice(h) \/ InsertRevocation(h)
  BY DEF DeviceStep, Server, Client, GenesisReadsDevices, AddReadsDevices, AddReadsGrant,
     AddTakesGrant, RevokeReadsTarget, RevokeReadsSigner, ReadsHead, SeqConflict, ReadThen, Answer,
     PostGenesis, PostAddDevice, PostRevoke, Resend, Post, IssueGrant, GrantExpires, db
<1>5. QED
  BY <1>1, <1>2, <1>3, <1>4

\* Everybody else leaves both tables alone, or commits an erasure.
LEMMA OnlyErasuresRemove ==
  ASSUME [KNext]_kvars, ~ DeviceStep
  PROVE  UNCHANGED << log, enrolled >> \/ enrolled' = {}
BY DEF KNext, Filing, RequestReadsUser, RequestReadsDevices, RequestReadsPending, RequestInserts,
   RequestMails, Files, Elapses, Cancel, CheckIn, AbortOnDeviceSeen, Sweep, SweepSelects,
   SweepCountsAlive, SweepAborts, SweepMarksExecuted, SweepEnds, EraseNow, EraseNowReadsUser,
   EraseNowReadsDevice, EraseNowMarks, Erase, EraseDeletesLog, EraseCommits, EraseFails,
   SetLockdown, Restart, vars, kvars, db

\* Whatever commits between the two DELETEs of an erasure and however many of
\* them run, no device is left without the entry that enrolled it.
THEOREM DevicesAreLogged == KSpec => []EnrolledAreLogged
<1>1. KInit => EnrolledAreLogged
  BY DEF KInit, Init, EnrolledAreLogged
<1>2. KInv /\ EnrolledAreLogged /\ [KNext]_kvars => EnrolledAreLogged'
  <2> SUFFICES ASSUME KInv, EnrolledAreLogged, [KNext]_kvars PROVE EnrolledAreLogged'
    OBVIOUS
  <2>1. CASE DeviceStep
    BY <2>1, DevicesComeLogged
  <2>2. CASE ~ DeviceStep
    BY <2>2, OnlyErasuresRemove DEF EnrolledAreLogged
  <2>3. QED
    BY <2>1, <2>2
<1>3. QED
  BY <1>1, <1>2, ErasureInvariant, PTL DEF KSpec
=============================================================================
