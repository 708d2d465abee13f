---------------------------- MODULE MCKeyErasure ----------------------------
(* Instances of KeyErasure for TLC.                                        *)
EXTENDS KeyErasure

CONSTANTS h1, h2, h3, t1, q1, q2, e1

TwoHandlers   == {h1, h2}
ThreeHandlers == {h1, h2, h3}
OneTransfer   == {t1}
OneRequest    == {q1}
TwoRequests   == {q1, q2}
OneEraser     == {e1}
NoErasers     == {}
NoRequests    == {}
NoTransfers   == {}

\* Nothing tells the two requests apart: which of them is the first to begin is a
\* matter of their names.  The second device enrols after the first: two at once
\* are what the instance of DeviceLog is about, and what an insertion meets that
\* was posted before an erasure, one posted after it meets as well.
InTurn ==
  /\ rpc[q1] = "idle" => rpc[q2] = "idle"
  /\ pc[h1] \notin {"done", "refused"} => pc[h2] = "unsent"

\* A lockdown refuses what need not be tried anyway, so that it is enough to see
\* it in place when the first request is filed.
LockdownEarly == locked => rpc[q1] \in {"idle", "refused"} /\ rpc[q2] = "idle"
=============================================================================
