--------------------------- MODULE DeviceRegistry ---------------------------
(***************************************************************************)
(* What the device endpoints promise an account: its devices change one at *)
(* a time, and each change is decided on the devices there are at that     *)
(* moment.  No requests, no log, no races; DeviceLog implements this.      *)
(***************************************************************************)
EXTENDS Integers, FiniteSets

CONSTANTS Devices, MaxDevices

VARIABLES enrolled, revoked

Active == enrolled \ revoked

Init == enrolled = {} /\ revoked = {}

\* The first device founds the identity, once.
Found(d) ==
  /\ enrolled = {}
  /\ enrolled' = {d}
  /\ UNCHANGED revoked

\* An active device signs a new one in, while there is room.
Add(d, signer) ==
  /\ signer \in Active
  /\ d \notin enrolled
  /\ Cardinality(Active) < MaxDevices
  /\ enrolled' = enrolled \cup {d}
  /\ UNCHANGED revoked

\* An active device signs another active one out.
Revoke(d, signer) ==
  /\ signer \in Active /\ d \in Active /\ d # signer
  /\ revoked' = revoked \cup {d}
  /\ UNCHANGED enrolled

Next ==
  \E d \in Devices :
    \/ Found(d)
    \/ \E signer \in Devices : Add(d, signer) \/ Revoke(d, signer)

Spec == Init /\ [][Next]_<< enrolled, revoked >>
=============================================================================
