------------------------------ MODULE MCDmCall ------------------------------
(* Instances of DmCall for TLC: two users with two conversations, a direct   *)
(* message and a group the others have left; and a group of three.           *)
EXTENDS DmCall, TLC

CONSTANTS a, b, d, dm1, dm2, group, p1, p2

TwoUsers     == {a, b}
ThreeUsers   == {a, b, d}
TwoChannels  == {dm1, dm2}
OneChannel   == {group}
TwoMembers   == [c \in {dm1, dm2} |-> {a, b}]
GroupMembers == [c \in {group} |-> {a, b, d}]
TwoAtATime   == {p1, p2}

\* The handlers, the users and the conversations are alike.  No list of writes
\* names two users, so that the order CHOOSE gives to a set is of no account.
Symmetry == {f @@ g @@ h : f \in Permutations({a, b}),
                           g \in Permutations({dm1, dm2}), h \in Permutations({p1, p2})}

(***************************************************************************)
(* Bounds: one conversation stays in order, or there is nothing left to    *)
(* check of the keys and cards; and once one is not, nothing else fails.   *)
(***************************************************************************)
OneInOrder == InOrder # {}

FailsOnce == muddled # {} => ~ Restart /\ \A p \in Processes : ~ GivesUp(p)
=============================================================================
