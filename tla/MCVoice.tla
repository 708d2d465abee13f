------------------------------ MODULE MCVoice ------------------------------
(* One user with two pages, one with a single page; a channel for one user and *)
(* one without a limit.                                                       *)
EXTENDS Voice, TLC

CONSTANTS u1, u2, s1, s2, s3, c1, c2, p1, p2

MCOwner == [s \in Socket |-> IF s = s3 THEN u2 ELSE u1]
MCLimit == [c \in Channel |-> IF c = c1 THEN 1 ELSE 0]
Symmetry == Permutations({s1, s2}) \union Permutations({p1, p2})
=============================================================================
