----------------------------- MODULE MCSessions -----------------------------
\* Two browsers, with a page each.
EXTENDS Sessions, TLC

CONSTANTS t1, t2, t3, b1, b2, k1, k2, k3, k4, p1, p2

MCHome == [t \in Page |-> IF t = t3 THEN b2 ELSE b1]

\* A browser and its page may change places with the other ones.
Swap == (t1 :> t3) @@ (t3 :> t1) @@ (b1 :> b2) @@ (b2 :> b1)
Symmetry == Permutations(Token) \union Permutations(Task) \union {Swap}
=============================================================================
