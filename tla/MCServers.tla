----------------------------- MODULE MCServers -----------------------------
\* A moderator, a plain member who may get a role, and a role above both that holds
\* what neither does.
EXTENDS Servers, TLC

CONSTANTS u1, u2, everyone, top, mods, spare, p1, p2

MCInitRank   == (everyone :> 0) @@ (top :> 2) @@ (mods :> 1) @@ (spare :> None)
MCInitGrants == (everyone :> {}) @@ (top :> {"admin"}) @@ (mods :> {"roles", "kick", "ban"}) @@ (spare :> {})
MCInitWorn   == (u1 :> {mods}) @@ (u2 :> {})
Symmetry     == Permutations(Task)
=============================================================================
