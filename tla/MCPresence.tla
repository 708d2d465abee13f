----------------------------- MODULE MCPresence -----------------------------
EXTENDS Presence

CONSTANTS s1, s2, p1, p2
=============================================================================
