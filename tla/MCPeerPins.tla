----------------------------- MODULE MCPeerPins -----------------------------
(* Instances of PeerPins for TLC. *)
EXTENDS PeerPins, TLC

CONSTANTS t1, t2

OneTask  == {t1}
TwoTasks == {t1, t2}
Symmetry == Permutations(TwoTasks)

\* Only the alert the user can accept is kept on the screen: a state with another
\* one is checked but not continued.  Nothing is lost by that: no operation looks
\* at the others, and an operation that ends with one leaves its pin, its task and
\* everything else as a fetch that fails, or a message without a head, does.
OneAlert == alerts \subseteq {"identity-changed"}
=============================================================================
