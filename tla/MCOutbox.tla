------------------------------ MODULE MCOutbox ------------------------------
(* The second message carries a file. *)
EXTENDS Outbox

CONSTANTS t1, t2, e1, e2, f1

MCFilesOf == [e \in Entry |-> IF e = e2 THEN {f1} ELSE {}]
MCTextOf  == [e \in Entry |-> e]

\* A bound: the first page looks at its disk, which is empty, before anything else
\* happens.  What a late load meets is met after a reload.
LoadsFirst ==
    \A t \in Tab : page[t] = "new" /\ drops = 0 => \E s \in Tab : page'[s] # page[s]
=============================================================================
