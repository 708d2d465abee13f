----------------------------- MODULE MCDeviceLog -----------------------------
(* Small instances of DeviceLog for TLC. *)
EXTENDS DeviceLog, TLC

CONSTANTS h1, h2, h3, h4, h5, t1, t2

FiveHandlers == {h1, h2, h3, h4, h5}
TwoTransfers == {t1, t2}

\* Handlers and transfers are interchangeable: no definition names one.
Symmetry == Permutations(FiveHandlers) \cup Permutations(TwoTransfers)
=============================================================================
