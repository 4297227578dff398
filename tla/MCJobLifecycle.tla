--------------------------- MODULE MCJobLifecycle ---------------------------
(* Small instances of JobLifecycle for TLC.                                 *)
EXTENDS JobLifecycle, TLC

CONSTANTS w1, w2, w3, w4, c1, c2, u1, u2

Symmetry == Permutations(Workers) \cup Permutations(Clients)
WorkerSymmetry == Permutations(Workers)
=============================================================================
