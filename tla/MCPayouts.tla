----------------------------- MODULE MCPayouts -----------------------------
(* Small instances of Payouts for TLC.                                     *)
EXTENDS PayoutsProperties, TLC

CONSTANTS k1, k2, o1, o2, o3, p1, p2

Symmetry == Permutations(Riders) \cup Permutations(Ids) \cup Permutations(Procs)
=============================================================================
