------------------------------ MODULE MCRides ------------------------------
(* Small instances of Rides for TLC.                                       *)
EXTENDS RidesProperties, TLC

CONSTANTS r1, r2, k1, k2, p1, p2

MCFare == [r \in Rides |-> IF r = r1 THEN 2 ELSE 3]
Symmetry == Permutations(Riders) \cup Permutations(Procs)
=============================================================================
