----------------------------- MODULE MCParcels -----------------------------
(* Small instances of Parcels for TLC.                                     *)
EXTENDS ParcelsProperties, TLC

CONSTANTS a, b, k1, k2, p1, p2

MCFee == [r \in Parcels |-> IF r = a THEN 2 ELSE 3]
MCMethods == [r \in Parcels |-> IF r = a THEN {"CASH"} ELSE {"MPESA"}]
MCScores == [r \in Parcels |-> IF r = a THEN {2} ELSE {5}]
Symmetry == Permutations(Riders) \cup Permutations(Procs)
=============================================================================
