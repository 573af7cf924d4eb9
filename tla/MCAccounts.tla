---------------------------- MODULE MCAccounts ----------------------------
(* Small instances of Accounts for TLC.                                    *)
EXTENDS AccountsProperties, TLC

CONSTANTS a1, c1, c2, p1, p2

Symmetry == Permutations(Codes) \cup Permutations(Procs)
=============================================================================
