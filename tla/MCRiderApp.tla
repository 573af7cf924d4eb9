----------------------------- MODULE MCRiderApp -----------------------------
(* A small instance of RiderApp for TLC.                                   *)
EXTENDS RiderApp

CONSTANTS r1, k1, k2, p1, none
=============================================================================
