---------------------------- MODULE MCTripPage ----------------------------
(* A small instance of TripPage for TLC.                                   *)
EXTENDS TripPageProperties

CONSTANTS t
=============================================================================
