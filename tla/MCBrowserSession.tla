-------------------------- MODULE MCBrowserSession --------------------------
(* Small instances of BrowserSession for TLC.                              *)
EXTENDS BrowserSessionProperties, TLC

CONSTANTS a, b, s1, s2, none

Symmetry == Permutations(Tabs) \cup Permutations(Slots)
=============================================================================
