---------------------------- MODULE MCLoginFlow ----------------------------
(* The sign-in for TLC: tabs are interchangeable, and so are flows.        *)
EXTENDS LoginFlow, TLC

Symmetry == Permutations(Tab) \cup Permutations(Flow)
=============================================================================
