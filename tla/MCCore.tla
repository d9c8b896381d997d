------------------------------- MODULE MCCore -------------------------------
(* Core with small sets of requests and ports.  Requests are alike, so the  *)
(* runs that check invariants only use their symmetry.                      *)
EXTENDS Core, TLC

CONSTANTS r1, r2, p1

RequestSymmetry == Permutations(Requests)

OneInterface == {FALSE}
BothInterfaces == BOOLEAN
=============================================================================
