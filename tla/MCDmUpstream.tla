---------------------------- MODULE MCDmUpstream ----------------------------
(* Instances of DmUpstream for TLC. *)
EXTENDS DmUpstream, TLC

CONSTANTS c1, c2, sub1, sub2

CallersSymmetry == Permutations(Callers)
=============================================================================
