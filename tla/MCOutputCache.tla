---------------------------- MODULE MCOutputCache ----------------------------
(***************************************************************************)
(* Instances of OutputCache for TLC.                                       *)
(***************************************************************************)
EXTENDS OutputCache, TLC

CONSTANTS p1, p2, k1

MCRequests == {p1, p2}
MCOneKey == {k1}

Symmetry == Permutations(MCRequests)
=============================================================================
