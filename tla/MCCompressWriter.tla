--------------------------- MODULE MCCompressWriter ---------------------------
(***************************************************************************)
(* Instances of CompressWriter for TLC.                                    *)
(***************************************************************************)
EXTENDS CompressWriter, TLC

CONSTANTS r1, r2, e1, e2

MCResponses == {r1, r2}
MCEncoders == {e1, e2}

Symmetry == Permutations(MCResponses) \cup Permutations(MCEncoders)
=============================================================================
