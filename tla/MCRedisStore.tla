----------------------------- MODULE MCRedisStore -----------------------------
(***************************************************************************)
(* Instances of RedisStore for TLC.                                        *)
(***************************************************************************)
EXTENDS RedisStore, TLC

CONSTANTS k1, a, b, p1, p2

MCKeys == {k1}
MCTags == {a, b}
MCThreads == {p1, p2}

\* A sliding response under one tag, a fixed one under both.
MCPolicies ==
  [k \in MCKeys |-> {[tags |-> {a}, sliding |-> TRUE], [tags |-> {a, b}, sliding |-> FALSE]}]

Symmetry == Permutations(MCThreads)
=============================================================================
