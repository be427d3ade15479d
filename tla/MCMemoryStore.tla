---------------------------- MODULE MCMemoryStore ----------------------------
(***************************************************************************)
(* Instances of MemoryStore for TLC.                                       *)
(***************************************************************************)
EXTENDS MemoryStore, TLC

CONSTANTS k1, a, b, p1, p2

MCOneKey == {k1}
MCTags == {a, b}
MCThreads == {p1, p2}

PolicyOf(na, nb, slides) ==
  [tags |-> a :> na @@ b :> nb, sliding |-> slides, duration |-> 1]

\* Profiles may be replaced while the cache runs, so a key meets several
\* policies: repeated tags, other tags, sliding or not.
MCChangingPolicies ==
  [k \in MCOneKey |-> {PolicyOf(2, 0, FALSE), PolicyOf(1, 1, TRUE)}]

\* The key keeps the options its route was registered with: entries slide and
\* carry one of the two tags.
MCSlidingPolicies == [k \in MCOneKey |-> {PolicyOf(1, 0, TRUE)}]

Symmetry == Permutations(MCThreads)
=============================================================================
