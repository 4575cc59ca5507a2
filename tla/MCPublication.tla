--------------------------- MODULE MCPublication ---------------------------
(* Instances of Publication for TLC. *)
EXTENDS Publication, TLC

CONSTANTS a1, a2, d1, d2, l1, l2

\* Each of two articles is a confirmed duplicate of the other.
MutualPair == {<<a1, a2>>, <<a2, a1>>}

ArticleSymmetry == Permutations({a1, a2})
LegacySymmetry == ArticleSymmetry \union Permutations({l1, l2})
=============================================================================
