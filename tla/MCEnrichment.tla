---------------------------- MODULE MCEnrichment ----------------------------
(* Instances of Enrichment for TLC. *)
EXTENDS Enrichment, TLC

CONSTANTS a1, a2, a3, d1, d2, l1

\* a1 and a2 repeat one another.
MutualRepeat == {<<a1, a2>>, <<a2, a1>>}

WorkerSymmetry == Permutations({d1, d2})
=============================================================================
