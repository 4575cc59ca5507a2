---------------------------- MODULE MCOperations ----------------------------
\* Small instances of module Operations.
EXTENDS Operations, TLC

Symmetry == Permutations(Workers)
=============================================================================
