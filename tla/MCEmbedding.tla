----------------------------- MODULE MCEmbedding -----------------------------
(* Instances of Embedding for TLC. *)
EXTENDS Embedding, TLC

CONSTANTS a1, a2, w1, w2, i1

\* One article is edited once, the other never.
EditedOnce == (a1 :> 2) @@ (a2 :> 1)
=============================================================================
