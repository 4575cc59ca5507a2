-------------------------------- MODULE Batch -------------------------------
(* The articles that one pass of the pipeline writes and publishes.        *)

CONSTANTS Articles,      \* rows of the batch
          NoArticle      \* no article at work

ASSUME BatchAssumption == NoArticle \notin Articles
=============================================================================
