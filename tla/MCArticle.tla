----------------------------- MODULE MCArticle ------------------------------
(***************************************************************************)
(* Two articles, grok before openai, two requests to an exchange, and four *)
(* stock images: two deliveries of one image under one address, a third    *)
(* image with the same content, and one below its threshold.               *)
(***************************************************************************)
EXTENDS Article

Image(provider, url, asset, content, score, fit) ==
    [provider |-> provider, url |-> url, asset |-> asset, content |-> content,
     score |-> score, fit |-> fit, safe |-> TRUE]

MCCatalog == <<Image("pexels",    "u1", "k1", "x1", 9, TRUE),
               Image("pixabay",   "u2", "k2", "x2", 4, FALSE),
               Image("openverse", "u1", "k1", "x1", 8, TRUE),
               Image("wikimedia", "u3", "k3", "x1", 7, TRUE)>>

Base == [engine |-> "v2", mode |-> "hybrid", priority |-> "stock_first",
         source |-> FALSE, rescue |-> TRUE, required |-> FALSE, after |-> TRUE,
         onError |-> FALSE, primary |-> "grok", fallback |-> TRUE, history |-> TRUE]

MCConfigs == {Base,
              [Base EXCEPT !.source = TRUE, !.priority = "source_first", !.required = TRUE],
              [Base EXCEPT !.rescue = FALSE, !.source = TRUE],
              [Base EXCEPT !.mode = "stock", !.history = FALSE, !.onError = TRUE],
              [Base EXCEPT !.engine = "v1", !.source = TRUE, !.primary = "openai"],
              [Base EXCEPT !.engine = "v1", !.mode = "stock"],
              [Base EXCEPT !.mode = "source", !.source = TRUE],
              [Base EXCEPT !.priority = "grok_only", !.fallback = FALSE],
              [Base EXCEPT !.mode = "openai"]}

MCOrder == <<"grok", "openai">>
=============================================================================
