------------------------------- MODULE Article ------------------------------
(***************************************************************************)
(* One pass of the pipeline over a batch of articles: process_batch writes *)
(* their texts (module Writing), then the publisher gives each one that    *)
(* has a text its image and its post (module Media).  A text that could    *)
(* not be made costs its article this pass and nothing else.               *)
(***************************************************************************)
EXTENDS Writing, Media

VARIABLE stage    \* "process", then "publish"

vars == <<textVars, mediaVars, stage>>

TypeOK == TextTypeOK /\ MediaTypeOK /\ stage \in {"process", "publish"}

Init == TextInit /\ MediaInit /\ stage = "process"

Writes == stage = "process" /\ TextNext /\ UNCHANGED <<mediaVars, stage>>

\* All articles of the batch have had their turn.
EndProcess ==
    /\ stage = "process" /\ job.on = NoArticle /\ Articles \subseteq stored \cup taken
    /\ stage' = "publish" /\ taken' = {} /\ job' = IdleJob
    /\ UNCHANGED <<stored, mediaVars>>

Publishes ==
    /\ stage = "publish" /\ MediaNext
    /\ run'.on \in stored \cup {NoArticle}
    /\ UNCHANGED <<textVars, stage>>

Next == Writes \/ EndProcess \/ Publishes

Spec == Init /\ [][Next]_vars
=============================================================================
