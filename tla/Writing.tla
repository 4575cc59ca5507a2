------------------------------ MODULE Writing ------------------------------
(***************************************************************************)
(* How the text of one article is made (gpt_processor.py): a web search,   *)
(* a rewrite by the first provider that gives an acceptable draft, one     *)
(* expansion of a draft that is only too short, one repair of a draft that *)
(* lacks a heading or a link, and the store.  Module Enrichment has all of *)
(* this as one step that succeeds or fails; here each request to a model   *)
(* is a step.  A text is only its kind.                                    *)
(***************************************************************************)
EXTENDS Batch, Naturals, Sequences

CONSTANTS Order,         \* text providers in order of preference
          MaxRetries,    \* MAX_RETRIES, the requests of one exchange
          WebSearch      \* USE_WEB_SEARCH

ASSUME WritingAssumption ==
    /\ Len(Order) > 0 /\ \A i \in DOMAIN Order : Order[i] \in {"grok", "openai"}
    /\ MaxRetries \in Nat \ {0}
    /\ WebSearch \in BOOLEAN

\* What a model may answer: no JSON object, a text that fails hard validation,
\* one that fails only by its length, one that lacks its description alone, one
\* that passes although a field has a type the later steps cannot take, one that
\* lacks a heading or a link, and one that lacks nothing.
Kinds == {"notjson", "invalid", "short", "undescribed", "mistyped", "thin", "good"}
HardValid == {"mistyped", "thin", "good"}
Usable == {"thin", "good"}

\* A missing description is taken from a sentence of the body or from the title;
\* where no sentence will do, the text stays invalid.
Described(k) == IF k = "undescribed" THEN {"invalid", "thin", "good"} ELSE {k}

VARIABLES stored,     \* articles whose text is in rich_crpytonews
          taken,      \* articles this run of process_batch has taken up
          job         \* the article at work and how far it is

textVars == <<stored, taken, job>>

NoDraft == "none"
Phases == {"idle", "research", "rewrite", "expand", "repair", "store"}
IdleJob == [on |-> NoArticle, phase |-> "idle", at |-> 1, asked |-> 0,
            plain |-> FALSE, nudged |-> FALSE, draft |-> NoDraft, seen |-> {}]

TextTypeOK ==
    /\ stored \subseteq Articles /\ taken \subseteq Articles
    /\ job \in [on : Articles \cup {NoArticle}, phase : Phases, at : 1..Len(Order),
                asked : 0..(MaxRetries - 1), plain : BOOLEAN, nudged : BOOLEAN,
                draft : HardValid \cup {NoDraft}, seen : SUBSET HardValid]

TextInit == stored = {} /\ taken = {} /\ job = IdleJob

(* ------------------------------ exchanges ------------------------------ *)

\* A new exchange with the provider at place i of the order.
Asking(j, phase, i) == [j EXCEPT !.phase = phase, !.at = i, !.asked = 0,
                                 !.plain = FALSE, !.nudged = FALSE]

\* process_one reports a failure; the article stays unprocessed.  What was seen
\* of it is kept until the next article begins.
Ended(j) == [IdleJob EXCEPT !.seen = j.seen]

\* A failed repair is dropped and the draft kept; mutant: it fails the article.
GivesUp_RepairToo(j) ==
    IF j.at < Len(Order) /\ j.phase # "repair" THEN Asking(j, "rewrite", j.at + 1)
    ELSE Ended(j)

\* The provider has failed: the next one starts over from the rewrite, the last
\* one fails the article; in the repair the draft is kept as it was.
GivesUp(j) ==
    CASE j.phase = "repair" -> [j EXCEPT !.phase = "store"]
      [] j.phase # "repair" /\ j.at < Len(Order) -> Asking(j, "rewrite", j.at + 1)
      [] OTHER -> Ended(j)

\* One request of the exchange is spent on a failure that is worth another;
\* mutant: one too many is made.
Spent_OffByOne(j) == IF j.asked < MaxRetries THEN [j EXCEPT !.asked = @ + 1] ELSE GivesUp(j)
Spent(j) == IF j.asked + 1 < MaxRetries THEN [j EXCEPT !.asked = @ + 1] ELSE GivesUp(j)

\* A draft that passed hard validation is checked for what a repair can add, by
\* the provider that wrote it; a field of the wrong type ends the article there.
Accepted(j, k) ==
    CASE k = "mistyped" -> Ended(j)
      [] k = "thin"     -> [Asking(j, "repair", j.at) EXCEPT !.draft = k]
      [] OTHER          -> [j EXCEPT !.phase = "store", !.draft = k]

\* The repaired text replaces the draft if it passes hard validation.
Repaired(j, k) ==
    CASE k = "mistyped" -> Ended(j)
      [] k \in Usable   -> [j EXCEPT !.phase = "store", !.draft = k]
      [] OTHER          -> GivesUp(j)

Taken(j, k) ==
    CASE j.phase = "repair"                 -> Repaired(j, k)
      [] j.phase = "rewrite" /\ k = "short" -> Asking(j, "expand", j.at)
      [] j.phase # "repair" /\ k \in HardValid -> Accepted(j, k)
      [] OTHER                              -> GivesUp(j)

(* ------------------------------- actions ------------------------------- *)

Grok == job.phase \in {"rewrite", "expand", "repair"} /\ Order[job.at] = "grok"
OpenAI == job.phase \in {"rewrite", "expand", "repair"} /\ Order[job.at] = "openai"

Works(j) == job' = j /\ UNCHANGED <<stored, taken>>

\* process_one takes up an article (the duplicate checks before this are module
\* Enrichment's) and searches the web unless that is off.
Begin(a) ==
    /\ job.on = NoArticle /\ a \notin stored \cup taken
    /\ taken' = taken \cup {a}
    /\ job' = Asking([IdleJob EXCEPT !.on = a],
                     IF WebSearch THEN "research" ELSE "rewrite", 1)
    /\ UNCHANGED stored

\* Too many requests or service unavailable; the last such answer fails it.
ResearchBusy ==
    /\ job.phase = "research"
    /\ Works(IF job.asked + 1 < MaxRetries THEN [job EXCEPT !.asked = @ + 1]
             ELSE Ended(job))

\* Any other error, or a response without a completed search and usable text.
ResearchFails == job.phase = "research" /\ Works(Ended(job))

ResearchAnswers == job.phase = "research" /\ Works(Asking(job, "rewrite", 1))

\* The request fails, times out or is refused with a status worth a retry.
Unavailable == (Grok \/ OpenAI) /\ Works(Spent(job))

\* Grok does not know reasoning_effort: once per exchange it is left out, and the
\* request counts.
EffortRefused == Grok /\ ~job.plain /\ Works([Spent(job) EXCEPT
    !.plain = IF job.asked + 1 < MaxRetries THEN TRUE ELSE @])

\* Grok answers with nothing, half a text or a malformed response.
GrokUseless == Grok /\ Works(GivesUp(job))

\* OpenAI answers with nothing or half a text: it is asked once more, for less
\* reasoning and with a larger budget.
OpenAITruncated ==
    /\ OpenAI
    /\ Works(IF ~job.nudged /\ job.asked + 1 < MaxRetries
             THEN [job EXCEPT !.asked = @ + 1, !.nudged = TRUE] ELSE GivesUp(job))

\* OpenAI refuses for good, or answers with a malformed response.
OpenAIRefused == OpenAI /\ Works(GivesUp(job))

\* A complete answer, described where it can be, parsed and validated.
Answers ==
    /\ Grok \/ OpenAI
    /\ \E kind \in Kinds : \E k \in Described(kind) :
         Works(Taken([job EXCEPT !.seen = @ \cup ({k} \cap HardValid)], k))

\* Cleanup of slug, description, alternative text and links leaves a valid text
\* valid; it is stored.
StoreText ==
    /\ job.phase = "store"
    /\ stored' = stored \cup {job.on}
    /\ job' = Ended(job)
    /\ UNCHANGED taken

StoreTextFails == job.phase = "store" /\ Works(Ended(job))

TextNext ==
    \/ \E a \in Articles : Begin(a)
    \/ ResearchBusy \/ ResearchFails \/ ResearchAnswers
    \/ Unavailable \/ EffortRefused \/ GrokUseless
    \/ OpenAITruncated \/ OpenAIRefused \/ Answers
    \/ StoreText \/ StoreTextFails

TextSpec == TextInit /\ [][TextNext]_textVars

(* ------------------------------ properties ----------------------------- *)

\* Once a provider has given a usable text, the article is stored unless the
\* database refuses it: neither the other providers, the expansion nor the
\* repair of that text loses it.  The code has one exception, which this names:
\* a repaired text that passes validation with a field of the wrong type
\* replaces the draft and then fails the article (repair_if_needed, process_one).
DraftIsNeverLost ==
    [][(job.on # NoArticle /\ job'.on = NoArticle /\ job.on \notin stored')
       => \/ job.phase = "store"
          \/ job'.seen \cap Usable = {}
          \/ job.phase = "repair" /\ "mistyped" \in job'.seen]_textVars
=============================================================================
