------------------------------- MODULE Billing -------------------------------
(***************************************************************************)
(* How the cost reporter reads one month to date of recorded spending from *)
(* its two providers.  OpenAI serves daily buckets over pages; xAI serves  *)
(* dense daily series grouped by description, and is asked a second,       *)
(* ungrouped time when the first answer is explicitly empty.  Anything     *)
(* that is missing, repeated or contradictory ends the whole fetch: no     *)
(* amount is inferred.                                                     *)
(*                                                                         *)
(* Abstractions.  Days are numbered 1..Days and the last one is the day    *)
(* reported.  An amount is only zero or not zero, and the rows of a bucket *)
(* are added together; what matters is how often the costs of each day are *)
(* added.  Every refused answer, failed request and malformed body is      *)
(* FetchFails: the code raises and keeps nothing.                          *)
(***************************************************************************)
EXTENDS Naturals, FiniteSets

CONSTANTS
    Days,       \* days of the period, the report day last
    Cursors,    \* values of next_page
    Labels,     \* descriptions of the grouped usage series
    NoLabel,    \* no series is being read
    MaxPages    \* MAX_BILLING_PAGES

ASSUME PeriodAssumption == Days \in Nat \ {0}
ASSUME LabelsAssumption == NoLabel \notin Labels
ASSUME PagesAssumption == MaxPages \in Nat \ {0}

VARIABLES
    stage,    \* where the fetch is
    pages,    \* pages read, cursors followed, and whether this page had a bucket
    buckets,  \* seen_buckets
    openai,   \* how often the costs of each day were added
    series,   \* the xAI series: labels seen, and the days seen in the present one
    usage,    \* how often the costs of each day of each series were added
    spend     \* state and evidence of the xAI amounts

billingVars == <<stage, pages, buckets, openai, series, usage, spend>>

Period == 1..Days
Stages == {"idle", "openai", "grouped", "confirm", "series", "points", "done"}
Fetching == {"openai", "grouped", "confirm", "series", "points"}

NoPages == [read |-> 0, seen |-> {}, some |-> FALSE]
NoSeries == [labels |-> {}, label |-> NoLabel, days |-> {}, zero |-> FALSE,
             spent |-> FALSE, empty |-> 0]
Unknown == [state |-> "none", evidence |-> "none"]

BillingInit ==
    /\ stage = "idle"
    /\ pages = NoPages
    /\ buckets = {}
    /\ openai = [d \in Period |-> 0]
    /\ series = NoSeries
    /\ usage = [l \in Labels |-> [d \in Period |-> 0]]
    /\ spend = Unknown

\* What a fetch reads is local to it.
Forget(next) ==
    /\ stage' = next
    /\ pages' = NoPages
    /\ buckets' = {}
    /\ openai' = [d \in Period |-> 0]
    /\ series' = NoSeries
    /\ usage' = [l \in Labels |-> [d \in Period |-> 0]]
    /\ spend' = Unknown

StartFetch == Forget("openai")

\* The fetch raises: nothing it read is kept by its caller.
FetchFails == stage \in Fetching /\ Forget("idle")

\* The report is made of what was read.
UseAmounts == stage = "done" /\ Forget("idle")

-----------------------------------------------------------------------------
(* fetch_openai_costs *)

Unseen_Repeatable == Period
Unseen == Period \ buckets

\* One more bucket of the present page, for a day that no page has served.
ReadBucket(d) ==
    /\ stage = "openai"
    /\ d \in Unseen
    /\ buckets' = buckets \union {d}
    /\ openai' = [openai EXCEPT ![d] = @ + 1]
    /\ pages' = [pages EXCEPT !.some = TRUE]
    /\ UNCHANGED <<stage, series, usage, spend>>

\* has_more with a cursor not followed before, after a page with a bucket.
NextPage(c) ==
    /\ stage = "openai"
    /\ pages.some /\ c \notin pages.seen
    /\ pages.read + 1 < MaxPages
    /\ pages' = [read |-> pages.read + 1, seen |-> pages.seen \union {c}, some |-> FALSE]
    /\ UNCHANGED <<stage, buckets, openai, series, usage, spend>>

Covered == buckets = Period

\* The last page: every day of the period must have been served.
LastPage ==
    /\ stage = "openai"
    /\ Covered
    /\ stage' = "grouped"
    /\ UNCHANGED <<pages, buckets, openai, series, usage, spend>>

-----------------------------------------------------------------------------
(* fetch_xai_costs *)

\* timeSeries = []: ask once more without grouping.
GroupedEmpty ==
    /\ stage = "grouped"
    /\ stage' = "confirm"
    /\ series' = [series EXCEPT !.zero = TRUE, !.empty = @ + 1]
    /\ UNCHANGED <<pages, buckets, openai, usage, spend>>

GroupedUsage ==
    /\ stage = "grouped"
    /\ stage' = "series"
    /\ UNCHANGED <<pages, buckets, openai, series, usage, spend>>

\* Both answers are empty: no recorded usage, to be checked again later.
ConfirmedEmpty ==
    /\ stage = "confirm"
    /\ stage' = "done"
    /\ series' = [series EXCEPT !.empty = @ + 1]
    /\ spend' = [state |-> "NO_RECORDED_USAGE", evidence |-> "grouped_and_ungrouped_empty"]
    /\ UNCHANGED <<pages, buckets, openai, usage>>

ConfirmedUsage ==
    /\ stage = "confirm"
    /\ stage' = "series"
    /\ UNCHANGED <<pages, buckets, openai, series, usage, spend>>

NewLabel(l) == l \notin series.labels

\* The next series of the answer; a confirmation has exactly one.
OpenSeries(l) ==
    /\ stage = "series"
    /\ NewLabel(l)
    /\ series.zero => series.labels = {}
    /\ stage' = "points"
    /\ series' = [series EXCEPT !.labels = @ \union {l}, !.label = l, !.days = {}]
    /\ UNCHANGED <<pages, buckets, openai, usage, spend>>

ReadPoint(d, spent) ==
    /\ stage = "points"
    /\ d \in Period \ series.days
    /\ series' = [series EXCEPT !.days = @ \union {d}, !.spent = @ \/ spent]
    /\ usage' = [usage EXCEPT ![series.label][d] = @ + 1]
    /\ UNCHANGED <<stage, pages, buckets, openai, spend>>

\* A series is dense: it has a point for every day of the period.
CloseSeries ==
    /\ stage = "points"
    /\ series.days = Period
    /\ stage' = "series"
    /\ UNCHANGED <<pages, buckets, openai, series, usage, spend>>

AllZero_Unchecked == TRUE
AllZero == ~series.spent

\* A confirmation that counts spending contradicts the empty grouped answer.
FinishUsage ==
    /\ stage = "series"
    /\ series.labels # {}
    /\ series.zero => AllZero
    /\ stage' = "done"
    /\ spend' = [state |-> "RECORDED_SPENDING",
                 evidence |-> IF series.zero THEN "ungrouped_dense_zero_confirmation" ELSE "none"]
    /\ UNCHANGED <<pages, buckets, openai, series, usage>>

\* get_live_report: both providers must answer completely.
BillingStep ==
    \/ \E d \in Period : ReadBucket(d)
    \/ \E c \in Cursors : NextPage(c)
    \/ LastPage
    \/ GroupedEmpty \/ GroupedUsage
    \/ ConfirmedEmpty \/ ConfirmedUsage
    \/ \E l \in Labels : OpenSeries(l)
    \/ \E d \in Period, spent \in BOOLEAN : ReadPoint(d, spent)
    \/ CloseSeries
    \/ FinishUsage

\* What ends a fetch, or the use of its amounts, forgets what was read.
BillingNext ==
    \/ stage \in {"idle", "done"} /\ StartFetch
    \/ BillingStep
    \/ Forget("idle")

BillingSpec == BillingInit /\ [][BillingNext]_billingVars

-----------------------------------------------------------------------------
BillingTypeOK ==
    /\ stage \in Stages
    /\ pages \in [read: 0..(MaxPages - 1), seen: SUBSET Cursors, some: BOOLEAN]
    /\ buckets \subseteq Period
    /\ openai \in [Period -> Nat]
    /\ series \in [labels: SUBSET Labels, label: Labels \union {NoLabel}, days: SUBSET Period,
                   zero: BOOLEAN, spent: BOOLEAN, empty: 0..2]
    /\ usage \in [Labels -> [Period -> Nat]]
    /\ spend \in [state: {"none", "RECORDED_SPENDING", "NO_RECORDED_USAGE"},
                  evidence: {"none", "grouped_and_ungrouped_empty",
                             "ungrouped_dense_zero_confirmation"}]

\* The amounts of a finished fetch cover every day of the period exactly once,
\* per provider and per series, whatever pages and points they came in.
EveryDayCountedOnce ==
    stage = "done" =>
        /\ \A d \in Period : openai[d] = 1
        /\ \A l \in series.labels : \A d \in Period : usage[l][d] = 1
        /\ \A l \in Labels \ series.labels : \A d \in Period : usage[l][d] = 0

\* A zero is reported on evidence: without a series two answers were empty, and
\* a zero confirmation follows one empty answer and counts no spending
\* (validate_accounting_evidence).
ZeroHasEvidence ==
    stage = "done" =>
        /\ spend.state = "NO_RECORDED_USAGE" <=> series.labels = {}
        /\ series.labels = {} => series.empty = 2
        /\ series.spent => series.empty = 0
        /\ spend.evidence = "none" <=> series.empty = 0
=============================================================================
