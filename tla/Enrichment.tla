----------------------------- MODULE Enrichment -----------------------------
(***************************************************************************)
(* Enrichment of selected raw articles into publishable ones.              *)
(*                                                                         *)
(* A worker is one invocation of process_news_with_gpt().  A durable       *)
(* worker claims rows of cryptonewsapi with tokens and leases; a legacy    *)
(* worker reads a batch once and never claims.  No lock orders the         *)
(* workers: the lease is all there is.  The planner of the fetch cycle     *)
(* selects rows and the publisher takes up stored articles meanwhile; both *)
(* are reduced here to what they write into the two tables.                *)
(*                                                                         *)
(* Abstractions.  processing_status NULL and 'pending' are "none".  A      *)
(* scheduled row is within the lookahead window at once.  A claim token is *)
(* the worker that drew it.  The two duplicate assessments of process_one  *)
(* (lexical, then with semantic candidates) apply one policy and are one   *)
(* step; searching, rewriting and repairing the text are one step.         *)
(***************************************************************************)
EXTENDS Naturals, FiniteSets

CONSTANTS
    Articles,
    Durable,     \* invocations with PROCESS_DURABLE_CLAIMS_ENABLED
    Legacy,      \* invocations without
    None,        \* SQL NULL
    Repeats,     \* <<a, c>>: the policy confirms a as a duplicate of c
    Enforce,     \* DUPLICATE_ENFORCEMENT_MODE = "enforce"
    Poison,      \* articles whose enrichment fails every time
    BatchMin,    \* PROCESS_BATCH_MIN
    BatchMax,    \* PROCESS_BATCH_MAX
    MaxFaults    \* bound on crashes and failed calls

Workers == Durable \union Legacy

ASSUME EnrichmentAssumption ==
    /\ Durable \intersect Legacy = {}
    /\ None \notin Workers /\ None \notin Articles
    /\ IsFiniteSet(Articles)
    /\ Repeats \subseteq Articles \X Articles
    /\ Poison \subseteq Articles
    /\ Enforce \in BOOLEAN
    /\ {BatchMin, BatchMax, MaxFaults} \subseteq Nat

VARIABLES
    raw,     \* cryptonewsapi: selection, processing state and claim
    rich,    \* rich_crpytonews: what has become of the stored article
    pc,      \* next step of each worker
    item,    \* article a worker is on
    batch,   \* durable: ids attempted in this run; legacy: rest of the batch
    left,    \* durable: iterations left
    faults   \* faults still allowed

runVars == <<item, batch, left>>
vars == <<raw, rich, pc, item, batch, left, faults>>

Raw == [processed: BOOLEAN, chosen: BOOLEAN,
        st: {"none", "claimed", "retryable", "completed", "duplicate"},
        tok: Workers \union {None}, lease: {"none", "live", "expired"}]

\* "taken" is any open publication attempt without a post, "review" is manual_review.
RichStates == {"absent", "fresh", "taken", "posted", "review", "duplicate"}

Steps == {"idle", "loop", "assess", "reject", "enrich", "store", "finish", "failing"}

-----------------------------------------------------------------------------
(* Predicates and row updates of repositories/raw_news.py *)

Claimable_LiveToo(r) == ~r.processed /\ r.chosen /\ r.st \in {"none", "retryable", "claimed"}

Claimable(r) ==
    /\ ~r.processed /\ r.chosen
    /\ r.st \in {"none", "retryable"} \/ (r.st = "claimed" /\ r.lease = "expired")

Owned(a, w) == raw[a].st = "claimed" /\ raw[a].tok = w

Claimed(r, w) == [r EXCEPT !.st = "claimed", !.tok = w, !.lease = "live"]

Released(r, status) == [r EXCEPT !.st = status, !.tok = None, !.lease = "none"]

\* RawNewsRepository.reject_duplicate.
Retired(r) == [Released(r, "duplicate") EXCEPT !.processed = TRUE, !.chosen = FALSE]

MayRetire(a, w) ==
    /\ ~raw[a].processed /\ raw[a].chosen
    /\ IF w \in Durable THEN Owned(a, w)
       ELSE raw[a].st \in {"none", "retryable"} /\ raw[a].tok = None

Consumed_Overwriting(r) ==
    [r EXCEPT !.processed = TRUE, !.chosen = FALSE, !.st = "completed"]

\* PublicationRepository.reject_duplicate on the source row: a processing
\* worker keeps its claim.
Consumed(r) ==
    LET s == IF r.st \in {"claimed", "duplicate"} THEN r.st ELSE "completed"
    IN  [r EXCEPT !.processed = TRUE, !.chosen = FALSE, !.st = s]

\* Stored articles that a repeats and whose source row is not a duplicate.
Repeated(a) == {c \in Articles : <<a, c>> \in Repeats /\ raw[c].st # "duplicate"}

Anchors_Stored(a) == {c \in Repeated(a) : rich[c] \in {"fresh", "taken", "posted"}}

\* What suppresses a raw row: an article that is processed or has a post.
Anchors(a) ==
    {c \in Repeated(a) : \/ rich[c] = "posted"
                         \/ raw[c].processed /\ rich[c] \in {"fresh", "taken"}}

\* What the final guard of the publisher looks at: posts and open attempts.
PriorPosts(a) == {c \in Repeated(a) : rich[c] = "posted"}
OpenAttempts(a) == {c \in Repeated(a) : rich[c] \in {"taken", "review"}}

\* A new INSERT is fresh; an existing row keeps its publication state.
Stored_Refreshing(s) == "fresh"

Stored(s) == IF s = "absent" THEN "fresh" ELSE s

-----------------------------------------------------------------------------
Goto(w, step) == pc' = [pc EXCEPT ![w] = step]

Advance(w, step) == Goto(w, step) /\ UNCHANGED runVars

NextItem(w) ==
    /\ Goto(w, "loop")
    /\ item' = [item EXCEPT ![w] = None]
    /\ UNCHANGED <<batch, left>>

\* An exception: the durable loop releases the claim, the legacy loop counts it.
GiveUp(w) == IF w \in Durable THEN Advance(w, "failing") ELSE NextItem(w)

EndRun(w) ==
    /\ Goto(w, "idle")
    /\ item' = [item EXCEPT ![w] = None]
    /\ batch' = [batch EXCEPT ![w] = {}]
    /\ left' = [left EXCEPT ![w] = 0]

UseFault == faults > 0 /\ faults' = faults - 1

SetRaw(a, r) == raw' = [raw EXCEPT ![a] = r]

-----------------------------------------------------------------------------
(* A run of process_news_with_gpt *)

Pending(a) == ~raw[a].processed /\ raw[a].chosen

\* PROCESS_BATCH_MIN..PROCESS_BATCH_MAX around the number of due rows.
Limit ==
    LET n == Cardinality({a \in Articles : Pending(a)})
        capped == IF n < BatchMax THEN n ELSE BatchMax
    IN  IF capped < BatchMin THEN BatchMin ELSE capped

StartDurable(w) ==
    /\ pc[w] = "idle" /\ Limit > 0
    /\ left' = [left EXCEPT ![w] = Limit]
    /\ Goto(w, "loop")
    /\ UNCHANGED <<raw, rich, item, batch, faults>>

StartLegacy(w) ==
    LET pending == {a \in Articles : Pending(a)}
    IN  /\ pc[w] = "idle"
        /\ \E rows \in SUBSET pending :
              /\ rows # {}
              /\ Cardinality(rows) = Limit \/ (rows = pending /\ Cardinality(rows) < Limit)
              /\ batch' = [batch EXCEPT ![w] = rows]
        /\ Goto(w, "loop")
        /\ UNCHANGED <<raw, rich, item, left, faults>>

ClaimNext_Unexcluded(w, a) ==
    /\ pc[w] = "loop" /\ left[w] > 0
    /\ Claimable(raw[a])
    /\ SetRaw(a, Claimed(raw[a], w))
    /\ item' = [item EXCEPT ![w] = a]
    /\ batch' = [batch EXCEPT ![w] = @ \union {a}]
    /\ left' = [left EXCEPT ![w] = @ - 1]
    /\ Goto(w, "assess")
    /\ UNCHANGED <<rich, faults>>

\* claim_next: a row attempted in this run is left to the next one.
ClaimNext(w, a) ==
    /\ pc[w] = "loop" /\ left[w] > 0
    /\ a \notin batch[w] /\ Claimable(raw[a])
    /\ SetRaw(a, Claimed(raw[a], w))
    /\ item' = [item EXCEPT ![w] = a]
    /\ batch' = [batch EXCEPT ![w] = @ \union {a}]
    /\ left' = [left EXCEPT ![w] = @ - 1]
    /\ Goto(w, "assess")
    /\ UNCHANGED <<rich, faults>>

\* The legacy loop works from the rows it read at the start.
TakeNext(w, a) ==
    /\ pc[w] = "loop" /\ a \in batch[w]
    /\ item' = [item EXCEPT ![w] = a]
    /\ batch' = [batch EXCEPT ![w] = @ \ {a}]
    /\ Goto(w, "assess")
    /\ UNCHANGED <<raw, rich, left, faults>>

FinishRun(w) ==
    /\ pc[w] = "loop"
    /\ IF w \in Legacy THEN batch[w] = {}
       ELSE left[w] = 0 \/ \A a \in Articles \ batch[w] : ~Claimable(raw[a])
    /\ EndRun(w)
    /\ UNCHANGED <<raw, rich, faults>>

-----------------------------------------------------------------------------
(* One article: process_one and its disposition *)

\* The duplicate policy; an assessment that is unavailable lets the row go on.
Assess(w) ==
    LET confirmed == Enforce /\ Anchors(item[w]) # {}
    IN  /\ pc[w] = "assess"
        /\ \/ confirmed /\ Advance(w, "reject") /\ UNCHANGED faults
           \/ ~confirmed /\ Advance(w, "enrich") /\ UNCHANGED faults
           \/ confirmed /\ UseFault /\ Advance(w, "enrich")
        /\ UNCHANGED <<raw, rich>>

Reject(w) ==
    LET a == item[w]
    IN  /\ pc[w] = "reject"
        /\ IF MayRetire(a, w) THEN SetRaw(a, Retired(raw[a])) /\ NextItem(w)
           ELSE GiveUp(w) /\ UNCHANGED raw
        /\ UNCHANGED <<rich, faults>>

Enrich_CompleteFirst(w) ==
    /\ pc[w] = "enrich"
    /\ IF item[w] \in Poison THEN GiveUp(w) ELSE Advance(w, "finish")
    /\ UNCHANGED <<raw, rich, faults>>

Enrich(w) ==
    /\ pc[w] = "enrich"
    /\ IF item[w] \in Poison THEN GiveUp(w) ELSE Advance(w, "store")
    /\ UNCHANGED <<raw, rich, faults>>

\* store_rich_news asks neither for the claim nor for the state of the raw row.
Store(w) ==
    /\ pc[w] = "store"
    /\ rich' = [rich EXCEPT ![item[w]] = Stored(@)]
    /\ Advance(w, "finish")
    /\ UNCHANGED <<raw, faults>>

\* RawNewsRepository.complete and mark_processed.
Finish(w) ==
    LET a == item[w]
    IN  /\ pc[w] = "finish"
        /\ \/ /\ w \in Durable /\ Owned(a, w)
              /\ SetRaw(a, [Released(raw[a], "completed") EXCEPT !.processed = TRUE])
              /\ NextItem(w)
           \/ w \in Durable /\ ~Owned(a, w) /\ GiveUp(w) /\ UNCHANGED raw
           \/ w \in Legacy /\ SetRaw(a, [raw[a] EXCEPT !.processed = TRUE]) /\ NextItem(w)
        /\ UNCHANGED <<rich, faults>>

\* RawNewsRepository.fail after any exception.
FailClaim(w) ==
    LET a == item[w]
    IN  /\ pc[w] = "failing"
        /\ raw' = IF Owned(a, w) THEN [raw EXCEPT ![a] = Released(@, "retryable")] ELSE raw
        /\ NextItem(w)
        /\ UNCHANGED <<rich, faults>>

-----------------------------------------------------------------------------
(* Faults *)

\* A transaction or a call of a provider fails.
StepFails(w) ==
    /\ UseFault
    /\ pc[w] \in {"reject", "enrich", "store", "finish"}
    /\ GiveUp(w)
    /\ UNCHANGED <<raw, rich>>

\* KeyboardInterrupt or SystemExit: release_interrupted.
Interrupt(w) ==
    LET a == item[w]
    IN  /\ UseFault
        /\ w \in Durable /\ pc[w] \in {"assess", "reject", "enrich", "store", "finish"}
        /\ raw' = IF Owned(a, w) THEN [raw EXCEPT ![a] = Released(@, "retryable")] ELSE raw
        /\ EndRun(w)
        /\ UNCHANGED rich

Crash(w) ==
    /\ UseFault
    /\ pc[w] # "idle" /\ EndRun(w)
    /\ UNCHANGED <<raw, rich>>

\* processing_claimed_at becomes older than PROCESS_CLAIM_TIMEOUT_MINUTES.
Expire(a) ==
    /\ raw[a].st = "claimed" /\ raw[a].lease = "live"
    /\ SetRaw(a, [raw[a] EXCEPT !.lease = "expired"])
    /\ UNCHANGED <<rich, pc, runVars, faults>>

-----------------------------------------------------------------------------
(* The neighbours *)

\* _plan_today_schedule and _assign_schedule look at chosen_for_publish only.
Choose(a) ==
    /\ ~raw[a].chosen
    /\ SetRaw(a, [raw[a] EXCEPT !.chosen = TRUE])
    /\ UNCHANGED <<rich, pc, runVars, faults>>

TakeUp(a) ==
    /\ rich[a] = "fresh" /\ raw[a].chosen
    /\ rich' = [rich EXCEPT ![a] = "taken"]
    /\ UNCHANGED <<raw, pc, runVars, faults>>

\* The final guard and the CREATE request, both under the publication mutex.
Post(a) ==
    /\ rich[a] = "taken"
    /\ Enforce => PriorPosts(a) = {} /\ OpenAttempts(a) = {}
    /\ rich' = [rich EXCEPT ![a] = "posted"]
    /\ UNCHANGED <<raw, pc, runVars, faults>>

\* defer_duplicate_guard gives a first attempt its freshness back.
Defer(a) ==
    /\ Enforce /\ rich[a] = "taken"
    /\ rich' = [rich EXCEPT ![a] = "fresh"]
    /\ UNCHANGED <<raw, pc, runVars, faults>>

\* An ambiguous attempt, or one beside an open attempt of a repeated article.
HandOver(a) ==
    /\ rich[a] = "taken"
    /\ rich' = [rich EXCEPT ![a] = "review"]
    /\ UNCHANGED <<raw, pc, runVars, faults>>

RejectStored(a) ==
    /\ Enforce /\ rich[a] \in {"fresh", "taken"} /\ PriorPosts(a) # {}
    /\ rich' = [rich EXCEPT ![a] = "duplicate"]
    /\ SetRaw(a, Consumed(raw[a]))
    /\ UNCHANGED <<pc, runVars, faults>>

-----------------------------------------------------------------------------
Init ==
    /\ raw = [a \in Articles |-> [processed |-> FALSE, chosen |-> FALSE, st |-> "none",
                                  tok |-> None, lease |-> "none"]]
    /\ rich = [a \in Articles |-> "absent"]
    /\ pc = [w \in Workers |-> "idle"]
    /\ item = [w \in Workers |-> None]
    /\ batch = [w \in Workers |-> {}]
    /\ left = [w \in Workers |-> 0]
    /\ faults = MaxFaults

WorkerStep(w) ==
    \/ w \in Durable /\ StartDurable(w)
    \/ w \in Legacy /\ StartLegacy(w)
    \/ w \in Durable /\ \E a \in Articles : ClaimNext(w, a)
    \/ w \in Legacy /\ \E a \in Articles : TakeNext(w, a)
    \/ FinishRun(w) \/ Assess(w) \/ Reject(w) \/ Enrich(w) \/ Store(w)
    \/ Finish(w) \/ FailClaim(w)

WorkerFault(w) == StepFails(w) \/ Interrupt(w) \/ Crash(w)

Neighbour(a) ==
    \/ Expire(a) \/ Choose(a)
    \/ TakeUp(a) \/ Post(a) \/ Defer(a) \/ HandOver(a) \/ RejectStored(a)

Next ==
    \/ \E w \in Workers : WorkerStep(w) \/ WorkerFault(w)
    \/ \E a \in Articles : Neighbour(a)

Spec == Init /\ [][Next]_vars

\* Runs are started again and again, calls return, and time passes.
Fairness ==
    /\ \A w \in Workers : WF_vars(WorkerStep(w))
    /\ \A a \in Articles : WF_vars(Expire(a))

FairSpec == Spec /\ Fairness

-----------------------------------------------------------------------------
(* Properties *)

TypeOK ==
    /\ raw \in [Articles -> Raw]
    /\ rich \in [Articles -> RichStates]
    /\ pc \in [Workers -> Steps]
    /\ item \in [Workers -> Articles \union {None}]
    /\ batch \in [Workers -> SUBSET Articles]
    /\ left \in [Workers -> Nat]
    /\ faults \in Nat
    /\ \A w \in Workers : pc[w] \notin {"idle", "loop"} => item[w] \in Articles

\* A raw row leaves the work list only with its article stored or as a duplicate:
\* no crash, stale owner or mixture of the modes loses a selected article.
ProcessedIsStored ==
    \A a \in Articles : raw[a].processed => raw[a].st = "duplicate" \/ rich[a] # "absent"

\* Enriching a row again never makes an article fresh that the publisher has
\* already taken up: only the first INSERT proves freshness.
ProvenanceIsKept ==
    [][pc' # pc =>
         \A a \in Articles : rich'[a] = "fresh" => rich[a] \in {"absent", "fresh"}]_vars

\* A row rejected as a duplicate is never processed again, by nobody.
DuplicateIsTerminal ==
    [][\A a \in Articles :
          raw[a].st = "duplicate" => raw'[a].st = "duplicate" /\ raw'[a].processed]_vars

GivenUp(a) ==
    rich[a] # "posted" /\ (raw[a].st = "duplicate" \/ rich[a] = "duplicate")

\* The article has a post, or is stored, processed and not given up.
Standing(c) ==
    \/ rich[c] = "posted"
    \/ /\ raw[c].processed /\ raw[c].st # "duplicate"
       /\ rich[c] \in {"fresh", "taken", "review"}

\* No story is lost: an article is given up as a duplicate only for an article
\* that still stands, also when two workers judge each by the other at once.
NoStoryLost ==
    \A a \in Articles : GivenUp(a) => \E c \in Articles : <<a, c>> \in Repeats /\ Standing(c)

\* "The terminal state is processing_status='duplicate', processed=1,
\* chosen_for_publish=0, no schedule or claim."
DuplicateStaysUnselected ==
    \A a \in Articles : raw[a].st = "duplicate" => ~raw[a].chosen

QueueState(r) ==
    IF r.st = "claimed" THEN "held" ELSE IF r.processed THEN "closed" ELSE "open"

queueState == [a \in Articles |-> QueueState(raw[a])]
queueHolder == [a \in Articles |-> raw[a].tok]
queueLive == [a \in Articles |-> raw[a].lease = "live"]
queueBusy == [w \in Durable |-> item[w]]

Lease == INSTANCE LeaseQueue WITH
    Items <- Articles, Holders <- Durable, Nobody <- None,
    state <- queueState, holder <- queueHolder, live <- queueLive, busy <- queueBusy

\* The raw table keeps the promises of a table of leased work: a claim is ended
\* only by the worker that holds it and is on that row, taken over only after
\* its lease has lapsed, and a processed row is never claimed again.
KeepsLeases == Lease!Spec

-----------------------------------------------------------------------------
(* The inductive invariant behind ProcessedIsStored, DuplicateIsTerminal   *)
(* and KeepsLeases.                                                        *)

StoredBeforeFinish ==
    \A w \in Workers : pc[w] = "finish" => rich[item[w]] # "absent"

DuplicateIsProcessed ==
    \A a \in Articles : raw[a].st = "duplicate" => raw[a].processed

\* Token and lease are there exactly while the row is claimed.
ClaimIsWhole ==
    \A a \in Articles :
        IF raw[a].st = "claimed" THEN raw[a].tok \in Durable /\ raw[a].lease # "none"
        ELSE raw[a].tok = None /\ raw[a].lease = "none"

BetweenItems == \A w \in Workers : pc[w] \in {"idle", "loop"} => item[w] = None

WorkInv ==
    /\ ProcessedIsStored
    /\ StoredBeforeFinish
    /\ DuplicateIsProcessed
    /\ ClaimIsWhole
    /\ BetweenItems

-----------------------------------------------------------------------------
\* Every selected article that can be enriched is in the end processed,
\* although other rows of the batch fail every time and workers crash.
SelectedIsProcessed ==
    \A a \in Articles \ Poison : raw[a].chosen ~> raw[a].processed
=============================================================================
