------------------------------ MODULE Embedding ------------------------------
(***************************************************************************)
(* Embedding of articles into the vector store.                            *)
(*                                                                         *)
(* An ingester is one invocation of embedding_ingest: it reads the recent  *)
(* articles once, then registers each version it read as a document and    *)
(* enqueues a job for it, in two transactions.  A worker is one invocation *)
(* of embedding_worker: it claims jobs with tokens and leases, reads the   *)
(* article again and embeds it if it still is the registered version.      *)
(* Fetching and editing change the articles meanwhile: they live in        *)
(* another database, so that no transaction spans both.                    *)
(*                                                                         *)
(* Abstractions.  A version of an article stands for the content hash of   *)
(* its title and body; a version never returns once it is replaced.  The   *)
(* title is stored with the document and an edit changes the body, which   *)
(* is not empty and makes no more chunks than a job may have.  One         *)
(* embedding version and one source type are in use.  Every article is     *)
(* within the limit of the scan, which is taken in either order.  The      *)
(* chunks of a document are known by the version of the text they were     *)
(* cut from.  A claim token is the worker that drew it.  Ties of the claim *)
(* order are broken either way.                                            *)
(***************************************************************************)
EXTENDS Naturals

CONSTANTS
    Articles,
    Versions,      \* bound: number of versions each article goes through
    Workers,       \* invocations of embedding_worker
    Ingesters,     \* invocations of embedding_ingest
    None,          \* SQL NULL
    Poison,        \* articles for which the provider is always unavailable
    WorkLimit,     \* EMBEDDING_WORK_LIMIT
    MaxAttempts,   \* bound: attempt_count is counted up to "this many or more"
    MaxFaults      \* bound on crashes, failed calls and slow workers

Documents == UNION {{a} \X (1..Versions[a]) : a \in Articles}

ASSUME ActorsAssumption ==
    /\ Workers \intersect Ingesters = {}
    /\ None \notin Workers \union Documents
ASSUME BoundsAssumption ==
    /\ Versions \in [Articles -> Nat \ {0}]
    /\ WorkLimit \in Nat \ {0}
    /\ MaxAttempts \in Nat \ {0}
    /\ MaxFaults \in Nat
    /\ Poison \subseteq Articles

VARIABLES
    body,    \* the present version of each article
    docs,    \* vector_documents
    job,     \* embedding_jobs, one record per document
    chunks,  \* vector_chunks: version of the text of the stored chunks, 0 if none
    pc,      \* next step of each worker and ingester
    item,    \* the document a worker or ingester is on
    text,    \* the version a worker has loaded
    left,    \* iterations left of the worker's range(limit)
    scan,    \* documents of an ingester's scan that are not registered yet
    faults   \* faults still allowed

storeVars == <<docs, job, chunks>>
runVars   == <<item, text, left, scan>>
vars == <<body, docs, job, chunks, pc, item, text, left, scan, faults>>

Statuses == {"absent", "pending", "claimed", "completed", "retryable", "failed"}
Errors == {"none", "input", "answer"}

Job == [st: Statuses, tok: Workers \union {None}, lease: {"none", "live", "expired"},
        att: 0..MaxAttempts, err: Errors]

WorkerSteps == {"idle", "loop", "load", "reconcile", "embed", "persist",
                "mismatch", "invalid", "unavailable", "raise"}
IngesterSteps == {"idle", "register", "enqueue"}

ArticleOf(d) == d[1]
VersionOf(d) == d[2]

-----------------------------------------------------------------------------
(* The job table of vector_store/repository.py *)

Claimable(d) ==
    \/ job[d].st \in {"pending", "retryable"}
    \/ job[d].st = "claimed" /\ job[d].lease = "expired"

Rank_Unrotated(d) ==
    CASE job[d].st = "pending" -> 0
      [] job[d].st = "claimed" -> 1
      [] OTHER -> 2

\* ORDER BY of the claim: new jobs, then abandoned ones, then those to retry,
\* the least attempted first.
Rank(d) ==
    CASE job[d].st = "pending" -> 0
      [] job[d].st = "claimed" -> 1
      [] OTHER -> 2 + job[d].att

First == {d \in Documents :
            Claimable(d) /\ \A e \in Documents : Claimable(e) => Rank(d) <= Rank(e)}

Owned_AnyToken(d, w) == job[d].st = "claimed"

Owned(d, w) == job[d].st = "claimed" /\ job[d].tok = w

Claimed(r, w) ==
    [r EXCEPT !.st = "claimed", !.tok = w, !.lease = "live", !.err = "none",
              !.att = IF r.att < MaxAttempts THEN r.att + 1 ELSE r.att]

\* complete and fail_embedding_job: the claim is given up.
Ended(r, status, error) ==
    [r EXCEPT !.st = status, !.tok = None, !.lease = "none", !.err = error]

SetJob(d, r) == job' = [job EXCEPT ![d] = r]

EndIfOwned(d, w, status, error) ==
    job' = IF Owned(d, w) THEN [job EXCEPT ![d] = Ended(@, status, error)] ELSE job

UseFault == faults > 0 /\ faults' = faults - 1

-----------------------------------------------------------------------------
(* Ingestion: run_embedding_ingest *)

Goto(p, step) == pc' = [pc EXCEPT ![p] = step]

\* scan_recent reads all articles in one query.
Scan(i) ==
    /\ pc[i] = "idle"
    /\ scan' = [scan EXCEPT ![i] = {<<a, body[a]>> : a \in Articles}]
    /\ Goto(i, "register")
    /\ UNCHANGED <<body, storeVars, item, text, left, faults>>

\* register_document is idempotent: a known version keeps its row.
Register(i, d) ==
    /\ pc[i] = "register" /\ d \in scan[i]
    /\ docs' = docs \union {d}
    /\ item' = [item EXCEPT ![i] = d]
    /\ scan' = [scan EXCEPT ![i] = @ \ {d}]
    /\ Goto(i, "enqueue")
    /\ UNCHANGED <<body, job, chunks, text, left, faults>>

\* A document that has a job keeps it, whatever its status.
Enqueue(i) ==
    LET d == item[i]
    IN  /\ pc[i] = "enqueue"
        /\ job' = IF job[d].st = "absent" THEN [job EXCEPT ![d].st = "pending"] ELSE job
        /\ item' = [item EXCEPT ![i] = None]
        /\ Goto(i, "register")
        /\ UNCHANGED <<body, docs, chunks, text, left, scan, faults>>

StopScan(i) ==
    /\ Goto(i, "idle")
    /\ item' = [item EXCEPT ![i] = None]
    /\ scan' = [scan EXCEPT ![i] = {}]
    /\ UNCHANGED <<body, storeVars, text, left>>

FinishScan(i) == pc[i] = "register" /\ scan[i] = {} /\ StopScan(i) /\ UNCHANGED faults

CrashScan(i) == UseFault /\ pc[i] # "idle" /\ StopScan(i)

-----------------------------------------------------------------------------
(* A worker: run_embedding_worker and process_next *)

Proceed(w, step) == Goto(w, step) /\ UNCHANGED runVars

NextJob(w) ==
    /\ Goto(w, "loop")
    /\ item' = [item EXCEPT ![w] = None]
    /\ text' = [text EXCEPT ![w] = 0]
    /\ UNCHANGED <<left, scan>>

EndRun(w) ==
    /\ Goto(w, "idle")
    /\ item' = [item EXCEPT ![w] = None]
    /\ text' = [text EXCEPT ![w] = 0]
    /\ left' = [left EXCEPT ![w] = 0]
    /\ UNCHANGED scan

Start(w) ==
    /\ pc[w] = "idle"
    /\ left' = [left EXCEPT ![w] = WorkLimit]
    /\ Goto(w, "loop")
    /\ UNCHANGED <<body, storeVars, item, text, scan, faults>>

ClaimNext(w, d) ==
    /\ pc[w] = "loop" /\ left[w] > 0
    /\ d \in First
    /\ SetJob(d, Claimed(job[d], w))
    /\ item' = [item EXCEPT ![w] = d]
    /\ left' = [left EXCEPT ![w] = @ - 1]
    /\ Goto(w, "load")
    /\ UNCHANGED <<body, docs, chunks, text, scan, faults>>

FinishRun(w) ==
    /\ pc[w] = "loop"
    /\ left[w] = 0 \/ First = {}
    /\ EndRun(w)
    /\ UNCHANGED <<body, storeVars, faults>>

Load_Unchecked(w) ==
    /\ pc[w] = "load"
    /\ text' = [text EXCEPT ![w] = body[ArticleOf(item[w])]]
    /\ Goto(w, "reconcile")
    /\ UNCHANGED <<body, storeVars, item, left, scan, faults>>

\* The article as it is now must still have the content hash of the document.
Load(w) ==
    LET now == body[ArticleOf(item[w])]
    IN  /\ pc[w] = "load"
        /\ text' = [text EXCEPT ![w] = now]
        /\ Goto(w, IF now = VersionOf(item[w]) THEN "reconcile" ELSE "mismatch")
        /\ UNCHANGED <<body, storeVars, item, left, scan, faults>>

\* complete_embedding_job_if_chunks_match: lost, complete already, or to be done.
\* That a claimed job has its chunks already is guarded against, although
\* EmbeddedIsTrue says it does not happen.
Reconcile(w) ==
    LET d == item[w]
    IN  /\ pc[w] = "reconcile"
        /\ IF ~Owned(d, w) THEN NextJob(w) /\ UNCHANGED job
           ELSE IF chunks[d] = text[w]
                THEN SetJob(d, Ended(job[d], "completed", "none")) /\ NextJob(w)
                ELSE Proceed(w, "embed") /\ UNCHANGED job
        /\ UNCHANGED <<body, docs, chunks, faults>>

Embed(w) ==
    /\ pc[w] = "embed"
    /\ Proceed(w, IF ArticleOf(item[w]) \in Poison THEN "unavailable" ELSE "persist")
    /\ UNCHANGED <<body, storeVars, faults>>

\* persist_embedding_chunks_and_complete: both or neither, and only as owner.
Persist(w) ==
    LET d == item[w]
    IN  /\ pc[w] = "persist"
        /\ IF Owned(d, w)
           THEN /\ chunks' = [chunks EXCEPT ![d] = text[w]]
                /\ SetJob(d, Ended(job[d], "completed", "none"))
           ELSE UNCHANGED <<chunks, job>>
        /\ NextJob(w)
        /\ UNCHANGED <<body, docs, faults>>

\* The text is not that of the document any more: terminal.
FailMismatch(w) ==
    /\ pc[w] = "mismatch"
    /\ EndIfOwned(item[w], w, "failed", "input")
    /\ NextJob(w)
    /\ UNCHANGED <<body, docs, chunks, faults>>

\* The provider's answer is not a valid batch, or it refuses: terminal.
FailInvalid(w) ==
    /\ pc[w] = "invalid"
    /\ EndIfOwned(item[w], w, "failed", "answer")
    /\ NextJob(w)
    /\ UNCHANGED <<body, docs, chunks, faults>>

\* Provider unavailable: the job is retried, and this run ends with it.
FailUnavailable(w) ==
    /\ pc[w] = "unavailable"
    /\ EndIfOwned(item[w], w, "retryable", "none")
    /\ IF Owned(item[w], w) THEN EndRun(w) ELSE NextJob(w)
    /\ UNCHANGED <<body, docs, chunks, faults>>

\* Any other exception: the claim is released and the exception ends the run.
Raise(w) ==
    /\ pc[w] = "raise"
    /\ EndIfOwned(item[w], w, "retryable", "none")
    /\ EndRun(w)
    /\ UNCHANGED <<body, docs, chunks, faults>>

-----------------------------------------------------------------------------
(* Faults and the environment *)

ProviderFails(w) ==
    /\ UseFault
    /\ pc[w] = "embed"
    /\ \E outcome \in {"unavailable", "invalid"} : Proceed(w, outcome)
    /\ UNCHANGED <<body, storeVars>>

\* A query of one of the two databases fails, or the provider call raises an
\* error that is not foreseen.
StepFails(w) ==
    /\ UseFault
    /\ pc[w] \in {"load", "reconcile", "embed", "persist"}
    /\ Proceed(w, "raise")
    /\ UNCHANGED <<body, storeVars>>

\* The process dies, or the claim cannot even be released.
Crash(w) ==
    /\ UseFault
    /\ pc[w] # "idle"
    /\ EndRun(w)
    /\ UNCHANGED <<body, storeVars>>

\* claimed_at becomes older than the claim timeout; of a worker that is still on
\* the job this takes a fault, for it is slower than the timeout foresees.
Expire(d) ==
    /\ job[d].st = "claimed" /\ job[d].lease = "live"
    /\ SetJob(d, [job[d] EXCEPT !.lease = "expired"])
    /\ IF item[job[d].tok] = d THEN UseFault ELSE UNCHANGED faults
    /\ UNCHANGED <<body, docs, chunks, pc, runVars>>

\* The fetch cycle refreshes title and text of an article.
Edit(a) ==
    /\ body[a] < Versions[a]
    /\ body' = [body EXCEPT ![a] = @ + 1]
    /\ UNCHANGED <<storeVars, pc, runVars, faults>>

-----------------------------------------------------------------------------
Init ==
    /\ body = [a \in Articles |-> 1]
    /\ docs = {}
    /\ job = [d \in Documents |-> [st |-> "absent", tok |-> None, lease |-> "none",
                                   att |-> 0, err |-> "none"]]
    /\ chunks = [d \in Documents |-> 0]
    /\ pc = [p \in Workers \union Ingesters |-> "idle"]
    /\ item = [p \in Workers \union Ingesters |-> None]
    /\ text = [w \in Workers |-> 0]
    /\ left = [w \in Workers |-> 0]
    /\ scan = [i \in Ingesters |-> {}]
    /\ faults = MaxFaults

WorkerStep(w) ==
    \/ Start(w) \/ FinishRun(w)
    \/ \E d \in Documents : ClaimNext(w, d)
    \/ Load(w) \/ Reconcile(w) \/ Embed(w) \/ Persist(w)
    \/ FailMismatch(w) \/ FailInvalid(w) \/ FailUnavailable(w) \/ Raise(w)

WorkerFault(w) == ProviderFails(w) \/ StepFails(w) \/ Crash(w)

IngesterStep(i) ==
    \/ Scan(i) \/ Enqueue(i) \/ FinishScan(i)
    \/ \E d \in Documents : Register(i, d)

Next ==
    \/ \E w \in Workers : WorkerStep(w) \/ WorkerFault(w)
    \/ \E i \in Ingesters : IngesterStep(i) \/ CrashScan(i)
    \/ \E d \in Documents : Expire(d)
    \/ \E a \in Articles : Edit(a)

Spec == Init /\ [][Next]_vars

\* Both commands are run again and again, calls return, and time passes.
Fairness ==
    /\ \A w \in Workers : WF_vars(WorkerStep(w))
    /\ \A i \in Ingesters : WF_vars(IngesterStep(i))
    /\ \A d \in Documents : WF_vars(Expire(d))

FairSpec == Spec /\ Fairness

-----------------------------------------------------------------------------
(* Properties *)

TypeOK ==
    /\ body \in [Articles -> Nat]
    /\ \A a \in Articles : body[a] \in 1..Versions[a]
    /\ docs \in SUBSET Documents
    /\ job \in [Documents -> Job]
    /\ chunks \in [Documents -> Nat]
    /\ pc \in [Workers \union Ingesters -> WorkerSteps \union IngesterSteps]
    /\ item \in [Workers \union Ingesters -> Documents \union {None}]
    /\ text \in [Workers -> Nat]
    /\ left \in [Workers -> Nat]
    /\ scan \in [Ingesters -> SUBSET Documents]
    /\ faults \in Nat

\* What retrieval reads is whole and true: chunks are there exactly for completed
\* jobs, and they were cut from the version they are filed under, although the
\* article may be edited between registration, claim and load, and although a
\* worker may finish long after its claim has gone to another.
EmbeddedIsTrue ==
    \A d \in Documents :
        IF job[d].st = "completed" THEN chunks[d] = VersionOf(d) ELSE chunks[d] = 0

\* Every version that stays is in the end embedded, although an article the
\* provider never accepts is retried for ever, runs crash between registering and
\* enqueueing, and older versions of the article fail; the one exception is
\* an invalid answer of the provider, which the code takes as final.
StableIsEmbedded ==
    \A d \in Documents :
        ArticleOf(d) \notin Poison =>
            (<>[](body[ArticleOf(d)] = VersionOf(d))
                => <>(chunks[d] = VersionOf(d) \/ job[d].err = "answer"))

QueueState(r) ==
    IF r.st = "claimed" THEN "held"
    ELSE IF r.st \in {"completed", "failed"} THEN "closed" ELSE "open"

queueState == [d \in Documents |-> QueueState(job[d])]
queueHolder == [d \in Documents |-> job[d].tok]
queueLive == [d \in Documents |-> job[d].lease = "live"]
queueBusy == [w \in Workers |-> item[w]]

Lease == INSTANCE LeaseQueue WITH
    Items <- Documents, Holders <- Workers, Nobody <- None,
    state <- queueState, holder <- queueHolder, live <- queueLive, busy <- queueBusy

\* The job table keeps the promises of a table of leased work: a claim is ended
\* only by the worker that holds it and is on that job, taken over only after
\* its lease has lapsed, and a completed or failed job is never claimed again.
KeepsLeases == Lease!Spec

-----------------------------------------------------------------------------
(* The inductive invariant behind EmbeddedIsTrue and KeepsLeases. *)

\* Past the comparison a worker's text is that of its document.
TextIsChecked ==
    \A w \in Workers :
        pc[w] \in {"reconcile", "embed", "persist"} => text[w] = VersionOf(item[w])

\* Token and lease are there exactly while the job is claimed.
ClaimIsWhole ==
    \A d \in Documents :
        IF job[d].st = "claimed" THEN job[d].tok \in Workers /\ job[d].lease # "none"
        ELSE job[d].tok = None /\ job[d].lease = "none"

\* A worker has a job exactly between claiming it and ending it.
ItemMeansBusy ==
    /\ \A w \in Workers : (item[w] = None) <=> (pc[w] \in {"idle", "loop"})
    /\ \A i \in Ingesters : pc[i] = "enqueue" => item[i] # None

\* Jobs and scans belong to registered documents.
JobsAreRegistered ==
    /\ \A d \in Documents : job[d].st # "absent" => d \in docs
    /\ \A i \in Ingesters : pc[i] = "enqueue" => item[i] \in docs

StoreInv ==
    /\ EmbeddedIsTrue
    /\ TextIsChecked
    /\ ClaimIsWhole
    /\ ItemMeansBusy
    /\ JobsAreRegistered
=============================================================================
