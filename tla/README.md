# Formal model of coincourier-api

TLA+ specifications of the crypto-news pipeline in `src/GetNewsAPI` and of the cost
reporter in `src/services/ai-cost-reporter`, checked with TLC on small instances
and, for the results that matter most, proved with TLAPS for every value of the
constants.

The pipeline fetches news into the table `cryptonewsapi` (raw rows), selects and
schedules some of them, has a language model rewrite the selected ones into
`rich_crpytonews` (rich rows), and publishes the rich rows to WordPress. Every
stage runs again and again from a scheduler, from an HTTP endpoint or from a
shell, possibly in several processes, and each can die between any two of its
transactions. The pipeline's promise is: each selected article is published once
or given up for a reason, whatever fails. Beside it, the cost reporter collects
what the language models cost and delivers one report per day.

## 1. Inventory

| Component | State | Operations | Interacts through |
|---|---|---|---|
| Fetch and planner (`fetcher.py`) | raw rows: scores, `chosen_for_publish`, `scheduled_for`; named lock `news_fetcher_lock` | pull, insert or update, score, `_plan_today_schedule`, `_assign_schedule` | raw table |
| Enrichment (`gpt_processor.py`, `repositories/raw_news.py`) | raw rows: `processed`, `processing_status`, claim token and time | durable mode: claim, complete, fail, retire as duplicate; legacy mode: read a batch, mark processed | raw and rich tables, duplicate policy, text generation |
| Text generation (part of `gpt_processor.py`) | the draft under way | web search, primary and fallback provider, expansion, validation, repair | OpenAI and xAI, enrichment |
| Publication (`publishing/`, `repositories/publication.py`, `duplicate_detection/publication.py`) | rich rows: `publish_status`, token, lease, attempts, `wp_post_id`; named locks `wp_publisher_lock` and the duplicate mutex | claim, save identity, reconcile, guard, image, CREATE, save post, metadata, complete, manual review, defer, reject, fail | rich and raw tables, named locks, WordPress REST |
| Image routes (`image_search/`, `stock_images.py`, part of `publisher.py`) | WordPress media with credit and identity key, `wp_featured_media_id`, use record | reuse, search, strict selection, rescue, generation, upload, credit, identify, record use | image providers, WordPress media, rich table |
| WordPress helpers (`publishing/wordpress/`) | none | payloads, taxonomy, HTML, SEO fields, media upload | WordPress REST |
| Duplicate policy (`duplicate_detection/`) | audit table of assessments | assess raw article, assess at the publication boundary | reads raw and rich tables |
| Embedding pipeline (`embeddings/`, `vector_store/repository.py`) | documents, chunks, embedding jobs in a second database | register, enqueue, claim, load and compare, persist and complete, fail | rich table (read), vector database, embedding provider |
| Semantic retrieval and shadow (`semantic_retrieval/`, `vector_store/semantic_assessments.py`) | audit rows | nearest-neighbour search, record a shadow decision | vector database |
| Semantic calibration (`semantic_calibration/`) | none (files) | sweep thresholds on labelled pairs | none |
| Jobs and scheduler (`operations/`, `scheduler.py`, `app.py`, `tasks.py`) | advisory lock per job group, APScheduler triggers | run job, pipeline of stages, start and stop | all stages |
| Deployment (`deployment/`, `maintenance/`) | migration ledger, schema, advisory lock | plan, check, apply, verify, readiness | both databases |
| Configuration, probes, scripts | none | validation, manual diagnostics | environment |
| AI cost reporter (`services/ai-cost-reporter`) | PDF, JSON and delivery marker of a date; Drive folder; nonces of the Apps Script | fetch the billing of both providers, render, upload, notify, receive | HTTP, SMTP |

What is hard in each, and what makes it correct:

* **Publication.** A CREATE request cannot be made idempotent: it may be carried
  out although its client timed out or died, and WordPress is not asked for
  existing posts. The code therefore gives an article one permission to create
  (status `fresh`, no attempt) and sends everything else to a person. That
  permission is read early, used many calls later, restored by deferrals, and
  shared between two modes of which only one has claims. Correct: no article is
  submitted twice; a post no row points to is not forgotten; no two confirmed
  duplicates are both posted; live claims belong to their owner; saved ids are
  kept; every article settles.
* **Enrichment.** No lock orders the workers; storing the article and completing
  the raw row are two transactions; the publisher and the planner write the same
  rows; two workers may judge two articles by each other at the same time.
  Correct: no selected row is lost; no story is given up altogether; enriching
  again never restores a permission to create; leases are respected; rows that
  fail every time do not starve the rest.
* **Text generation.** Two providers with several requests each, hard and soft
  rules, an expansion and a repair that may come back worse than the draft.
  Correct: once a usable draft exists, the article has a text.
* **Images.** Upload, credit, identity key, row and use record are five steps in
  two systems; candidates fail one by one under budgets. Correct: no image is
  used twice under strict selection, none shown without its credit, one
  attachment per article, and a generated image only when no other can be had.
* **Embedding.** Registration and enqueueing are two transactions, the article
  may be edited between any two steps, and jobs carry the version they embed.
  Correct: a completed job has the chunks of its version; leases are respected;
  every stable article is embedded in the end although others fail.
* **Planner.** A daily quota counted from rows other processes write; breaking
  articles outside the quota; a window that wraps past midnight; a named lock that
  may be lost. Correct: the quota holds, slots are of their day, an article keeps
  the time it was given.
* **Jobs.** An interval trigger, an endpoint and a shell may start one job at
  once; the locks live on connections nobody looks at again; the pipeline runs
  stages with continue-or-stop rules. Correct: an article is not enriched twice,
  and a pipeline publishes what is due although processing failed.
* **Deployment.** A script is many statements, each committed at once; the ledger
  row comes after; the server may go on when its client is gone. Correct: what is
  recorded was executed, scripts do not meet, a report without the lock is true.
* **AI cost reporter.** Pages may repeat or leave out days; an empty answer may
  mean zero or a wrong filter; a delivery answered too late is repeated; three
  local files are written in three steps. Correct: every day is counted once, a
  zero is confirmed, one snapshot everywhere, what is recorded as delivered is
  there, and rerunning ends with everyone served.

## 2. Modules

| Module | Models | Extends / composes |
|---|---|---|
| `Publication` | Both publishing modes, from the start of a run to the disposition of each article | `LeaseQueue` by refinement |
| `LeaseQueue` | What a table of leased work promises (abstract) | |
| `Enrichment` | Both enrichment modes, with planner and publisher reduced to what they write | `LeaseQueue` by refinement |
| `Embedding` | Ingestion, job queue and workers of the vector store | `LeaseQueue` by refinement |
| `Slots` | The publication times of a day, as pure operators | |
| `Operations` | Jobs, their locks, the planner and the stages of a pipeline | `Slots`, with the constants of its own clock and, as `Hours`, with those of a day in hours |
| `Batch` | The articles of a pass (constants) | |
| `Writing` | How one text is made: providers, validation, repair | `Batch` |
| `Media` | The featured image of an article | `Batch` |
| `Article` | A pass of the pipeline: texts, then images and posts | composes `Writing` and `Media` |
| `Deployment` | Migrations applied, recorded and reported | |
| `Billing` | The fetch of a month's costs from both providers | |
| `Reporter` | The report of a date: fetch, files, marker, delivery, receiver | composes `Billing`, and implements it |
| `MC...` | Instances and symmetry | one per checked module |
| `PublicationProofs`, `EnrichmentProofs`, `EmbeddingProofs`, `ArticleProofs`, `SlotsProofs`, `OperationsProofs`, `DeploymentProofs`, `ReporterProofs` | Theorems; those on `Billing` are in `ReporterProofs` | their module and `TLAPS` |

Operators with a name like `Keyed_Credited` or `Status_PartialIsPending` stand
before the operator they vary. They are plausible mistakes, used by no
specification; each makes a property of section 3 fail.

### Publication

A worker is one invocation of `publish_news_to_wp`: *durable* ones run
`PublishingService` (claims with tokens and leases), *legacy* ones the batch loop
without claims. Both kinds may be configured at once during a rollout, and
nothing in the tables says which is running. `Enforcing` are the workers whose
duplicate guard is on.

| Model | Code |
|---|---|
| `row[a]` (`pub`, `st`, `tok`, `lease`, `att`, `wp`) | columns `published`, `publish_status`, `publish_claim_token`, `publish_claimed_at`, `publish_attempt_count`, `wp_post_id` of `rich_crpytonews` |
| `due[a]` | the source row is selected and its time has come |
| `sent`, `posts`, `adrift` | WordPress: requests issued, posts made, requests whose client is gone |
| `wpLock`, `mutex` | the two named locks; `LosePublisherLock` and `LoseMutex` are the server closing the session |
| `job[w]` | the snapshot a run works from: `creation_is_fresh`, the saved post id, the canonical of a rejection |
| `seen[w]`, `left[w]` | exclusion list and iterations left (durable), rest of the batch (legacy) |
| `StartDurable`, `StartLegacy`, `HoldMutex`, `ClaimNext`, `LoadItem`, `FinishRun` | a run and its loop |
| `SaveIdentity` ... `Complete` | the steps of one article: one per transaction or request |
| `RequireManual`, `DeferGuard`, `RejectDuplicate`, `FailClaim` | the dispositions |
| `StepFails`, `GuardUnavailable`, `CreateRefused`, `CreateUnanswered`, `Interrupt`, `Crash` | what each failure turns into, by mode |
| `LandLate`, `NeverLands`, `Expire`, `Reschedule` | WordPress, time, the planner |

Abstractions: a token is the worker that drew it; the id of a post is its ordinal
among the article's posts; attempts are counted up to "2 or more"; the image is one
step here (and module `Media`), payload, taxonomy and metadata contents are left
out, each being one step that may fail. Which pairs the policy confirms as
duplicates is the constant `ConfirmedPair`. Source rows are not retired at the raw
stage here; `Enrichment` looks at that combination.

### Enrichment and LeaseQueue

A worker is one invocation of `process_news_with_gpt`, durable or legacy. `raw[a]`
has the processing columns of `cryptonewsapi`, `rich[a]` what has become of the
stored article. Planner (`Choose`) and publisher (`TakeUp`, `Post`, `Defer`,
`HandOver`, `RejectStored`) take steps of their own on the same rows. `Anchors`,
`PriorPosts` and `OpenAttempts` are the candidate queries of the duplicate policy
at the two stages; `Repeats` says which article the policy confirms as a duplicate
of which. `Poison` are articles whose text can never be produced.

`LeaseQueue` states in a page what a table of leased work promises: an item is
open, held or closed; a holding is ended only by its holder while busy with that
item; it is taken over only after its lease has lapsed; closed is final.
`KeepsLeases` says that `Enrichment` implements it, under the mapping `queueState`,
`queueHolder`, `queueLive`, `queueBusy`; `Embedding` and `Publication` have mappings
of their own. In `Publication` the holders are the durable workers, and a row is
held exactly while it carries a token: what a legacy run has in hand counts as
open, since its intent holds off no durable run once it has grown old, and a row that a
legacy run publishes under a durable claim stays held until that claim ends, and is
closed then.

### Embedding

An ingester is one invocation of `embedding_ingest`, a worker one of
`embedding_worker`; any number of either may run at once. Articles are in the
application database, documents, jobs and chunks in the vector database.

| Model | Code |
|---|---|
| `body[a]` | the content of an article now, as a version number; `Edit` is the refresh of title and text by the fetch cycle |
| `docs` | `vector_documents`, one per article and content hash |
| `job[d]` (`st`, `tok`, `lease`, `att`, `err`) | `embedding_jobs`: status, claim token and time, attempt count, what kind of error ended it |
| `chunks[d]` | `vector_chunks` of the document: the version of the text they were cut from |
| `Scan`, `Register`, `Enqueue` | `scan_recent` and the two transactions of `EmbeddingIngestionService.register` |
| `ClaimNext`, `Rank` | `claim_embedding_job` and its order: new, abandoned, then to be retried by attempts |
| `Load` | the content loader and the comparison of hashes in `process_next` |
| `Reconcile`, `Embed`, `Persist` | the rest of `process_next`, one step per transaction or call |
| `FailMismatch`, `FailInvalid`, `FailUnavailable`, `Raise` | its `except` clauses: terminal, terminal, retried and the run ends, released and the run ends |

A version never returns, titles are not edited apart from bodies, and every
article is within the limit of the scan; the hazards that this leaves out are
listed in `PROJECT.json`.

### Slots and Operations

`Slots` has the arithmetic of `_generate_even_slots` and of the slot part of
`_plan_today_schedule`, times counted in ticks: `EvenSlots` with Python's rounding
to even, the active window with its end clamped to the day, the share outside it,
nothing before now, and the rest in order (`Ascending`, which defines the k-th time
by how many are before it and not by a way to sort). `Roomy(n)` says that `n` slots
are more than half a tick apart on their stretches of the day; nearer ones may be
rounded to the midnight after it. `Operations` runs whole commands on the article table:

| Model | Code |
|---|---|
| `row[a]` (`st`, `breaking`, `chosen`, `day`, `at`) | raw and rich row of an article: how far it is, `is_breaking`, `chosen_for_publish`, `scheduled_for` |
| `lock["fetch"]`, `lock["pipeline"]`, `lock["wp"]` | `news_fetcher_lock`, the advisory lock of the conflict group, `wp_publisher_lock` |
| `job[w]` (`kind`, `pc`, `batch`, `limit`, `slots`, `plan`) | a command under way: `fetch`, `pipeline`, `process`, `publish`, or a request of the endpoint (`api`), with what it has read; `owed` and `since` are history, for `PipelineDelivers` |
| `StartUnlocked`, `StartLocked` | `run_job`, the locks of `operations/locking.py`, the routes of `app.py` |
| `Pull`, `Score` | a fetch cycle: the upsert, and the ratings of `_update_scores`, which reach chosen rows that are served again too |
| `ReadBreaking`, `AssignBreaking`, `CountToday`, `SelectForQuota`, `AssignQuota` | `_plan_today_schedule`, one step per statement, and `_assign_schedule` |
| `ReadDue`, `Enrich`, `EndProcess`, `ProcessRaises`, `AfterProcess` | `_execute_process`, `_stage_call`, `_execute_pipeline` |
| `OpenPublish`, `CountDue`, `ReadList`, `Post`, `PostFails`, `EndPublish` | `publish_news_to_wp` in legacy mode: its lock, `_count_due_now`, `fetch_unpublished`, one turn of the loop over the list that ends in a disposition or in a failure, and the end of the list |
| `Tick`, `LoseLock`, `Crash` | time, the server, the process |

A plan is a set; the order of the query (`Before`, `FirstOf`) decides which article
gets which slot. Scores and ages are not kept: they only decide whether a query of the
planner returns a row, and a query may return any set of the stored, unchosen rows
(`found`). `lost` remembers which locks ever went with their connection, so
that properties which hold only while the fetch lock is kept can say so.

A publishing run counts what is due, reads one list of at most that many and at most
`PUBLISH_BATCH_MAX` articles, and works through it whatever happens meanwhile; an
article of `Stubborn` fails whenever it is tried, any other only by an upset. Articles that fail
or become due later are left to the next run.

Stages work as in legacy mode, where only the locks keep two jobs apart; what they
do with one article is in `Enrichment` and `Publication`.

### Writing, Media and Article

`Writing` follows one article through `process_one`: a text is only its *kind*
(not JSON, hard-invalid, only too short, without description, mistyped, soft-invalid,
good), each request to a model is a step, and an answer may be of any kind. `job`
holds the phase (`research`, `rewrite`, `expand`, `repair`, `store`), the provider's
place in the order, the requests made, the draft and the usable drafts seen.

`Media` follows `_prepare_image` and what comes after it:

| Model | Code |
|---|---|
| `Catalog` | what a search can find, in strict order: identity, bytes, address, score, fit for strict or only for rescue |
| `config` | engine V1 or V2, mode, priority, rescue, source image, generation rules |
| `media`, `post` | attachments of WordPress with key, credit and origin; the attachment a post shows |
| `row[a]`, `usage` | `wp_featured_media_id` with its metadata; the local record of used images |
| `ReuseSaved`, `ClearStale`, `FindKeyed` | the first look for an image that is there already |
| `Route`, `RouteAfter`, `TrySource`, `TryGenerator`, `TryStockV1` | `ImageRoute` of both engines, with generation only where it is allowed |
| `SearchAll`, `SearchPart`, `StrictDownload...`, `RescueDownload...` | `image_search/service.py` and `emergency.py`: plan, budget, tiers, groups of one identity |
| `Upload`, `Credit`, `Identify`, `Save`, `Create`, `Record` | the five steps in two systems, each of which may fail; `Dies` is a crash between any two |
| `Trash` | an editor removes an attachment |

`Article` puts them in sequence as `_execute_pipeline` does: the publisher takes up
only what has a text, and a text that fails costs its article the pass and nothing
else.

### Deployment

A script is a number of statements, each committed when it ends. `Shown[m]` is the
statement after which verification passes, `Length[m]` the last one; for app-002
they differ, since its backfills leave no trace a verification reads.

| Model | Code |
|---|---|
| `done[m]`, `ledger`, `dirty` | the schema, `getnewsapi_migration_ledger`, rows the preflights would find |
| `lock` | the advisory lock of `migration_lock`, held on the connection that runs the scripts |
| `Start`, `Inspect`, `Report`, `Decide` | `DeploymentService.status`, `verify` and the head of `apply`: ledger first, then the schema, migration by migration (`Status`) |
| `Begin`, `Statement`, `Finish`, `Record` | preflights, script, verification, ledger row |
| `Dies`, `OrphanEnds`, `Break` | a process that is killed, whose server session may go on to the end of its statement with the lock held; a lost connection |
| `Edit` | somebody changes rows between preflight and script |

### Billing and Reporter

`Billing` is the fetch: OpenAI's daily buckets over pages with cursors, xAI's
grouped series and, where that answer is explicitly empty, the ungrouped question
that confirms a zero. An amount is zero or not zero, and `openai` and `usage` count
how often each day was added. `Reporter` is the report of one date around it:

| Model | Code |
|---|---|
| `disk`, `marker` | PDF and JSON of the date, delivery marker beside them; a file holds the number of its fetch, or `Torn` |
| `run` | the run under way: ordinary, `--force-resend` or `--no-send` |
| `drive`, `target` | what each destination holds; the configured one |
| `net`, `script` | signed requests with their age and nonce; the one the Apps Script executes, with the files it has not stored yet (PDF first) |
| `mail[c]` | what each channel accepted |
| `Resume`, `Regenerate`, `ReadBilling`, `WritePdf`, `WriteJson`, `WriteMarker` | `run_report` up to the first delivery |
| `SendRequest`, `AnswerArrives`, `AnswerLost`, `UpsertPdf`, `UpsertJson`, `SendTo`, `SendUnanswered`, `SaveMarker` | uploads by either backend, notifications, the marker after each acceptance |
| `Admit`, `Refuse`, `StoreFile`, `StoreFails`, `Reply`, `Duplicate` | `doPost` and the network: signature age, nonce, comparison of both files, storage |
| `Crash`, `Reconfigure`, `Tick` | the process, the operator, the clock |

## 3. Runs

| Run | Instance | Shows |
|---|---|---|
| `Publication_durable` | 2 durable workers, 2 articles that duplicate each other, 2 faults, fair | `OrphanStaysUnresolved`, `NoConfirmedPairPosted`, `PointerIsKept`, `EveryArticleSettles`, `TypeOK` |
| `Publication_mixed` | 1 durable without the guard, 1 legacy with it, a historical row, 3 faults | `AtMostOneCreate`, `PublishedMeansPosted`, `KeepsLeases` in a mixed rollout |
| `Publication_legacy` | 2 legacy, 2 faults | **violates** `NoConfirmedPairPosted` |
| `Enrichment_mixed` | 2 durable, 1 legacy, 2 articles, batches of 1, 1 fault | `ProcessedIsStored`, `NoStoryLost`, `ProvenanceIsKept`, `DuplicateIsTerminal` |
| `Enrichment_live` | 1 durable, 3 articles, one of them poison, 1 fault, fair | `KeepsLeases`, `SelectedIsProcessed` |
| `Enrichment_reselect` | 1 durable, no faults | **violates** `DuplicateStaysUnselected` |
| `Embedding_leases` | 2 workers, 1 ingester, 2 articles, one edited once, one refused by the provider, 1 fault, fair | `EmbeddedIsTrue`, `KeepsLeases`, `StableIsEmbedded` |
| `Article_pipeline` | 2 articles, 2 providers with 2 requests each, 4 images, 9 configurations, 4 attachments, 2 faults | `StrictIsFresh`, `GenerationIsLast`, `CreditedMedia`, `OneKeyedMedia`, `DraftIsNeverLost`, `TypeOK` |
| `Reporter_delivery` | 2 days on up to 2 pages, 1 series, mail and 1 WhatsApp number, 1 Apps Script and 1 OAuth target, one each of forced run, inspection, crash and fault, fair | `EveryDayCountedOnce`, `ZeroHasEvidence`, `OneSnapshot`, `RecordedIsStored`, `ResentOnlyForCause`, `ExecutedOnce`, `EveryChannelServed`, `TypeOK` |
| `Reporter_torn` | OAuth only, one forced run, one crash, one fault | **violates** `RetryReusesSnapshot` |
| `Operations_jobs` | 2 articles, 2 jobs at a time, 2 days of 2 ticks, target 1, lists of 2, 1 article whose publication always fails, 1 upset; fetch with process, or everything but fetch (1,262,793 states) | `QuotaKept`, `HourSlotsAreToday`, `EnrichedOnce`, `PlannedOnce`, `PipelineDelivers`, `TypeOK` |
| `Deployment_apply` | the app-002, app-004 and app-007 scripts, 2 appliers, 1 reader, 2 breaks, 1 edit | `RecordedIsExecuted`, `ScriptRunsAlone`, `ReportsHold` |

**Bounds.** `MaxFaults` bounds crashes, lost locks and failed calls together; time
(`Expire`, `Tick`), late requests and rescheduling are not counted. Three faults
are enough for the worst case the code is built against: a request times out, its
claim is given up, and both locks of the next run are lost. Two articles suffice
for everything that relates an article to its duplicate; a third one appears
where one article is to be starved by another. Two workers suffice for a stale
owner and its successor, and the same worker comes back after a crash. `BatchMin` and
`BatchMax` are the limits of a run, small enough that a run ends with work left.
`MaxAttempts` = 3 counts more attempts than one fault can spend on a good embedding
job (with fewer, the poison job and the good one would be counted as equal and the
model could starve the good one). In `Article_pipeline` the catalogue has one
identity under two providers, one content under two identities and one image below
its threshold, budgets smaller than the catalogue, and room for a second upload per
article. In `Reporter_delivery` one fault is one lost answer, failed call or changed
destination; a request may be handled after its sender gave up, and a second copy
of it may arrive. In `Operations_jobs` days are short, since planning depends on a
time only through the day and through what is due; the slots of a whole day, in
hours, with the default window from 14:00 to 02:00 and a share of 4/5, are checked
apart by `HourSlotsAreToday` for every hour of two days and every quota of less than
24, all of which the day has room for. Planning and publishing are
in different mixes, which keeps the instance small: the planner writes only unchosen rows,
the stages read only chosen ones.

The deadlock check is off where the system may stop: in `Publication` once every
article has settled, in `Reporter` once all is served, in `Article` at the bound on
attachments. It is on elsewhere: after any break somebody can look, apply or start
a job again.

**Fairness.** The liveness properties assume weak fairness of each worker's next step
and of `Expire`: the scheduler starts runs at an interval for as long as the
process lives, every HTTP call has a timeout, and clocks advance. No fairness is
assumed of faults, of WordPress carrying out an abandoned request, or of the
planner. The ingester, too, is run again and again; without that a document whose
ingester died before enqueueing it would stay without a job. `Enrichment_live`
has one durable worker: two can trade expiring leases for ever. That two or more
workers keep the leases is in no run; it rests on the proof
(`RawTableKeepsLeases`).
`Publication_durable` has durable runs only, since a claim left behind by
a dead durable run is not released by legacy runs (section 5).

In the reporter, the operator runs the dated command again until it succeeds, as its
README says (`services/ai-cost-reporter/README.md:245`); a run goes on, the receiver
handles what reaches it, time passes. `BillingFails` is fair only where the two
zero answers disagree, which ends the fetch by the code's own decision.
`EveryChannelServed` holds under the condition `Recovers` (the providers answer for good from some
time on) and excepts a forced run that was disturbed.
`Article`, `Operations` and `Deployment` are checked for safety only.

## 4. Proofs

Every safety and action property that a passing run checks is also stated by a
theorem, for every value of the constants. Some theorems have hypotheses; each is met by the instances
of the runs or by the code's defaults, and is named below with the reason for it.

`PublicationProofs`, from the assumptions on the constants stated in
`Publication` (workers of the two modes are distinct, finitely many articles, no
article duplicates itself) for any number of workers, articles and faults:

* `TypeCorrect`: `TypeOK` is an invariant.
* `CreationInvariant`: `CreationInv` is. `AtMostOneCreate` is not inductive: the
  reason for it is that *permissions* to create are unique. `PermissionIsUnique`
  says that a fresh row was never submitted, and that at most one worker is
  `Armed` for an article, in which case the row is fresh no longer.
  `RequestIsAccounted` follows the single request (awaited, adrift, carried out
  or refused), `PointersAreReal` ties the saved and remembered ids to the one
  post, `GateHolds` says that only fresh snapshots pass the gate in `Reconcile`,
  and `TokenMeansClaim` is what makes a row with a token not fresh.
* `OneCreatePerArticle`, `PublishedPointsToPost`, `PointersAreKept`,
  `LiveClaimsAreOwned` follow from it.
* `ClaimsKeepLeases`: the table of rich articles implements `LeaseQueue` for its
  durable workers, with any number of legacy workers beside them. Each durable
  write but the claim and the saved post id ends the writer's own claim
  (`DurableEnds`); each legacy write keeps token and lease of a claimed row, or
  withdraws a row without a token (`ClaimIsKept`), and `TokenMeansClaim` is why
  `Claimable` never lets a run take a row whose holder's lease has not lapsed.
* `OrphansAreKept`: `OrphanStaysUnresolved` while all runs are of one mode, by
  `AttemptsAreMarked`: an article whose creation is under way or happened is
  `Marked` on its row. Without durable runs the invariant needs `NoRetryable`, that
  no row is released as retryable: `reject_duplicate` then refuses every row with
  an attempt. Where the modes mix the property is false: two legacy runs beside a
  durable one, and four faults, let a legacy run reject, from an old fresh
  snapshot, a row whose unrecorded post exists.
* `DurablePairsAreSafe`: `NoConfirmedPairPosted` where all workers are durable and
  enforce the guard, although both locks may be lost: each run claims its article before
  it looks for the other's. The invariant `OneOfAPair` says that of a confirmed pair
  one article at most is committed (created, or past its last guard).
* `MutexKeepsPairsApart`: the same in mixed operation, while no session loses the
  mutex and the policy confirms pairs in both directions. Without that symmetry it is
  false for three articles, a mutual pair and a third one that repeats the first:
  the first may be rejected for the third while its post exists, and its partner is posted.
  Without the mutex it is false, as `Publication_legacy` shows.

`EnrichmentProofs`:

* `TypeCorrect`, and `WorkInvariant`: a worker about to finish has stored its
  article, a duplicate is processed, token and lease are there exactly while the
  row is claimed, and a worker between items has none.
* `ProcessedRowsAreStored`, `DuplicatesAreTerminal`, `ProvenanceKept`.
* `StoriesAreKept`: `NoStoryLost`, provided repeating is inherited along chains
  (`RepeatsChain`). Without that provision it is false for a chain of three: the
  article in the middle is given up for the third, after the first was given up
  for the middle one. The invariant `StoryInv` adds what a worker about to reject
  still knows about the article it rejects for.
* `RawTableKeepsLeases`: the refinement of `LeaseQueue`, one step of the abstract
  queue or a stutter per action.

`EmbeddingProofs`, from `ActorsAssumption` (workers and ingesters are distinct and
NULL is neither a worker nor a document) and `BoundsAssumption`:

* `TypeCorrect` and `StoreInvariant`. `EmbeddedIsTrue` is not inductive: a worker
  that persists must have the text of its document (`TextIsChecked`), which holds
  from the comparison in `Load` on because neither an edit nor the loss of the claim
  touches what the worker has loaded; `ClaimIsWhole`, `ItemMeansBusy` and
  `JobsAreRegistered` tie token, item and document to the job.
* `EmbeddingsAreTrue` follows.
* `JobTableKeepsLeases`: the job table implements `LeaseQueue` as well.

`DeploymentProofs`, for any migrations, dependencies, script lengths, appliers and
readers, and whether or not the schema was begun by hand before there was a ledger:

* `TypeCorrect`, `LedgerIsTrue`, `ScriptsRunAlone`, `ReportsAreTrue`. The inductive
  invariant `IInv` adds to `RecordedIsExecuted` that the lock belongs to a session
  in or after its inspection (`LockInv`), that what its holder saw as pending has had no statement executed
  but by the holder (`HolderInv`), and that a ledger record a reader saw was complete then
  (`ReadInv`), which is why reading the ledger before the schema matters.

`ReporterProofs` on `Billing`, for any number of days, pages, cursors and labels:
`BillingTyped`, `DaysCountedOnce`, `ZeroIsShown`, by an invariant that says a day was added
exactly if its bucket (or its point in each finished series) was read (`Counted`), and
that a state of zero rests on its evidence (`Evidence`).

`ReporterProofs` on `Reporter`, in layers that each rest on the ones before:

* `ReporterFetches` shows that `Reporter` implements `Billing`
  (`Spec => BillingSpec`), so `ReportCountsDaysOnce` and `ReportZeroIsShown` carry
  Billing's theorems to the whole reporter.
* `ResentForCause`, by an invariant on the length of each channel's mail (`Sent`): a
  channel that neither the marker in memory nor the one on disk lists has had no
  more messages than there were forced runs, crashes and lost answers, any other
  at most one more.
* `ReplaysAreRefused`: `ExecutedOnce`, by `NetInv`: a request that was executed is
  remembered by its nonce for as long as its timestamp is accepted, and a run that
  awaits an answer awaits the request it sent.
* `MarkerIsTrue` and `ReportIsOneSnapshot`, by `SnapInv`, which says for each place
  of a run which snapshot the disk, the destinations, the requests under way and
  the channels hold. `RecordedIsStored` speaks of at most one forced run, which
  the proof needs and so does the program: after two, a late request of the first may be
  handled after the second delivered, and replace its files (TLC shows it in 30 states).
* `ReporterTyped`, with `MadeHolds` and `Bounded` for the number of snapshots and
  the requests under way.

`ArticleProofs`, for any providers, catalogue, budgets and configurations:

* `DraftKept`: once a usable draft was seen, only repair and store are left (`Well`).
* `OneKeyed` and `CreditShown`, from one invariant `MediaInv`: an upload is made
  only where the saved and the keyed attachment are gone (`RunHolds`), and an attachment
  that is keyed, saved or shown has its credit (`KeyedSuffice`, `SavedSuffice`, `ShownSuffice`).
* `StrictNeverRepeats` and `GeneratorsComeLast`, from `ImageInv`: a strict candidate
  about to be uploaded is fresh (`FreshHolds`), only what was chosen as a stock
  image is credited and recorded as one (`CandHolds`), and generators come after
  the search, with rescue only when every candidate it has tried has failed or is
  kept for later (`RouteHolds`). That rescue has a next image in any pool is `LeastExists`: an
  order that compares all members of a finite set has a least one.
* `ArticleTyped`: `TypeOK` of texts and images together.

`SlotsProofs`:

* `SlotsLieAhead`: the slots of any day, window, share and quota are ahead, of that
  day, in order and no more than the places left, for all `n` with `Roomy(n)`. In
  seconds that is any target below tens of thousands. The proof has no sorting in
  it: `RankedExists` finds a time for every rank, by the least count that suffices.

`OperationsProofs`:

* `HourSlots`: `HourSlotsAreToday` as the instance of `SlotsLieAhead` for the default
  window in hours, whose assumption and whose room for any number of slots
  (`HoursAreRoomy`) are proved there.
* `DailyTargetIsKept` and `TimesAreKept`, by `PlanInv`: while the fetch lock was not
  lost at most one cycle is between its count and its assignment, the places it
  counted are still free (`Fits`) and the rows it chose are still unplanned
  (`Unplanned`). A cycle whose connection dropped may plan beside another, which is
  why `QuotaKept` and `PlannedOnce` except it. `QuotaKept` speaks of the step that
  plans and counts all chosen rows of the day, breaking or not, because that is what the
  code counts and what it can keep: which of them are breaking may change afterwards.
* `ArticlesEnrichedOnce`, by `CostInv`: what an article has cost and may still cost by
  the jobs that have it in hand is no more than one and the number of upsets, of which every job
  that outlived its lock has used up one.
* `OperationsTyped`, as long as each day has room for the quota.
* `PipelinesDeliver`: `PipelineDelivers`, as long as each day has room for the quota and
  `PUBLISH_BATCH_MAX` has room for the articles. Its invariant `DeliverInv` says where a
  job may be while it holds the two locks (`Stage`), that an enriched article is due
  unless the fetch or the pipeline lock was lost (`RichDue`), and that what a pipeline owes is
  within what it counted and then on its list (`Delivers`). It rests on the three
  invariants above: chosen articles keep their time (`PlanInv`), only a job with
  the pipeline lock enriches more of them, and a row never goes back (`CostInv`). Both
  assumptions are needed. With more articles than the batch limit, articles that always fail
  may take the whole list, and articles enriched meanwhile with an earlier time
  may push others out.

Only model-checked: the liveness properties (`EveryArticleSettles`,
`SelectedIsProcessed`, `StableIsEmbedded`, `EveryChannelServed`), which are out of
the prover's reach. Induction is used where it is needed as the existence of
a least counterexample among the naturals (`LeastNatural`, from the well-foundedness
of `<`).

## 5. Where code and documentation differ

* `Publication_legacy`: `docs/GETNEWSAPI_DUPLICATE_ENFORCEMENT.md:185` says a lost
  named-lock session prevents creation. It does when the loss precedes the last
  guard check; between that check and the request nothing looks again, and two
  legacy runs then post both duplicates.
* `Enrichment_reselect`: the same document (130-131) calls a retired row terminal
  and unselected; the planner's queries look at `chosen_for_publish = 0` alone and
  select it again, so that it takes a slot of the day.
* `Reporter_torn`: the reporter's README (245) and the comment at `app.py:1560` say
  that unfinished reruns reuse one PDF and JSON snapshot. A forced resend rewrites
  the PDF and the JSON and only then resets the marker; killed in between, it leaves
  the old marker beside files that do not belong together, and the next ordinary
  run sends them.

Weaknesses the models leave visible without calling them disagreements:

* A durable claim left behind by a crash is released by durable runs only.
* `PROCESS_BATCH_MAX` rows that fail every time at the head of the schedule take every
  batch.
* A row that was stored, failed before completion and was retired on its next
  attempt may still be posted by a publisher that had claimed it; its post is not
  loaded as a candidate any more, and the article it repeats is posted too.
* A retired row frees its place in the day's count, so that more articles than the
  target may be planned in a day, though never more than the target at once.
* A later rating may take the mark of a chosen breaking article away (`_update_scores`
  looks at no selection), so that more articles that are not breaking than the target
  are chosen for one day.
* A publishing run counts and then lists what is due; its list is cut at the
  count and ordered by time, so an article that becomes ready in between may take
  the place of one that was counted. `PUBLISH_BATCH_MAX` articles that fail every
  time without a disposition, with the earliest times, take every list.
* `load_image_usage` takes an unreadable usage file for an empty one, and the next record
  writes it anew from that: images used before are then known from WordPress alone.
* Where durable and legacy publishers work side by side, an old snapshot of a legacy run may have
  it reject a row whose unrecorded post exists: `OrphanStaysUnresolved` is checked
  and proved for one mode at a time.
* A breaking article whose importance is below the breaking threshold is selected by neither
  query of the planner. Planning is skipped when the news API serves nothing.
* A text that passes hard validation with a field of the wrong type fails the
  article, and such a repair replaces a usable draft, although `repair_if_needed`
  says it raises only when hard validation fails.
* The reporter's marker is saved after the acceptance: a crash in between repeats a
  message, which limits the "at most once per date" of `app.py:1492`.
* The OAuth backend compares names only: after a forced run that was cut short it
  may keep the files of an earlier snapshot.
* A request of a forced run that is handled late may replace what the next forced run
  has stored, while the marker records the later one.
* Where the duplicate policy confirms one pair in one direction only, mixed operation
  may post both articles of another pair although the mutex is kept.
* A fetch cycle that loses its named lock goes on planning beside the next one; together
  they may exceed the daily target or move an article that has a time.

## 6. Plan

Done: `Publication`, `LeaseQueue`, `Enrichment`, `Embedding`, `Slots` and
`Operations`, `Writing`, `Media` and `Article`, `Deployment`, `Billing` and
`Reporter`, with the proofs of section 4. Next, in this order:

1. `Operations`: a mix with fetch and publish, the batch limit of processing, start and stop of the
   scheduler, and liveness of a due article, which needs strong fairness of starts that
   find their lock taken.
2. `Media` with two publishers after a lapsed lease, and the usage file
   that is read and rewritten without a lock.
3. `Embedding`: content that returns to an earlier version, the limit of the scan
   and the backfill with its cursor.
4. Pure parts against reference definitions: duplicate policy decisions, chunking,
   checksum drift of migrations.

## 7. Not modelled

* Semantic retrieval and calibration: read-only or offline; their audit rows feed no
  decision of the pipeline.
* Configuration, probes and maintenance scripts: no state that two actors share.
* Payloads, HTML, taxonomy and SEO fields, prompts and the validation rules
  themselves, search queries and scores, the rendering of the report: data whose
  content no property tells apart; each is one step that may fail, or a kind.
* Duplicate policy: whether two texts repeat one another is an arbitrary relation;
  candidates do not age out of the lookback window.
* `Operations`: shutdown, interval arithmetic, read-only routes, `PROCESS_BATCH_MAX`.
* `Media`: one publisher at a time; the reuse window does not end; the local usage file
  can always be read, as if never damaged; the content of an
  image found by the V1 engine is unknown to the record, as in the code.
* `Writing`: no crash inside a text, which `Enrichment` has as one step.
* `Deployment`: checksum drift, damage done to the schema by hand, rollback scripts;
  the vector database is the same model with other constants.
* `Reporter`: one date at a time; amounts, currencies and formats.
