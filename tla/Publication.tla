---------------------------- MODULE Publication ----------------------------
(***************************************************************************)
(* Publication of enriched articles to WordPress.                          *)
(*                                                                         *)
(* A worker is one invocation of publish_news_to_wp().  A durable worker   *)
(* runs PublishingService (claim tokens, lease expiry); a legacy worker    *)
(* runs the batch loop without claims.  Both kinds share the table         *)
(* rich_crpytonews, the WordPress site, the advisory lock                  *)
(* "wp_publisher_lock" and the duplicate-publication mutex.  Every database *)
(* transaction and every HTTP request of the code is one step; a worker    *)
(* may crash, lose a named lock, or fail an external call between any two. *)
(*                                                                         *)
(* Abstractions.  wp_post_id is the ordinal of the article's post on the   *)
(* site (0 is NULL); wp_post_url and wp_post_created_at are only written   *)
(* together with it and are left out.  publish_status NULL and 'pending'   *)
(* are one status.  publish_attempt_count is counted up to "2 or more",    *)
(* the only distinction the code makes.  A claim token is the worker that  *)
(* drew it.  Media columns are left out: preparing the image is one step.  *)
(***************************************************************************)
EXTENDS Naturals, FiniteSets

CONSTANTS
    Articles,       \* rich articles whose source row is selected
    Durable,        \* invocations with PUBLISH_DURABLE_STATE_ENABLED
    Legacy,         \* invocations of the legacy batch loop
    None,           \* SQL NULL for tokens, no holder for locks
    ConfirmedPair,  \* <<a, c>>: the policy confirms a as a duplicate of c
    Enforcing,      \* workers that run with DUPLICATE_ENFORCEMENT_MODE = "enforce"
    Historical,     \* articles inserted before the 'fresh' provenance existed
    BatchMax,       \* PUBLISH_BATCH_MAX
    MaxFaults       \* bound on crashes, lost locks and failed calls

Workers == Durable \union Legacy

ASSUME WorkersAssumption ==
    /\ Durable \intersect Legacy = {}
    /\ None \notin Workers
ASSUME ArticlesAssumption == IsFiniteSet(Articles) /\ None \notin Articles
ASSUME PairsAssumption ==
    /\ ConfirmedPair \subseteq Articles \X Articles
    /\ \A a \in Articles : <<a, a>> \notin ConfirmedPair
ASSUME SettingsAssumption ==
    /\ Enforcing \subseteq Workers
    /\ Historical \subseteq Articles
    /\ BatchMax \in Nat \ {0}
    /\ MaxFaults \in Nat

VARIABLES
    row,      \* rich_crpytonews, one record per article
    due,      \* source row selected and scheduled_for <= now
    sent,     \* number of CREATE requests issued for the article
    posts,    \* number of posts of the article on the WordPress site
    adrift,   \* requests whose client is gone and whose outcome is open
    wpLock,   \* holder of wp_publisher_lock
    mutex,    \* holder of the duplicate-publication mutex
    pc,       \* next step of each worker
    job,      \* the article a worker is on and its snapshot of the row
    seen,     \* durable: ids claimed in this run; legacy: rest of the batch
    left,     \* durable: iterations left of range(limit)
    faults    \* faults still allowed

tableVars == <<row, due>>
siteVars  == <<sent, posts, adrift>>
lockVars  == <<wpLock, mutex>>
runVars   == <<job, seen, left>>
vars == <<row, due, sent, posts, adrift, wpLock, mutex, pc, job, seen, left, faults>>

Statuses == {"pending", "fresh", "claimed", "post_created", "retryable",
             "published", "manual_review", "duplicate"}
Steps == {"idle", "hold", "loop", "identity", "reconcile", "guard", "image",
          "precheck", "intent", "post", "await", "persist", "yoast",
          "complete", "manual", "defer", "reject", "failing"}

Row == [pub: BOOLEAN, st: Statuses, tok: Workers \union {None},
        lease: {"none", "live", "expired"}, att: 0..2, wp: Nat]
Job == [art: Articles \union {None}, fresh: BOOLEAN, ptr: Nat,
        canon: Articles \union {None}]

\* The worker is on an article: a durable run takes the mutex before its first.
OnItem(w) == pc[w] \notin {"idle", "loop"} /\ ~(w \in Durable /\ pc[w] = "hold")

NoJob == [art |-> None, fresh |-> FALSE, ptr |-> 0, canon |-> None]

-----------------------------------------------------------------------------
(* Predicates of the SQL statements and of the models *)

InClaim(r) == r.st \in {"claimed", "post_created"}

Claimable_NoExpiry(r) == ~r.pub /\ r.st \in {"pending", "fresh", "retryable"}

\* WHERE clause of claim_next, apart from the schedule.
Claimable(r) ==
    /\ ~r.pub
    /\ \/ r.st \in {"pending", "fresh", "retryable"}
       \/ InClaim(r) /\ r.lease = "expired"

\* WHERE clause of fetch_unpublished and _count_due_now.
Fetchable(a) ==
    due[a] /\ ~row[a].pub /\ row[a].st \notin {"manual_review", "duplicate"}

FreshState_UnlinkedOnly(r) == ~r.pub /\ r.wp = 0

\* is_fresh_publication_state: explicit provenance of a row never attempted.
FreshState(r) ==
    /\ ~r.pub
    /\ r.st = "fresh"
    /\ r.att = 0
    /\ r.wp = 0
    /\ r.tok = None

\* WHERE clause of every owned update of the publication repository.
Owned(a, w) == row[a].tok = w /\ InClaim(row[a])

\* A candidate with an external outcome, or with an attempt of unknown outcome.
External(r) == r.pub \/ r.wp > 0 \/ r.st \in {"published", "post_created"}

Unresolved_NotRetryable(r) ==
    ~External(r) /\ r.att > 0 /\ r.st \in {"claimed", "manual_review"}

Unresolved(r) ==
    ~External(r) /\ r.att > 0 /\ r.st \in {"claimed", "retryable", "manual_review"}

Canonicals(a) ==
    {c \in Articles : <<a, c>> \in ConfirmedPair
                      /\ row[c].st # "duplicate" /\ External(row[c])}

UnresolvedPeers(a) ==
    {c \in Articles : <<a, c>> \in ConfirmedPair /\ Unresolved(row[c])}

-----------------------------------------------------------------------------
(* Row updates of repositories/publication.py *)

Bump(n) == IF n = 0 THEN 1 ELSE 2

Claimed_Restarted(r, w) ==
    [r EXCEPT !.st = "claimed", !.tok = w, !.lease = "live",
              !.att = Bump(r.att), !.wp = 0]

Claimed(r, w) ==
    [r EXCEPT !.st = "claimed", !.tok = w, !.lease = "live", !.att = Bump(r.att)]

Released_Forgetful(r, status) ==
    [r EXCEPT !.st = status, !.tok = None, !.lease = "none", !.att = 0]

Released(r, status) == [r EXCEPT !.st = status, !.tok = None, !.lease = "none"]

PostSaved(r, id) == [r EXCEPT !.wp = id, !.st = "post_created"]

LegacyIntent(r) == [r EXCEPT !.st = "claimed", !.lease = "live", !.att = 1]

Completed_RawStatus(r) == [Released(r, "completed") EXCEPT !.pub = TRUE]

Completed(r) == [Released(r, "published") EXCEPT !.pub = TRUE]

Refreshed(r) == [Released(r, "fresh") EXCEPT !.att = 0]

-----------------------------------------------------------------------------
(* Control flow of one worker *)

Goto(w, step) == pc' = [pc EXCEPT ![w] = step]

Drop(lock, w) == IF lock = w THEN None ELSE lock

Advance(w, step) == Goto(w, step) /\ UNCHANGED <<lockVars, runVars>>

\* Leave the block "with guard.hold()", which only the legacy loop opens per item.
LeaveGuard(w) == mutex' = IF w \in Legacy THEN Drop(mutex, w) ELSE mutex

Divert(w, step) ==
    Goto(w, step) /\ LeaveGuard(w) /\ UNCHANGED <<wpLock, runVars>>

NextItem(w) ==
    /\ Goto(w, "loop")
    /\ LeaveGuard(w)
    /\ job' = [job EXCEPT ![w] = NoJob]
    /\ UNCHANGED <<wpLock, seen, left>>

\* An exception: the durable service releases the claim, the loop just goes on.
GiveUp(w) == IF w \in Durable THEN Advance(w, "failing") ELSE NextItem(w)

EndRun(w) ==
    /\ Goto(w, "idle")
    /\ job' = [job EXCEPT ![w] = NoJob]
    /\ seen' = [seen EXCEPT ![w] = {}]
    /\ left' = [left EXCEPT ![w] = 0]
    /\ wpLock' = Drop(wpLock, w)
    /\ mutex' = Drop(mutex, w)

UseFault == faults > 0 /\ faults' = faults - 1

SetRow(a, r) == row' = [row EXCEPT ![a] = r]

AddTo(f, a) == [f EXCEPT ![a] = @ + 1]

-----------------------------------------------------------------------------
(* A run: publish_news_to_wp and the claim loop *)

Limit ==
    LET n == Cardinality({a \in Articles : Fetchable(a)})
    IN  IF n < BatchMax THEN n ELSE BatchMax

StartDurable(w) ==
    /\ pc[w] = "idle" /\ wpLock = None
    /\ Limit > 0
    /\ wpLock' = w
    /\ left' = [left EXCEPT ![w] = Limit]
    /\ Goto(w, "hold")
    /\ UNCHANGED <<tableVars, siteVars, mutex, job, seen, faults>>

StartLegacy(w) ==
    /\ pc[w] = "idle" /\ wpLock = None
    /\ \E batch \in SUBSET {a \in Articles : Fetchable(a)} :
          /\ Cardinality(batch) = Limit /\ Limit > 0
          /\ seen' = [seen EXCEPT ![w] = batch]
    /\ wpLock' = w
    /\ Goto(w, "loop")
    /\ UNCHANGED <<tableVars, siteVars, mutex, job, left, faults>>

\* guard.hold(): around the whole durable run, around one item of the legacy loop.
HoldMutex(w) ==
    LET next == IF w \in Durable THEN "loop" ELSE "guard"
    IN  /\ pc[w] = "hold"
        /\ \/ w \notin Enforcing /\ Advance(w, next)
           \/ /\ w \in Enforcing /\ mutex = None
              /\ mutex' = w
              /\ Goto(w, next) /\ UNCHANGED <<wpLock, runVars>>
           \/ /\ w \in Enforcing /\ mutex # None
              /\ IF w \in Durable THEN EndRun(w) ELSE NextItem(w)
        /\ UNCHANGED <<tableVars, siteVars, faults>>

\* What a worker remembers of the row it takes up.
Snapshot(a) ==
    [art |-> a, fresh |-> FreshState(row[a]), ptr |-> row[a].wp, canon |-> None]

\* claim_next; creation_is_fresh is computed from the row before the claim.
ClaimNext(w, a) ==
    /\ pc[w] = "loop" /\ left[w] > 0
    /\ a \notin seen[w] /\ due[a] /\ Claimable(row[a])
    /\ SetRow(a, Claimed(row[a], w))
    /\ job' = [job EXCEPT ![w] = Snapshot(a)]
    /\ seen' = [seen EXCEPT ![w] = @ \union {a}]
    /\ left' = [left EXCEPT ![w] = @ - 1]
    /\ Goto(w, "identity")
    /\ UNCHANGED <<due, siteVars, lockVars, faults>>

\* get_external_post_state of the next item; a row published meanwhile is skipped.
LoadItem(w, a) ==
    /\ pc[w] = "loop" /\ a \in seen[w]
    /\ seen' = [seen EXCEPT ![w] = @ \ {a}]
    /\ IF row[a].pub THEN UNCHANGED <<pc, job>>
       ELSE /\ job' = [job EXCEPT ![w] = Snapshot(a)]
            /\ Goto(w, "reconcile")
    /\ UNCHANGED <<tableVars, siteVars, lockVars, left, faults>>

FinishRun(w) ==
    /\ pc[w] = "loop"
    /\ IF w \in Legacy THEN seen[w] = {}
       ELSE \/ left[w] = 0
            \/ \A a \in Articles \ seen[w] : ~(due[a] /\ Claimable(row[a]))
    /\ EndRun(w)
    /\ UNCHANGED <<tableVars, siteVars, faults>>

-----------------------------------------------------------------------------
(* One article: _publish_claim, reconcile, publish and the legacy loop body *)

SaveIdentity(w) ==
    LET a == job[w].art
    IN  /\ pc[w] = "identity"
        /\ IF Owned(a, w) /\ ~row[a].pub /\ row[a].wp = job[w].ptr
           THEN Advance(w, "reconcile")
           ELSE GiveUp(w)
        /\ UNCHANGED <<tableVars, siteVars, faults>>

\* A saved pointer is read back over REST; without one only a fresh article goes on.
Reconcile(w) ==
    /\ pc[w] = "reconcile"
    /\ \/ job[w].ptr > 0 /\ Advance(w, "persist")
       \/ job[w].ptr = 0 /\ ~job[w].fresh /\ Advance(w, "manual")
       \/ /\ job[w].ptr = 0 /\ job[w].fresh
          /\ Advance(w, IF w \in Durable THEN "guard" ELSE "hold")
    /\ UNCHANGED <<tableVars, siteVars, faults>>

\* PublicationDuplicateGuard.check before media ("guard") and before CREATE
\* ("precheck"): lock ownership first, then the candidates.
GuardCheck(w) ==
    LET a == job[w].art
        next == IF pc[w] = "guard" THEN "image"
                ELSE IF w \in Legacy THEN "intent" ELSE "post"
    IN  /\ pc[w] \in {"guard", "precheck"}
        /\ \/ w \notin Enforcing /\ Advance(w, next)
           \/ w \in Enforcing /\ mutex # w /\ Divert(w, "defer")
           \/ /\ w \in Enforcing /\ mutex = w
              /\ \E c \in Canonicals(a) : job' = [job EXCEPT ![w].canon = c]
              /\ Goto(w, "reject") /\ LeaveGuard(w)
              /\ UNCHANGED <<wpLock, seen, left>>
           \/ /\ w \in Enforcing /\ mutex = w
              /\ Canonicals(a) = {} /\ UnresolvedPeers(a) # {}
              /\ Divert(w, "manual")
           \/ /\ w \in Enforcing /\ mutex = w
              /\ Canonicals(a) = {} /\ UnresolvedPeers(a) = {}
              /\ Advance(w, next)
        /\ UNCHANGED <<tableVars, siteVars, faults>>

\* Image, terms and payload are ready.
PrepareImage(w) ==
    /\ pc[w] = "image" /\ Advance(w, "precheck")
    /\ UNCHANGED <<tableVars, siteVars, faults>>

BeginLegacyCreation(w) ==
    LET a == job[w].art
    IN  /\ w \in Legacy /\ pc[w] = "intent"
        /\ IF FreshState(row[a])
           THEN SetRow(a, LegacyIntent(row[a])) /\ Advance(w, "post")
           ELSE NextItem(w) /\ UNCHANGED row
        /\ UNCHANGED <<due, siteVars, faults>>

SendCreate(w) ==
    /\ pc[w] = "post"
    /\ sent' = AddTo(sent, job[w].art)
    /\ Advance(w, "await")
    /\ UNCHANGED <<tableVars, posts, adrift, faults>>

CreateSucceeds_NoCallback(w) ==
    LET a == job[w].art
    IN  /\ pc[w] = "await"
        /\ posts' = AddTo(posts, a)
        /\ job' = [job EXCEPT ![w].ptr = posts[a] + 1]
        /\ Goto(w, "yoast")
        /\ UNCHANGED <<tableVars, sent, adrift, lockVars, seen, left, faults>>

CreateSucceeds(w) ==
    LET a == job[w].art
    IN  /\ pc[w] = "await"
        /\ posts' = AddTo(posts, a)
        /\ job' = [job EXCEPT ![w].ptr = posts[a] + 1]
        /\ Goto(w, "persist")
        /\ UNCHANGED <<tableVars, sent, adrift, lockVars, seen, left, faults>>

\* save_external_post and save_legacy_external_post.
SavePost(w) ==
    LET a == job[w].art
        id == job[w].ptr
    IN  /\ pc[w] = "persist"
        /\ \/ /\ w \in Durable /\ Owned(a, w)
              /\ SetRow(a, PostSaved(row[a], id)) /\ Advance(w, "yoast")
           \/ /\ w \in Legacy /\ ~row[a].pub /\ row[a].wp \in {0, id}
              /\ SetRow(a, [row[a] EXCEPT !.wp = id]) /\ Advance(w, "yoast")
           \/ /\ IF w \in Durable THEN ~Owned(a, w)
                 ELSE row[a].pub \/ row[a].wp \notin {0, id}
              /\ GiveUp(w) /\ UNCHANGED row
        /\ UNCHANGED <<due, siteVars, faults>>

\* Yoast metadata written and read back.
WriteYoast(w) ==
    /\ pc[w] = "yoast" /\ Divert(w, "complete")
    /\ UNCHANGED <<tableVars, siteVars, faults>>

\* PublicationRepository.complete and mark_news_as_published.
Complete(w) ==
    LET a == job[w].art
    IN  /\ pc[w] = "complete"
        /\ \/ w \in Durable /\ Owned(a, w) /\ SetRow(a, Completed(row[a])) /\ NextItem(w)
           \/ w \in Durable /\ ~Owned(a, w) /\ GiveUp(w) /\ UNCHANGED row
           \/ w \in Legacy /\ SetRow(a, [row[a] EXCEPT !.pub = TRUE]) /\ NextItem(w)
        /\ UNCHANGED <<due, siteVars, faults>>

-----------------------------------------------------------------------------
(* Dispositions *)

RequireManual_AnyToken(w) ==
    LET a == job[w].art
    IN  /\ pc[w] = "manual"
        /\ row' = IF ~row[a].pub /\ row[a].wp = 0
                  THEN [row EXCEPT ![a] = Released(@, "manual_review")] ELSE row
        /\ NextItem(w)
        /\ UNCHANGED <<due, siteVars, faults>>

\* require_manual_reconciliation and defer_legacy_manual_reconciliation.
RequireManual(w) ==
    LET a == job[w].art
        r == row[a]
        legacyMayDefer == ~r.pub /\ r.wp = 0 /\ r.tok = None /\ r.st # "manual_review"
    IN  /\ pc[w] = "manual"
        /\ \/ /\ w \in Durable /\ Owned(a, w) /\ ~r.pub /\ r.wp = 0
              /\ SetRow(a, Released(r, "manual_review")) /\ NextItem(w)
           \/ /\ w \in Durable /\ ~(Owned(a, w) /\ ~r.pub /\ r.wp = 0)
              /\ GiveUp(w) /\ UNCHANGED row
           \/ /\ w \in Legacy
              /\ row' = IF legacyMayDefer
                        THEN [row EXCEPT ![a] = Released(r, "manual_review")] ELSE row
              /\ NextItem(w)
        /\ UNCHANGED <<due, siteVars, faults>>

\* defer_duplicate_guard; only a fresh first attempt reaches it.  The legacy
\* loop has written nothing yet and leaves the row alone.
DeferGuard(w) ==
    LET a == job[w].art
        r == row[a]
        mayRefresh == /\ r.tok = w /\ ~r.pub /\ r.st = "claimed"
                      /\ r.att = 1 /\ r.wp = 0
    IN  /\ pc[w] = "defer"
        /\ \/ w \in Durable /\ mayRefresh /\ SetRow(a, Refreshed(r)) /\ NextItem(w)
           \/ w \in Durable /\ ~mayRefresh /\ GiveUp(w) /\ UNCHANGED row
           \/ w \in Legacy /\ NextItem(w) /\ UNCHANGED row
        /\ UNCHANGED <<due, siteVars, faults>>

\* Ownership clause of reject_duplicate, with and without a token.
MayReject(a, w) ==
    LET r == row[a]
    IN  /\ ~r.pub /\ r.wp = 0
        /\ IF w \in Durable THEN r.tok = w /\ r.st = "claimed"
           ELSE /\ r.tok = None /\ r.lease = "none"
                /\ r.st \in {"fresh", "pending", "retryable"}

\* reject_duplicate: one transaction over the row, its source and the canonical.
RejectDuplicate(w) ==
    LET a == job[w].art
        c == row[job[w].canon]
        proven == c.st # "duplicate" /\ External(c)
    IN  /\ pc[w] = "reject"
        /\ IF MayReject(a, w) /\ proven
           THEN /\ SetRow(a, Released(row[a], "duplicate"))
                /\ due' = [due EXCEPT ![a] = FALSE]
                /\ NextItem(w)
           ELSE GiveUp(w) /\ UNCHANGED tableVars
        /\ UNCHANGED <<siteVars, faults>>

\* PublicationRepository.fail after any exception of the durable service.
FailClaim(w) ==
    LET a == job[w].art
    IN  /\ w \in Durable /\ pc[w] = "failing"
        /\ row' = IF Owned(a, w) THEN [row EXCEPT ![a] = Released(@, "retryable")] ELSE row
        /\ NextItem(w)
        /\ UNCHANGED <<due, siteVars, faults>>

-----------------------------------------------------------------------------
(* Faults *)

\* A failed transaction or request that the code turns into a failed attempt.
StepFails(w) ==
    /\ UseFault
    /\ pc[w] \in IF w \in Durable
                 THEN {"identity", "reconcile", "image", "persist", "yoast",
                       "complete", "manual", "reject"}
                 ELSE {"hold", "reconcile", "intent", "persist", "yoast",
                       "manual", "reject"}
    /\ GiveUp(w)
    /\ UNCHANGED <<tableVars, siteVars>>

\* The audit or the candidates cannot be read or written.
GuardUnavailable(w) ==
    /\ UseFault
    /\ w \in Enforcing /\ pc[w] \in {"guard", "precheck"}
    /\ Divert(w, "defer")
    /\ UNCHANGED <<tableVars, siteVars>>

\* WordPress answers with a status other than 201.
CreateRefused(w) ==
    /\ UseFault
    /\ pc[w] = "await" /\ GiveUp(w)
    /\ UNCHANGED <<tableVars, siteVars>>

\* Timeout or lost response: the request may still be carried out.
CreateUnanswered(w) ==
    /\ UseFault
    /\ w \in Durable /\ pc[w] = "await" /\ GiveUp(w)
    /\ adrift' = AddTo(adrift, job[w].art)
    /\ UNCHANGED <<tableVars, sent, posts>>

LandLate(a) ==
    /\ adrift[a] > 0
    /\ adrift' = [adrift EXCEPT ![a] = @ - 1]
    /\ posts' = AddTo(posts, a)
    /\ UNCHANGED <<tableVars, sent, lockVars, pc, runVars, faults>>

NeverLands(a) ==
    /\ adrift[a] > 0
    /\ adrift' = [adrift EXCEPT ![a] = @ - 1]
    /\ UNCHANGED <<tableVars, sent, posts, lockVars, pc, runVars, faults>>

Abandon(w) ==
    /\ EndRun(w)
    /\ adrift' = IF pc[w] = "await" THEN AddTo(adrift, job[w].art) ELSE adrift
    /\ UNCHANGED <<due, sent, posts>>

\* KeyboardInterrupt or SystemExit inside _publish_claim: release_interrupted.
Interrupt(w) ==
    LET a == job[w].art
    IN  /\ UseFault
        /\ w \in Durable
        /\ pc[w] \in {"identity", "reconcile", "guard", "image", "precheck", "post",
                      "await", "persist", "yoast", "complete"}
        /\ row' = IF Owned(a, w) THEN [row EXCEPT ![a] = Released(@, "retryable")] ELSE row
        /\ Abandon(w)

\* The process dies, or an exception escapes publish_news_to_wp.
Crash(w) ==
    /\ UseFault
    /\ pc[w] # "idle"
    /\ Abandon(w)
    /\ UNCHANGED row

\* The session holding a named lock is closed by the server.
LosePublisherLock(w) ==
    /\ UseFault
    /\ wpLock = w /\ wpLock' = None
    /\ UNCHANGED <<tableVars, siteVars, mutex, pc, runVars>>

LoseMutex(w) ==
    /\ UseFault
    /\ mutex = w /\ mutex' = None
    /\ UNCHANGED <<tableVars, siteVars, wpLock, pc, runVars>>

\* publish_claimed_at becomes older than PUBLISH_CLAIM_TIMEOUT_MINUTES.
Expire(a) ==
    /\ InClaim(row[a]) /\ row[a].lease = "live"
    /\ SetRow(a, [row[a] EXCEPT !.lease = "expired"])
    /\ UNCHANGED <<due, siteVars, lockVars, pc, runVars, faults>>

\* The fetch planner selects and schedules an unselected source row again.
Reschedule(a) ==
    /\ ~due[a] /\ due' = [due EXCEPT ![a] = TRUE]
    /\ UNCHANGED <<row, siteVars, lockVars, pc, runVars, faults>>

-----------------------------------------------------------------------------
Init ==
    /\ row = [a \in Articles |->
                [pub |-> FALSE, st |-> IF a \in Historical THEN "pending" ELSE "fresh",
                 tok |-> None, lease |-> "none", att |-> 0, wp |-> 0]]
    /\ due = [a \in Articles |-> TRUE]
    /\ sent = [a \in Articles |-> 0]
    /\ posts = [a \in Articles |-> 0]
    /\ adrift = [a \in Articles |-> 0]
    /\ wpLock = None
    /\ mutex = None
    /\ pc = [w \in Workers |-> "idle"]
    /\ job = [w \in Workers |-> NoJob]
    /\ seen = [w \in Workers |-> {}]
    /\ left = [w \in Workers |-> 0]
    /\ faults = MaxFaults

\* What a worker does when nothing goes wrong.
WorkerStep(w) ==
    \/ w \in Durable /\ StartDurable(w)
    \/ w \in Legacy /\ StartLegacy(w)
    \/ HoldMutex(w)
    \/ w \in Durable /\ \E a \in Articles : ClaimNext(w, a)
    \/ w \in Legacy /\ \E a \in Articles : LoadItem(w, a)
    \/ FinishRun(w)
    \/ SaveIdentity(w) \/ Reconcile(w) \/ GuardCheck(w) \/ PrepareImage(w)
    \/ BeginLegacyCreation(w) \/ SendCreate(w) \/ CreateSucceeds(w)
    \/ SavePost(w) \/ WriteYoast(w) \/ Complete(w)
    \/ RequireManual(w) \/ DeferGuard(w) \/ RejectDuplicate(w) \/ FailClaim(w)

WorkerFault(w) ==
    \/ StepFails(w) \/ GuardUnavailable(w) \/ CreateRefused(w) \/ CreateUnanswered(w)
    \/ Interrupt(w) \/ Crash(w) \/ LosePublisherLock(w) \/ LoseMutex(w)

Environment(a) == LandLate(a) \/ NeverLands(a) \/ Expire(a) \/ Reschedule(a)

Next ==
    \/ \E w \in Workers : WorkerStep(w) \/ WorkerFault(w)
    \/ \E a \in Articles : Environment(a)

Spec == Init /\ [][Next]_vars

\* The scheduler starts runs again and again, every request is answered in the
\* end, and time passes.
Fairness ==
    /\ \A w \in Workers : WF_vars(WorkerStep(w))
    /\ \A a \in Articles : WF_vars(Expire(a))

FairSpec == Spec /\ Fairness

-----------------------------------------------------------------------------
(* Properties *)

TypeOK ==
    /\ row \in [Articles -> Row]
    /\ due \in [Articles -> BOOLEAN]
    /\ sent \in [Articles -> Nat]
    /\ posts \in [Articles -> Nat]
    /\ adrift \in [Articles -> Nat]
    /\ wpLock \in Workers \union {None}
    /\ mutex \in Workers \union {None}
    /\ pc \in [Workers -> Steps]
    /\ job \in [Workers -> Job]
    /\ seen \in [Workers -> SUBSET Articles]
    /\ left \in [Workers -> Nat]
    /\ faults \in Nat
    /\ \A w \in Workers : OnItem(w) => job[w].art \in Articles

\* No article is ever submitted to WordPress twice, whatever crashes, lost
\* locks, expired claims, deferrals and mixtures of the two modes happen.
AtMostOneCreate == \A a \in Articles : sent[a] <= 1

\* A post the database does not point to is never forgotten: unless a worker
\* is about to save its id, the row stays in a state that a later attempt sends
\* to manual review and that the duplicate guard takes for an unresolved peer.
OrphanStaysUnresolved ==
    \A a \in Articles :
        (posts[a] > 0 /\ ~External(row[a])) => Unresolved(row[a])

\* A published row points to a post that exists.
PublishedMeansPosted ==
    \A a \in Articles : row[a].pub => row[a].wp \in 1..posts[a]

\* Two articles the policy confirms as duplicates of one another never both
\* have a post.
NoConfirmedPairPosted ==
    \A a, b \in Articles :
        (<<a, b>> \in ConfirmedPair /\ <<b, a>> \in ConfirmedPair)
            => posts[a] = 0 \/ posts[b] = 0

\* A claim with a live lease changes hands only by a step of its owner on that
\* very article: no other worker, stale or not, can finish, fail, release or
\* replace it.
LiveClaimIsOwners ==
    [][\A a \in Articles : \A w \in Workers :
         (row[a].tok = w /\ row[a].lease = "live" /\ row'[a].tok # w)
            => job[w].art = a /\ pc'[w] # pc[w]]_vars

\* A saved post id is never replaced or erased.
PointerIsKept ==
    [][\A a \in Articles : row[a].wp > 0 => row'[a].wp = row[a].wp]_vars

-----------------------------------------------------------------------------
(* The inductive invariant behind AtMostOneCreate, PublishedMeansPosted,   *)
(* PointerIsKept and LiveClaimIsOwners.                                    *)

\* Worker w may still send the CREATE request of a: it holds a snapshot that
\* saw a fresh row, or it has just turned the fresh row into an intent.
Armed(w, a) ==
    /\ job[w].art = a
    /\ IF w \in Durable
       THEN /\ job[w].fresh
            /\ pc[w] \in {"identity", "reconcile", "guard", "image", "precheck",
                         "post", "defer", "reject"}
       ELSE pc[w] = "post"

Awaiting(w, a) == job[w].art = a /\ pc[w] = "await"

Saving(w, a) == job[w].art = a /\ pc[w] \in {"persist", "yoast", "complete"}

\* The durable steps behind the freshness gate belong to fresh snapshots.
GateHolds ==
    \A w \in Durable :
        pc[w] \in {"guard", "image", "precheck", "post", "defer", "reject"} => job[w].fresh

\* A permission to create excludes every other permission, past and future.
PermissionIsUnique ==
    \A a \in Articles :
        /\ FreshState(row[a]) => sent[a] = 0
        /\ \A w \in Workers :
              Armed(w, a) =>
                 /\ sent[a] = 0 /\ ~FreshState(row[a])
                 /\ \A v \in Workers : Armed(v, a) => v = w

\* The one request of an article is awaited, adrift, carried out or refused.
RequestIsAccounted ==
    \A a \in Articles :
        /\ sent[a] = 0 => posts[a] = 0 /\ adrift[a] = 0
        /\ adrift[a] > 0 => adrift[a] = 1 /\ posts[a] = 0
        /\ \A w \in Workers :
              Awaiting(w, a) =>
                 /\ sent[a] > 0 /\ posts[a] = 0 /\ adrift[a] = 0
                 /\ \A v \in Workers : Awaiting(v, a) => v = w

\* Saved and remembered ids are those of the one post.
PointersAreReal ==
    \A a \in Articles :
        /\ posts[a] <= 1 /\ row[a].wp <= posts[a]
        /\ row[a].pub => row[a].wp = 1
        /\ \A w \in Workers :
              /\ job[w].art = a => job[w].ptr <= posts[a]
              /\ Saving(w, a) => job[w].ptr = 1
              /\ Saving(w, a) /\ pc[w] # "persist" => row[a].wp = 1

TokenMeansClaim == \A a \in Articles : row[a].tok # None => InClaim(row[a])

CreationInv ==
    /\ AtMostOneCreate
    /\ GateHolds
    /\ PermissionIsUnique
    /\ RequestIsAccounted
    /\ PointersAreReal
    /\ TokenMeansClaim

-----------------------------------------------------------------------------
Closed(r) == r.pub \/ r.st \in {"manual_review", "duplicate"}

Settled(a) == Closed(row[a])

\* Every due article is in the end published, rejected as a duplicate or handed
\* to a person, although runs crash and claims are left behind.
EveryArticleSettles == \A a \in Articles : due[a] ~> Settled(a)

-----------------------------------------------------------------------------
\* The claims of the durable workers as a queue of leased work.  A row that no
\* token marks is still to be done, also while a legacy run has it in hand: a
\* durable run may claim it once the intent of the legacy run has grown old.
QueueState(r) ==
    IF r.tok # None THEN "held" ELSE IF Closed(r) THEN "closed" ELSE "open"

queueState == [a \in Articles |-> QueueState(row[a])]
queueHolder == [a \in Articles |-> row[a].tok]
queueLive == [a \in Articles |-> row[a].tok # None /\ row[a].lease = "live"]
queueBusy == [w \in Durable |-> IF OnItem(w) THEN job[w].art ELSE None]

Lease == INSTANCE LeaseQueue WITH
    Items <- Articles, Holders <- Durable, Nobody <- None,
    state <- queueState, holder <- queueHolder, live <- queueLive, busy <- queueBusy

\* The table of rich articles keeps the promises of a table of leased work, also
\* beside legacy runs, which write to its rows without asking who holds them: a
\* claim is ended only by the worker that holds it and is on that article, taken
\* over only after its lease has lapsed and by a worker that is on no other, and
\* an article that is published, rejected or left to a person is never claimed again.
KeepsLeases == Lease!Spec
=============================================================================
