------------------------------ MODULE Operations ------------------------------
(***************************************************************************)
(* How one-shot jobs share the article table.  Fetch cycles store, score   *)
(* and plan articles behind news_fetcher_lock; pipeline, process and       *)
(* publish jobs work on the due ones behind the advisory lock of their     *)
(* conflict group; the HTTP endpoint publishes behind wp_publisher_lock    *)
(* only.  Every lock belongs to a database connection and is gone with it, *)
(* while the job goes on.                                                  *)
(*                                                                         *)
(* Abstractions.  A job is any process, thread or request that runs one of *)
(* the commands; a job that finds its lock taken is skipped and changes    *)
(* nothing.  An article is breaking or not; its blended score and its age  *)
(* only decide whether a query of the planner returns it, and any article  *)
(* that is stored and not chosen may be returned or not.  The stages work  *)
(* as in legacy mode, where nothing but the locks keeps two jobs apart;    *)
(* what they do with one article is modules Enrichment and Publication.    *)
(* Fewer articles are due for processing than its batch limit, and the     *)
(* clock moves between the steps of a job and not within one: the seconds  *)
(* between the breaking articles of one plan are left out.                 *)
(***************************************************************************)
EXTENDS Slots

CONSTANTS
    Articles,     \* article ids, the most important and recent last
    Workers,      \* jobs that can be under way at once
    Nobody,       \* holder of a free lock
    Mixes,        \* bound: which commands are used together
    DailyTarget,  \* DAILY_TARGET
    PublishMax,   \* PUBLISH_BATCH_MAX
    Stubborn,     \* articles whose publication fails every time
    LastDay,      \* bound: days are numbered 0..LastDay
    MaxUpsets     \* bound on lost connections, crashes and failed calls

ASSUME OperationsAssumption ==
    /\ Articles \subseteq Nat /\ IsFiniteSet(Articles)
    /\ IsFiniteSet(Workers) /\ Nobody \notin Workers
    /\ UNION Mixes \subseteq {"fetch", "pipeline", "process", "publish", "api"}
    /\ {DailyTarget, PublishMax, LastDay, MaxUpsets} \subseteq Nat
    /\ Stubborn \subseteq Articles

VARIABLES
    mix,     \* the commands in use
    row,     \* the article table
    clock,   \* UTC time
    lock,    \* holder of each named lock
    job,     \* what each worker is doing
    made,    \* history: enriched versions the models returned per article
    lost,    \* history: locks that went with a dropped connection
    upsets   \* what went wrong so far

vars == <<mix, row, clock, lock, job, made, lost, upsets>>

NoDay == LastDay + 1
Never == NoDay * DayLength
Clock == 0..(Never - 1)

Row == [st: {"absent", "new", "rich", "aside", "posted"}, breaking: BOOLEAN,
        chosen: BOOLEAN, day: 0..NoDay, at: 0..Never]
NoRow == [st |-> "absent", breaking |-> FALSE, chosen |-> FALSE, day |-> NoDay, at |-> Never]

\* Articles that earlier fetch cycles gave a time on the first day.
Planned == {[NoRow EXCEPT !.st = "new", !.breaking = TRUE, !.chosen = TRUE, !.day = 0, !.at = t] : t \in 0..(DayLength - 1)}

Locks == {"fetch", "pipeline", "wp"}
NoJob == [kind |-> "none", pc |-> "idle", batch |-> {}, limit |-> 0, slots |-> <<>>, plan |-> {},
          owed |-> {}, since |-> 0]

Init ==
    /\ mix \in Mixes
    /\ row \in [Articles -> IF "fetch" \in mix THEN {NoRow} ELSE Planned]
    /\ clock = 0
    /\ lock = [k \in Locks |-> Nobody]
    /\ job = [w \in Workers |-> NoJob]
    /\ made = [a \in Articles |-> 0]
    /\ lost = {}
    /\ upsets = 0

Upset == upsets < MaxUpsets /\ upsets' = upsets + 1

At(w, p) == job[w].pc = p
Goto(w, p) == job' = [job EXCEPT ![w].pc = p]

\* The end of a job releases the locks its connections still hold.
Released(w) == [k \in Locks |-> IF lock[k] = w THEN Nobody ELSE lock[k]]
Finish(w) ==
    /\ job' = [job EXCEPT ![w] = NoJob]
    /\ lock' = Released(w)

-----------------------------------------------------------------------------
(* run_job: find the lock of the command *)

LockOf_ProcessApart(kind) ==
    CASE kind = "fetch" -> "fetch"
      [] kind \in {"pipeline", "publish"} -> "pipeline"
      [] OTHER -> "none"
\* The conflict group of the command; a fetch cycle takes its own lock, and the
\* endpoint none before it publishes.
LockOf(kind) ==
    CASE kind = "fetch" -> "fetch"
      [] kind \in {"pipeline", "process", "publish"} -> "pipeline"
      [] OTHER -> "none"

FirstStep(kind) ==
    CASE kind = "fetch" -> "pull"
      [] kind \in {"pipeline", "process"} -> "process"
      [] OTHER -> "publish"

Free(k) == lock[k] = Nobody

StartUnlocked(w, kind) ==
    /\ LockOf(kind) = "none"
    /\ UNCHANGED lock
StartLocked(w, kind) ==
    /\ LockOf(kind) # "none"
    /\ Free(LockOf(kind))
    /\ lock' = [lock EXCEPT ![LockOf(kind)] = w]

Ready(a) == row[a].st = "rich" /\ row[a].chosen /\ row[a].at <= clock

\* History: what a pipeline finds ready to be posted, and what had gone wrong then.
Begun(kind) ==
    LET job0 == [NoJob EXCEPT !.kind = kind, !.pc = FirstStep(kind)]
    IN  IF kind = "pipeline"
        THEN [job0 EXCEPT !.owed = {a \in Articles \ Stubborn : Ready(a)}, !.since = upsets]
        ELSE job0

Start(w, kind) ==
    /\ At(w, "idle")
    /\ StartUnlocked(w, kind) \/ StartLocked(w, kind)
    /\ job' = [job EXCEPT ![w] = Begun(kind)]
    /\ UNCHANGED <<mix, row, clock, made, lost, upsets>>

-----------------------------------------------------------------------------
(* run_fetch_cycle *)

\* _pull_batch and _insert_or_update: a stored article keeps its selection.
Pull(w, served) ==
    /\ At(w, "pull")
    /\ served # {}
    /\ row' = [a \in Articles |-> IF a \in served /\ row[a].st = "absent"
                                  THEN [row[a] EXCEPT !.st = "new"] ELSE row[a]]
    /\ Goto(w, "score")
    /\ UNCHANGED <<mix, clock, lock, made, lost, upsets>>

Stored(a) == row[a].st # "absent"

\* ai_score_batch and _update_scores: any stored row may be served and rated again,
\* so that after it any of them are breaking, the chosen ones included.
Score(w, breaking) ==
    /\ At(w, "score")
    /\ \A a \in breaking : Stored(a)
    /\ row' = [a \in Articles |-> [row[a] EXCEPT !.breaking = a \in breaking]]
    /\ Goto(w, "breaking")
    /\ UNCHANGED <<mix, clock, lock, made, lost, upsets>>

-----------------------------------------------------------------------------
(* _plan_today_schedule *)

\* ORDER BY final_importance DESC, publish_date DESC: how many of S come before a.
Before(a, S) == Cardinality({b \in S : b > a})

\* The two queries look at the selection, not at the status.
BreakingNow == {a \in Articles : Stored(a) /\ ~row[a].chosen /\ row[a].breaking}
ForQuota_ChosenToo == {a \in Articles : Stored(a) /\ ~row[a].breaking}
ForQuota == {a \in Articles : Stored(a) /\ ~row[a].chosen /\ ~row[a].breaking}

\* found: the articles over the threshold of the query and within its look-back.
ReadBreaking(w, found) ==
    /\ At(w, "breaking")
    /\ found \subseteq BreakingNow
    /\ job' = [job EXCEPT ![w].pc = IF found = {} THEN "count" ELSE "assign now",
                          ![w].plan = found]
    /\ UNCHANGED <<mix, row, clock, lock, made, lost, upsets>>

Assigned_MarkOnly(plan, time) ==
    [a \in Articles |->
        IF a \in plan THEN [row[a] EXCEPT !.chosen = TRUE, !.day = DayOf(clock)] ELSE row[a]]
\* _assign_schedule writes the rows it is given by id.
Assigned(plan, time) ==
    [a \in Articles |->
        IF a \in plan
        THEN [row[a] EXCEPT !.chosen = TRUE, !.day = DayOf(clock), !.at = time[a]]
        ELSE row[a]]

\* Breaking articles are due at once, whatever the quota.
AssignBreaking(w) ==
    /\ At(w, "assign now")
    /\ row' = Assigned(job[w].plan, [a \in job[w].plan |-> clock])
    /\ job' = [job EXCEPT ![w].pc = "count", ![w].plan = {}]
    /\ UNCHANGED <<mix, clock, lock, made, lost, upsets>>

\* _today_published_counts counts the articles that are chosen now.
ChosenToday == {a \in Articles : row[a].chosen /\ row[a].day = DayOf(clock)}
Remaining_BreakingUncounted ==
    LET n == Cardinality({a \in ChosenToday : row[a].breaking})
    IN  IF n < DailyTarget THEN DailyTarget - n ELSE 0
Remaining ==
    LET n == Cardinality(ChosenToday)
    IN  IF n < DailyTarget THEN DailyTarget - n ELSE 0

CountToday(w) ==
    /\ At(w, "count")
    /\ LET slots == TodaySlots(clock, Remaining)
       IN  IF slots = <<>>
           THEN Finish(w)
           ELSE /\ job' = [job EXCEPT ![w].pc = "select", ![w].slots = slots]
                /\ UNCHANGED lock
    /\ UNCHANGED <<mix, row, clock, made, lost, upsets>>

\* LIMIT: the first n articles of S.
FirstOf(S, n) == {a \in S : Before(a, S) < n}

SelectForQuota(w, found) ==
    /\ At(w, "select")
    /\ found \subseteq ForQuota
    /\ IF found = {}
       THEN Finish(w)
       ELSE /\ job' = [job EXCEPT ![w].pc = "assign",
                                  ![w].plan = FirstOf(found, Len(job[w].slots))]
            /\ UNCHANGED lock
    /\ UNCHANGED <<mix, row, clock, made, lost, upsets>>

\* The first article gets the first slot, and so on.
AssignQuota(w) ==
    LET plan == job[w].plan
    IN  /\ At(w, "assign")
        /\ row' = Assigned(plan, [a \in plan |-> job[w].slots[1 + Before(a, plan)]])
        /\ Finish(w)
        /\ UNCHANGED <<mix, clock, made, lost, upsets>>

-----------------------------------------------------------------------------
(* _execute_process, _execute_publish and the pipeline of both *)

Due(a) == row[a].chosen /\ row[a].at <= clock

AfterProcess_StopsOnFailure(w) == Finish(w)
\* A pipeline goes on to publish even if processing raised (_stage_call).
AfterProcess(w) ==
    IF job[w].kind = "pipeline"
    THEN job' = [job EXCEPT ![w].pc = "publish", ![w].batch = {}] /\ UNCHANGED lock
    ELSE Finish(w)

ReadDue(w) ==
    /\ At(w, "process")
    /\ job' = [job EXCEPT ![w].pc = "enrich",
                          ![w].batch = {a \in Articles : row[a].st = "new" /\ Due(a)}]
    /\ UNCHANGED <<mix, row, clock, lock, made, lost, upsets>>

\* One article of the batch: enriched and stored, or retired as a duplicate,
\* which gives its place in the day's plan back.
Enrich(w, a) ==
    /\ At(w, "enrich")
    /\ a \in job[w].batch
    /\ made' = [made EXCEPT ![a] = @ + 1]
    /\ job' = [job EXCEPT ![w].batch = @ \ {a}]
    /\ \/ /\ row' = [row EXCEPT ![a].st = IF @ = "new" THEN "rich" ELSE @]
          /\ UNCHANGED upsets
       \/ /\ row[a].st = "new" /\ row[a].chosen
          /\ row' = [row EXCEPT ![a].st = "aside", ![a].chosen = FALSE, ![a].at = Never]
          /\ UNCHANGED upsets
       \/ UNCHANGED row /\ Upset
    /\ UNCHANGED <<mix, clock, lock, lost>>

EndProcess(w) ==
    /\ At(w, "enrich") /\ job[w].batch = {}
    /\ AfterProcess(w)
    /\ UNCHANGED <<mix, row, clock, made, lost, upsets>>

\* The stage raises: no connection, no configuration, any other exception.
ProcessRaises(w) ==
    /\ job[w].pc \in {"process", "enrich"}
    /\ AfterProcess(w)
    /\ UNCHANGED <<mix, row, clock, made, lost, upsets>>

\* publish_news_to_wp is skipped when its own lock is taken.
OpenPublish(w) ==
    /\ At(w, "publish")
    /\ IF Free("wp")
       THEN /\ lock' = [lock EXCEPT !["wp"] = w]
            /\ Goto(w, "count due")
       ELSE Finish(w)
    /\ UNCHANGED <<mix, row, clock, made, lost, upsets>>

ToPost == {a \in Articles : Ready(a)}

Least(m, n) == IF m < n THEN m ELSE n

CountDue(w) ==
    /\ At(w, "count due")
    /\ IF ToPost = {}
       THEN Finish(w)
       ELSE /\ job' = [job EXCEPT ![w].pc = "list",
                                  ![w].limit = Least(Cardinality(ToPost), PublishMax)]
            /\ UNCHANGED lock
    /\ UNCHANGED <<mix, row, clock, made, lost, upsets>>

\* fetch_unpublished: the first of the due articles by time; the run works on this
\* one list, whatever happens meanwhile.
ReadList(w, list) ==
    /\ At(w, "list")
    /\ list \subseteq ToPost
    /\ Cardinality(list) = Least(job[w].limit, Cardinality(ToPost))
    /\ \A a \in list, b \in ToPost \ list : row[a].at <= row[b].at
    /\ job' = [job EXCEPT ![w].pc = "post", ![w].batch = list]
    /\ UNCHANGED <<mix, row, clock, lock, made, lost, upsets>>

Listed(w, a) == At(w, "post") /\ a \in job[w].batch

NextListed_StopsOnFailure(w, a) == job' = [job EXCEPT ![w].batch = {}]
NextListed(w, a) == job' = [job EXCEPT ![w].batch = @ \ {a}]

\* One article of the list, whose state is read again first.  It is posted, set
\* aside for manual review, or withdrawn as a duplicate, which gives its place in
\* the day's plan back; one that is no longer ready is left as it is.
Post(w, a) ==
    /\ Listed(w, a)
    /\ IF row[a].st = "rich"
       THEN \/ a \notin Stubborn /\ row' = [row EXCEPT ![a].st = "posted"]
            \/ row' = [row EXCEPT ![a].st = "aside"]
            \/ row' = [row EXCEPT ![a].st = "aside", ![a].chosen = FALSE, ![a].at = Never]
       ELSE UNCHANGED row
    /\ job' = [job EXCEPT ![w].batch = @ \ {a}]
    /\ UNCHANGED <<mix, clock, lock, made, lost, upsets>>

\* Its publication fails, or its state cannot be read: it stays due, and the run
\* goes on with the next one.  What is raised out of the loop ends the job (Crash).
PostFails(w, a) ==
    /\ Listed(w, a)
    /\ IF a \in Stubborn THEN UNCHANGED upsets ELSE Upset
    /\ NextListed(w, a)
    /\ UNCHANGED <<mix, row, clock, lock, made, lost>>

EndPublish(w) ==
    /\ At(w, "post") /\ job[w].batch = {}
    /\ Finish(w)
    /\ UNCHANGED <<mix, row, clock, made, lost, upsets>>

-----------------------------------------------------------------------------
(* Time and faults *)

Tick ==
    /\ clock + 1 \in Clock
    /\ clock' = clock + 1
    /\ UNCHANGED <<mix, row, lock, job, made, lost, upsets>>

\* The connection of a lock is dropped; its job does not notice.
LoseLock(k) ==
    /\ lock[k] # Nobody
    /\ lock' = [lock EXCEPT ![k] = Nobody]
    /\ lost' = lost \union {k}
    /\ Upset
    /\ UNCHANGED <<mix, row, clock, job, made>>

\* A job is killed or raises, or a cycle is served nothing: its connections are
\* closed.
Crash(w) ==
    /\ ~At(w, "idle")
    /\ Finish(w)
    /\ Upset
    /\ UNCHANGED <<mix, row, clock, made, lost>>

Step(w) ==
    \/ \E served \in SUBSET Articles : Pull(w, served)
    \/ \E breaking \in SUBSET Articles : Score(w, breaking)
    \/ \E found \in SUBSET Articles : ReadBreaking(w, found)
    \/ AssignBreaking(w) \/ CountToday(w)
    \/ \E found \in SUBSET Articles : SelectForQuota(w, found)
    \/ AssignQuota(w)
    \/ ReadDue(w)
    \/ \E a \in Articles : Enrich(w, a)
    \/ EndProcess(w) \/ ProcessRaises(w)
    \/ OpenPublish(w) \/ CountDue(w)
    \/ \E list \in SUBSET Articles : ReadList(w, list)
    \/ \E a \in Articles : Post(w, a) \/ PostFails(w, a)
    \/ EndPublish(w)

Next ==
    \/ \E w \in Workers, kind \in mix : Start(w, kind)
    \/ \E w \in Workers : Step(w)
    \/ \E w \in Workers : Crash(w)
    \/ \E k \in Locks : LoseLock(k)
    \/ Tick

Spec == Init /\ [][Next]_vars

-----------------------------------------------------------------------------
TypeOK ==
    /\ mix \in Mixes
    /\ row \in [Articles -> Row]
    /\ \A a \in Articles : row[a].chosen => row[a].at \in Clock
    /\ clock \in Clock
    /\ lock \in [Locks -> Workers \union {Nobody}]
    /\ \A w \in Workers :
         /\ job[w].kind \in mix \union {"none"}
         /\ job[w].batch \subseteq Articles /\ job[w].limit \in 0..PublishMax
         /\ job[w].owed \subseteq Articles \ Stubborn /\ job[w].since \in 0..MaxUpsets
         /\ job[w].slots \in Seq(Clock) /\ job[w].plan \subseteq Articles
    /\ made \in [Articles -> Nat]
    /\ lost \subseteq Locks
    /\ upsets \in 0..MaxUpsets

\* As long as the fetch lock was not lost, whoever plans an article that is not
\* breaking leaves the day with DAILY_TARGET chosen articles at most, the breaking
\* ones counted: whatever was planned, rated anew, retired or cut short since the
\* places of the day were counted (_plan_today_schedule).
QuotaKept ==
    [][("fetch" \notin lost /\ \E a \in Articles :
            ~row[a].breaking /\ ~row[a].chosen /\ row'[a].chosen)
          => Cardinality(ChosenToday') <= DailyTarget]_vars

\* In legacy mode the locks alone keep two jobs from paying for the same
\* article: it is enriched once, and once more per fault at most.
EnrichedOnce == \A a \in Articles : made[a] <= 1 + upsets

\* As long as the fetch lock was not lost, an article that was given a time keeps
\* it: no later or concurrent cycle plans it again.
PlannedOnce ==
    [][\A a \in Articles :
          (row[a].chosen /\ row'[a].chosen /\ "fetch" \notin lost) =>
              row'[a].at = row[a].at /\ row'[a].day = row[a].day]_vars

\* What was ready to be posted when a pipeline started is posted or set aside when
\* it ends by itself, although its processing may have raised and other articles of
\* its list fail every time: unless it found another run publishing, or something
\* went wrong meanwhile (_execute_pipeline, publish_news_to_wp).  A second job of the
\* group, or a second planner, may push an article out of the list.
PipelineDelivers ==
    [][\A w \in Workers :
          (/\ job[w].kind = "pipeline" /\ job'[w] = NoJob
           /\ upsets' = job[w].since /\ lost \subseteq {"wp"}
           /\ lock["wp"] \in {w, Nobody})
              => \A a \in job[w].owed : row'[a].st # "rich"]_vars

-----------------------------------------------------------------------------
\* The slots of a whole day in hours, with the default window from 14:00 to 02:00
\* and a share of 80 %.
Hours == INSTANCE Slots WITH DayLength <- 24, ActiveStart <- 14, ActiveEnd <- 2,
                             ShareOf <- 4, ShareIn <- 5

\* SlotsAreToday for a whole day in hours, which has room for any number of slots
\* below 24; it speaks of no state, and is evaluated where a behaviour starts
\* (_generate_even_slots, _plan_today_schedule).
HourSlotsAreToday ==
    Init => (\A n \in 0..23 : Hours!Roomy(n)) /\ Hours!SlotsAreToday
=============================================================================
